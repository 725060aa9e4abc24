------------------------------ MODULE AuthProofs ------------------------------
(***************************************************************************)
(* Proofs about the two parts of auth.py: DeviceAuth, for any number of    *)
(* worker threads and tokens, and RateLimiter, for any number of threads   *)
(* and requests, any limit and any window.                                 *)
(***************************************************************************)
EXTENDS DeviceAuth, RateLimiter, FiniteSetTheorems, TLAPS

-----------------------------------------------------------------------------
(* DeviceAuth.                                                              *)

Calls == [op : Ops, token : Tokens, step : Steps, stmt : Statements, changed : BOOLEAN]

\* A new or an ended call has the type of a task.
LEMMA CallTypes ==
    ASSUME NEW k \in Tokens, NEW op \in Ops, NEW step \in Steps
    PROVE  Call(op, k, step) \in Calls /\ Idle(k) \in Calls
  BY DEF Call, Idle, Calls, Ops, Steps, Statements, First

\* The effect of a statement on the tables keeps their type.
LEMMA EffectType ==
    ASSUME live \in Tables, NEW stmt \in Statements, NEW k \in Tokens
    PROVE  Effect(stmt, k) \in Tables
  <1>1. CASE stmt = "upsert"
    BY <1>1 DEF Effect, Tables, Statements
  <1>2. CASE stmt = "insert"
    BY <1>2 DEF Effect, Tables, Statements
  <1>3. CASE stmt = "revokeOthers"
    BY <1>3 DEF Effect, Tables, Statements
  <1>4. CASE stmt = "revoke"
    BY <1>4 DEF Effect, Tables, Statements
  <1>5. CASE stmt = "touch"
    BY <1>5 DEF Effect, Tables, Statements
  <1>6. CASE stmt \in {"write", "none"}
    BY <1>6 DEF Effect, Tables, Statements
  <1> QED
    BY <1>1, <1>2, <1>3, <1>4, <1>5, <1>6 DEF Statements

\* What a statement does to the tokens.
LEMMA EffectOnTokens ==
    ASSUME live \in Tables, NEW stmt \in Statements, NEW k \in Tokens
    PROVE  /\ stmt \in {"upsert", "touch", "write", "none"} =>
                 Effect(stmt, k).token = live.token
           /\ stmt = "insert" => Effect(stmt, k).token = [live.token EXCEPT ![k] = "active"]
           /\ stmt = "revokeOthers" =>
                 Effect(stmt, k).token = [o \in Tokens |->
                    IF o # k /\ live.token[o] = "active" THEN "revoked" ELSE live.token[o]]
           /\ stmt = "revoke" =>
                 Effect(stmt, k).token
                    \in {live.token, [live.token EXCEPT ![k] = "revoked"]}
           /\ stmt = "revoke" /\ Effect(stmt, k).token # live.token =>
                 Effect(stmt, k).token[k] = "revoked"
  <1>1. CASE stmt \in {"upsert", "touch", "write", "none"}
    BY <1>1 DEF Effect, Tables
  <1>2. CASE stmt = "insert"
    BY <1>2 DEF Effect, Tables
  <1>3. CASE stmt = "revokeOthers"
    BY <1>3 DEF Effect, Tables
  <1>4. CASE stmt = "revoke"
    <2>1. Effect(stmt, k).token =
             [live.token EXCEPT ![k] = IF live.token[k] = "active" THEN "revoked"
                                       ELSE live.token[k]]
      BY <1>4 DEF Effect, Tables
    <2>2. CASE live.token[k] = "active"
      BY <1>4, <2>1, <2>2 DEF Tables
    <2>3. CASE live.token[k] # "active"
      BY <1>4, <2>1, <2>3 DEF Tables
    <2> QED
      BY <2>2, <2>3
  <1> QED
    BY <1>1, <1>2, <1>3, <1>4 DEF Statements

-----------------------------------------------------------------------------

\* The state has its types in every reachable state.
THEOREM TypeCorrect == Spec => []TypeOK
  <1>1. Init => TypeOK
    <2> SUFFICES ASSUME Init PROVE TypeOK
      OBVIOUS
    <2>1. live \in Tables /\ saved \in Tables
      BY DEF Init, Tables
    <2>2. PICK k \in Tokens : task = [t \in Threads |-> Idle(k)]
      BY DEF Init
    <2>3. task \in [Threads -> Calls]
      BY <2>2, CallTypes DEF Ops, Steps
    <2>4. faults \in 0..MaxFaults
      BY FaultsAssumption DEF Init
    <2>5. inTxn \in BOOLEAN /\ disclosed \subseteq Tokens /\ reported \subseteq Tokens
      BY DEF Init
    <2> QED
      BY <2>1, <2>3, <2>4, <2>5 DEF TypeOK, Calls
  <1>2. TypeOK /\ [Next]_vars => TypeOK'
    <2> SUFFICES ASSUME TypeOK, [Next]_vars PROVE TypeOK'
      OBVIOUS
    <2> USE FaultsAssumption
    <2>0. /\ Loop \in Threads /\ Workers \subseteq Threads
          /\ task \in [Threads -> Calls]
      BY DEF Threads, TypeOK, Calls
    <2>F. \A t \in Threads : Finish(t) \in [Threads -> Calls]
      BY <2>0, CallTypes DEF Finish, Ops, Steps, Calls
    <2>1. ASSUME NEW op \in {"enroll", "rotate"}, Issue(op) PROVE TypeOK'
      <3>1. PICK k \in Tokens : task' = [task EXCEPT ![Loop] = Call(op, k, "begin")]
        BY <2>1 DEF Issue
      <3>2. Call(op, k, "begin") \in Calls
        BY CallTypes DEF Ops, Steps
      <3> QED
        BY <2>0, <2>1, <3>1, <3>2 DEF Issue, TypeOK, Calls
    <2>2. CASE Revoke
      <3>1. PICK k \in Tokens : task' = [task EXCEPT ![Loop] = Call("revoke", k, "begin")]
        BY <2>2 DEF Revoke, Issued
      <3>2. Call("revoke", k, "begin") \in Calls
        BY CallTypes DEF Ops, Steps
      <3> QED
        BY <2>0, <2>2, <3>1, <3>2 DEF Revoke, TypeOK, Calls
    <2>3. CASE Write
      <3>1. Call("write", task[Loop].token, "begin") \in Calls
        BY <2>0, CallTypes DEF Ops, Steps, Calls
      <3> QED
        BY <2>0, <2>3, <3>1 DEF Write, TypeOK, Calls
    <2>4. ASSUME NEW w \in Workers, Verify(w) PROVE TypeOK'
      <3>1. PICK k \in disclosed : task' = [task EXCEPT ![w] = Call("verify", k, "device")]
        BY <2>4 DEF Verify
      <3>2. Call("verify", k, "device") \in Calls
        BY CallTypes DEF TypeOK, Ops, Steps
      <3> QED
        BY <2>0, <2>4, <3>1, <3>2 DEF Verify, TypeOK, Calls
    <2>5. ASSUME NEW w \in Workers, Check(w) PROVE TypeOK'
      <3>1. task' \in [Threads -> Calls]
        <4>1. \A step \in Steps : [task EXCEPT ![w].step = step] \in [Threads -> Calls]
          BY <2>0 DEF Calls
        <4>2. Finish(w) \in [Threads -> Calls]
          BY <2>0, <2>F
        <4> QED
          BY <2>5, <4>1, <4>2 DEF Check, ReadDevice, ReadTokens, Steps
      <3> QED
        BY <2>5, <3>1 DEF Check, ReadDevice, ReadTokens, TypeOK, Calls
    <2>6. ASSUME NEW t \in Threads, Begin(t) PROVE TypeOK'
      BY <2>6 DEF Begin, TypeOK, Steps
    <2>7. ASSUME NEW t \in Threads, BeginFails(t) PROVE TypeOK'
      BY <2>7, <2>F DEF BeginFails, TypeOK, Calls
    <2>8. ASSUME NEW t \in Threads, Execute(t) PROVE TypeOK'
      <3>1. Effect(task[t].stmt, task[t].token) \in Tables
        BY <2>0, EffectType DEF TypeOK, Calls
      <3>2. task' \in [Threads -> Calls]
        BY <2>0, <2>8 DEF Execute, Calls, Steps
      <3> QED
        BY <2>8, <3>1, <3>2 DEF Execute, TypeOK, Calls
    <2>9. ASSUME NEW t \in Threads, Commit(t) PROVE TypeOK'
      <3>1. Following(task[t].op, task[t].stmt) \in Statements
        BY DEF Following, Statements
      <3>2. task' \in [Threads -> Calls]
        BY <2>0, <2>9, <3>1 DEF Commit, Calls, Steps
      <3> QED
        BY <2>9, <3>2 DEF Commit, TypeOK, Calls
    <2>10. ASSUME NEW t \in Threads, Return(t) PROVE TypeOK'
      BY <2>0, <2>10, <2>F DEF Return, TypeOK, Calls, Issued
    <2>11. ASSUME NEW t \in Threads, StatementFails(t) PROVE TypeOK'
      <3>1. faults' \in 0..MaxFaults
        BY <2>11 DEF StatementFails, TypeOK
      <3>2. inTxn' \in BOOLEAN
        BY <2>11 DEF StatementFails
      <3> QED
        BY <2>0, <2>11, <2>F, <3>1, <3>2 DEF StatementFails, TypeOK, Calls
    <2>12. CASE Crash
      <3>1. \A t \in Threads : Idle(task[t].token) \in Calls
        BY <2>0, CallTypes DEF Calls, Ops, Steps
      <3>2. faults' \in 0..MaxFaults
        BY <2>12 DEF Crash, TypeOK
      <3>3. inTxn' \in BOOLEAN
        BY <2>12 DEF Crash
      <3> QED
        BY <2>12, <3>1, <3>2, <3>3 DEF Crash, TypeOK, Calls
    <2>13. CASE UNCHANGED vars
      BY <2>13 DEF vars, TypeOK
    <2> QED
      BY <2>1, <2>2, <2>3, <2>4, <2>5, <2>6, <2>7, <2>8, <2>9, <2>10, <2>11, <2>12, <2>13
         DEF Next, Run
  <1> QED
    BY <1>1, <1>2, PTL DEF Spec

-----------------------------------------------------------------------------
(* What leaves the loop's part of the invariant alone *)

\* Nothing the loop's invariant reads has changed.
LEMMA LoopUntouched ==
    ASSUME LoopInv, task'[Loop] = task[Loop],
           live'.token = live.token, saved'.token = saved.token
    PROVE  LoopInv'
  BY DEF LoopInv, Issued, Active

\* An idle loop with no uncommitted token.
LEMMA LoopAtRest ==
    ASSUME task'[Loop].step = "idle", live'.token = saved'.token
    PROVE  LoopInv'
  BY DEF LoopInv

\* Each worker's task is unchanged, over, or the same verification at a later
\* step.
LEMMA WorkersAdvance ==
    ASSUME WorkerInv, disclosed \subseteq disclosed',
           \A w \in Workers :
              \/ task'[w].step = "idle"
              \/ /\ task[w].step # "idle"
                 /\ task'[w].op = task[w].op
                 /\ task'[w].token = task[w].token
                 /\ task'[w].stmt \in {task[w].stmt, "none"}
    PROVE  WorkerInv'
  BY DEF WorkerInv

\* A thread whose call is over is idle, and no other thread is affected.
LEMMA FinishEnds ==
    ASSUME TypeOK, NEW t \in Threads
    PROVE  /\ Finish(t)[t].step = "idle"
           /\ \A u \in Threads \ {t} : Finish(t)[u] = task[u]
  BY DEF Finish, Idle, TypeOK

\* Calls that fail, and a crash, leave the tables as committed.
LEMMA RolledBack ==
    ASSUME TypeOK, IndInv, NEW t \in Threads, StatementFails(t)
    PROVE  IndInv'
  <1>1. Loop \in Threads /\ Workers \subseteq Threads
    BY DEF Threads
  <1>2. task'[t].step = "idle" /\ \A u \in Threads \ {t} : task'[u] = task[u]
    BY FinishEnds DEF StatementFails
  <1>3. TransactionExclusive'
    <2>1. \A u \in Threads : ~InTransaction(u)'
      BY <1>2 DEF IndInv, TransactionExclusive, StatementFails, InTransaction
    <2> QED
      BY <2>1 DEF TransactionExclusive, StatementFails
  <1>4. RepliesAreDurable'
    BY DEF IndInv, RepliesAreDurable, StatementFails, Issued, Active
  <1>5. WorkerInv'
    BY <1>1, <1>2, WorkersAdvance DEF IndInv, StatementFails
  <1>6. LoopInv'
    <2>1. CASE t = Loop
      BY <1>2, <2>1, LoopAtRest DEF StatementFails
    <2>2. CASE t # Loop
      <3>1. task[Loop].step # "commit"
        BY <1>1, <2>2 DEF IndInv, TransactionExclusive, StatementFails, InTransaction
      <3>2. live.token = saved.token
        BY <3>1 DEF IndInv, LoopInv
      <3> QED
        BY <1>1, <1>2, <2>2, <3>2, LoopUntouched DEF IndInv, StatementFails
    <2> QED
      BY <2>1, <2>2
  <1> QED
    BY <1>3, <1>4, <1>5, <1>6 DEF IndInv

LEMMA Crashed ==
    ASSUME TypeOK, IndInv, Crash
    PROVE  IndInv'
  <1>1. Loop \in Threads /\ Workers \subseteq Threads
    BY DEF Threads
  <1>2. \A u \in Threads : task'[u].step = "idle"
    BY DEF Crash, Idle
  <1>3. TransactionExclusive'
    BY <1>2 DEF TransactionExclusive, Crash, InTransaction
  <1>4. RepliesAreDurable'
    BY DEF IndInv, RepliesAreDurable, Crash, Issued, Active
  <1>5. WorkerInv'
    BY <1>1, <1>2 DEF WorkerInv
  <1>6. LoopInv'
    BY <1>1, <1>2, LoopAtRest DEF Crash
  <1> QED
    BY <1>3, <1>4, <1>5, <1>6 DEF IndInv

-----------------------------------------------------------------------------
(* Requests, reads and replies: no row changes *)

LEMMA RequestStep ==
    ASSUME TypeOK, IndInv,
           \/ Issue("enroll") \/ Issue("rotate") \/ Revoke \/ Write
           \/ \E w \in Workers : Verify(w)
    PROVE  IndInv'
  <1>1. Loop \in Threads /\ Workers \subseteq Threads /\ Loop \notin Workers
    BY ThreadsAssumption DEF Threads
  <1>2. UNCHANGED <<live, saved, inTxn, disclosed, reported>>
    BY DEF Issue, Revoke, Write, Verify
  <1>3. PICK t \in Threads, k \in Tokens, op \in Ops, step \in {"begin", "device"} :
           /\ task[t].step = "idle"
           /\ task' = [task EXCEPT ![t] = Call(op, k, step)]
           /\ t = Loop => op # "verify" /\ step = "begin"
           /\ t = Loop /\ op \in {"enroll", "rotate"} => k \notin Issued(live)
           /\ t # Loop => op = "verify" /\ step = "device" /\ k \in disclosed
    <2>1. CASE Issue("enroll")
      BY <1>1, <2>1 DEF Issue, Ops
    <2>2. CASE Issue("rotate")
      BY <1>1, <2>2 DEF Issue, Ops
    <2>3. CASE Revoke
      BY <1>1, <2>3 DEF Revoke, Ops, Issued
    <2>4. CASE Write
      <3>1. task[Loop].token \in Tokens
        BY <1>1 DEF TypeOK
      <3> QED
        BY <1>1, <2>4, <3>1 DEF Write, Ops
    <2>5. ASSUME NEW w \in Workers, Verify(w)
          PROVE  \E k \in Tokens :
                    /\ task[w].step = "idle"
                    /\ task' = [task EXCEPT ![w] = Call("verify", k, "device")]
                    /\ k \in disclosed
      BY <2>5 DEF Verify, TypeOK
    <2> QED
      BY <1>1, <2>1, <2>2, <2>3, <2>4, <2>5 DEF Ops
  <1>4. task'[t] = Call(op, k, step) /\ \A u \in Threads \ {t} : task'[u] = task[u]
    BY <1>3 DEF TypeOK
  <1>5. /\ task'[t].op = op /\ task'[t].token = k /\ task'[t].step = step
        /\ task'[t].stmt = First(op)
    BY <1>4 DEF Call
  <1>6. TransactionExclusive'
    <2>1. \A u \in Threads : InTransaction(u)' = InTransaction(u)
      BY <1>3, <1>4, <1>5 DEF InTransaction
    <2> QED
      BY <1>2, <2>1 DEF IndInv, TransactionExclusive
  <1>7. RepliesAreDurable'
    BY <1>2 DEF IndInv, RepliesAreDurable, Issued, Active
  <1>8. WorkerInv'
    BY <1>1, <1>2, <1>3, <1>4, <1>5 DEF IndInv, WorkerInv, First
  <1>9. LoopInv'
    <2>1. CASE t = Loop
      <3>1. live.token = saved.token
        BY <1>3, <2>1 DEF IndInv, LoopInv
      <3> QED
        BY <1>2, <1>3, <1>5, <2>1, <3>1 DEF LoopInv, First, Issued, Ops
    <2>2. CASE t # Loop
      BY <1>1, <1>2, <1>4, <2>2, LoopUntouched DEF IndInv
    <2> QED
      BY <2>1, <2>2
  <1> QED
    BY <1>6, <1>7, <1>8, <1>9 DEF IndInv

LEMMA CheckStep ==
    ASSUME TypeOK, IndInv, NEW w \in Workers, Check(w)
    PROVE  IndInv'
  <1>1. Loop \in Threads /\ Workers \subseteq Threads /\ Loop \notin Workers
    BY ThreadsAssumption DEF Threads
  <1>2. UNCHANGED <<live, saved, inTxn, disclosed, reported>>
    BY DEF Check, ReadDevice, ReadTokens
  <1>3. task[w].step \in {"device", "tokens"}
    BY DEF Check, ReadDevice, ReadTokens
  <1>4. \/ task' = Finish(w)
        \/ task' = [task EXCEPT ![w].step = "tokens"]
        \/ task' = [task EXCEPT ![w].step = "begin"]
    BY DEF Check, ReadDevice, ReadTokens
  <1>5. /\ \A u \in Threads \ {w} : task'[u] = task[u]
        /\ task'[w].step \in {"idle", "tokens", "begin"}
        /\ \/ task'[w].step = "idle"
           \/ /\ task'[w].op = task[w].op
              /\ task'[w].token = task[w].token
              /\ task'[w].stmt = task[w].stmt
    <2>1. w \in Threads
      BY <1>1
    <2>2. CASE task' = Finish(w)
      BY <2>1, <2>2, FinishEnds
    <2>3. CASE task' = [task EXCEPT ![w].step = "tokens"]
      BY <2>1, <2>3 DEF TypeOK
    <2>4. CASE task' = [task EXCEPT ![w].step = "begin"]
      BY <2>1, <2>4 DEF TypeOK
    <2> QED
      BY <1>4, <2>2, <2>3, <2>4
  <1>6. TransactionExclusive'
    <2>1. \A u \in Threads : InTransaction(u)' = InTransaction(u)
      BY <1>3, <1>5 DEF InTransaction
    <2> QED
      BY <1>2, <2>1 DEF IndInv, TransactionExclusive
  <1>7. RepliesAreDurable'
    BY <1>2 DEF IndInv, RepliesAreDurable, Issued, Active
  <1>8. WorkerInv'
    BY <1>1, <1>2, <1>3, <1>5 DEF IndInv, WorkerInv
  <1>9. LoopInv'
    BY <1>1, <1>2, <1>5, LoopUntouched DEF IndInv
  <1> QED
    BY <1>6, <1>7, <1>8, <1>9 DEF IndInv

LEMMA ReturnStep ==
    ASSUME TypeOK, IndInv, NEW t \in Threads, Return(t)
    PROVE  IndInv'
  <1>1. Loop \in Threads /\ Workers \subseteq Threads /\ Loop \notin Workers
    BY ThreadsAssumption DEF Threads
  <1>2. task'[t].step = "idle" /\ \A u \in Threads \ {t} : task'[u] = task[u]
    BY FinishEnds DEF Return
  <1>3. TransactionExclusive'
    <2>1. \A u \in Threads : InTransaction(u)' = InTransaction(u)
      BY <1>2 DEF InTransaction, Return
    <2> QED
      BY <2>1 DEF IndInv, TransactionExclusive, Return
  <1>4. RepliesAreDurable'
    <2>1. CASE t \in Workers
      <3>1. task[t].op = "verify"
        BY <2>1 DEF IndInv, WorkerInv, Return
      <3>2. disclosed' = disclosed /\ reported' = reported
        BY <3>1 DEF Return
      <3> QED
        BY <3>2 DEF IndInv, RepliesAreDurable, Return, Issued, Active
    <2>2. CASE t = Loop
      <3>1. CASE task[t].op = "enroll"
        BY <1>1, <2>2, <3>1
           DEF IndInv, LoopInv, RepliesAreDurable, Return, Issued, Active, TypeOK
      <3>2. CASE task[t].op = "rotate"
        BY <1>1, <2>2, <3>2
           DEF IndInv, LoopInv, RepliesAreDurable, Return, Issued, Active, TypeOK
      <3>3. CASE task[t].op = "revoke"
        BY <1>1, <2>2, <3>3
           DEF IndInv, LoopInv, RepliesAreDurable, Return, Issued, Active, TypeOK
      <3>4. CASE task[t].op \in {"verify", "write"}
        BY <1>1, <2>2, <3>4
           DEF IndInv, LoopInv, RepliesAreDurable, Return, Issued, Active, TypeOK
      <3> QED
        BY <1>1, <2>2, <3>1, <3>2, <3>3, <3>4 DEF TypeOK, Ops
    <2> QED
      BY <2>1, <2>2 DEF Threads
  <1>5. WorkerInv'
    <2>1. disclosed \subseteq disclosed'
      BY DEF Return
    <2> QED
      BY <1>1, <1>2, <2>1, WorkersAdvance DEF IndInv
  <1>6. LoopInv'
    <2>1. CASE t = Loop
      BY <1>1, <1>2, <2>1, LoopAtRest DEF IndInv, LoopInv, Return
    <2>2. CASE t # Loop
      BY <1>1, <1>2, <2>2, LoopUntouched DEF IndInv, Return
    <2> QED
      BY <2>1, <2>2
  <1> QED
    BY <1>3, <1>4, <1>5, <1>6 DEF IndInv

-----------------------------------------------------------------------------
(* Database.transaction *)

LEMMA BeginStep ==
    ASSUME TypeOK, IndInv, NEW t \in Threads, Begin(t)
    PROVE  IndInv'
  <1>1. Loop \in Threads /\ Workers \subseteq Threads /\ Loop \notin Workers
    BY ThreadsAssumption DEF Threads
  <1>2. /\ task'[t] = [task[t] EXCEPT !.step = "execute"]
        /\ \A u \in Threads \ {t} : task'[u] = task[u]
    BY DEF Begin, TypeOK
  <1>3. /\ task'[t].step = "execute" /\ task'[t].op = task[t].op
        /\ task'[t].token = task[t].token /\ task'[t].stmt = task[t].stmt
        /\ task'[t].changed = task[t].changed
    BY <1>2 DEF TypeOK
  <1>4. TransactionExclusive'
    <2>1. \A u \in Threads : ~InTransaction(u)
      BY DEF IndInv, TransactionExclusive, Begin
    <2>2. \A u \in Threads \ {t} : ~InTransaction(u)'
      BY <1>2, <2>1 DEF InTransaction
    <2>3. InTransaction(t)'
      BY <1>3 DEF InTransaction
    <2> QED
      BY <2>2, <2>3 DEF TransactionExclusive, Begin
  <1>5. RepliesAreDurable'
    BY DEF IndInv, RepliesAreDurable, Begin, Issued, Active
  <1>6. WorkerInv'
    BY <1>1, <1>2, <1>3, WorkersAdvance DEF IndInv, Begin
  <1>7. LoopInv'
    <2>1. CASE t = Loop
      BY <1>3, <2>1 DEF IndInv, LoopInv, Begin, Issued, Active
    <2>2. CASE t # Loop
      BY <1>1, <1>2, <2>2, LoopUntouched DEF IndInv, Begin
    <2> QED
      BY <2>1, <2>2
  <1> QED
    BY <1>4, <1>5, <1>6, <1>7 DEF IndInv

LEMMA BeginFailsStep ==
    ASSUME TypeOK, IndInv, NEW t \in Threads, BeginFails(t)
    PROVE  IndInv'
  <1>1. Loop \in Threads /\ Workers \subseteq Threads
    BY DEF Threads
  <1>2. task'[t].step = "idle" /\ \A u \in Threads \ {t} : task'[u] = task[u]
    BY FinishEnds DEF BeginFails
  <1>3. TransactionExclusive'
    <2>1. \A u \in Threads : InTransaction(u)' = InTransaction(u)
      BY <1>2 DEF InTransaction, BeginFails
    <2> QED
      BY <2>1 DEF IndInv, TransactionExclusive, BeginFails
  <1>4. RepliesAreDurable'
    BY DEF IndInv, RepliesAreDurable, BeginFails, Issued, Active
  <1>5. WorkerInv'
    BY <1>1, <1>2, WorkersAdvance DEF IndInv, BeginFails
  <1>6. LoopInv'
    <2>1. CASE t = Loop
      BY <1>2, <2>1, LoopAtRest DEF IndInv, LoopInv, BeginFails
    <2>2. CASE t # Loop
      BY <1>1, <1>2, <2>2, LoopUntouched DEF IndInv, BeginFails
    <2> QED
      BY <2>1, <2>2
  <1> QED
    BY <1>3, <1>4, <1>5, <1>6 DEF IndInv

LEMMA ExecuteStep ==
    ASSUME TypeOK, IndInv, NEW t \in Threads, Execute(t)
    PROVE  IndInv'
  <1>1. Loop \in Threads /\ Workers \subseteq Threads /\ Loop \notin Workers
    BY ThreadsAssumption DEF Threads
  <1>0. task'[t] = [task[t] EXCEPT !.step = "commit",
                                   !.changed = (live'.token # live.token)]
    BY DEF Execute, TypeOK
  <1>2. \A u \in Threads \ {t} : task'[u] = task[u]
    BY DEF Execute, TypeOK
  <1>3. /\ task'[t].step = "commit" /\ task'[t].op = task[t].op
        /\ task'[t].token = task[t].token /\ task'[t].stmt = task[t].stmt
        /\ task'[t].changed = (live'.token # live.token)
    BY <1>0 DEF TypeOK
  <1>4. inTxn /\ saved' = saved /\ disclosed' = disclosed /\ reported' = reported
    BY DEF IndInv, TransactionExclusive, Execute, InTransaction
  <1>5. TransactionExclusive'
    <2>1. InTransaction(t) /\ InTransaction(t)'
      BY <1>3 DEF InTransaction, Execute
    <2>2. \A u \in Threads \ {t} : InTransaction(u)' <=> InTransaction(u)
      BY <1>2 DEF InTransaction
    <2> QED
      BY <1>4, <2>1, <2>2 DEF IndInv, TransactionExclusive, Execute
  <1>6. RepliesAreDurable'
    BY <1>4 DEF IndInv, RepliesAreDurable, Issued, Active
  <1>7. WorkerInv'
    <2>1. \A w \in Workers : task[w].step # "idle" \/ task'[w].step = "idle"
      BY <1>1, <1>2 DEF Execute
    <2>2. \A w \in Workers : /\ task'[w].op = task[w].op
                             /\ task'[w].token = task[w].token
                             /\ task'[w].stmt = task[w].stmt
      BY <1>1, <1>2, <1>3
    <2> QED
      BY <1>4, <2>1, <2>2, WorkersAdvance DEF IndInv
  <1>8. LoopInv'
    <2>1. live' = Effect(task[t].stmt, task[t].token)
      BY DEF Execute
    <2>2. live \in Tables /\ task[t].stmt \in Statements /\ task[t].token \in Tokens
      BY DEF TypeOK
    <2>3. CASE t # Loop
      <3>1. task[t].stmt \in {"touch", "none"}
        BY <2>3 DEF IndInv, WorkerInv, Execute, Threads
      <3>2. live'.token = live.token
        BY <2>1, <2>2, <3>1, EffectOnTokens
      <3> QED
        BY <1>1, <1>2, <1>4, <2>3, <3>2, LoopUntouched DEF IndInv
    <2>4. CASE t = Loop
      <3> DEFINE k == task[Loop].token
      <3>1. /\ task[Loop].step = "execute" /\ live.token = saved.token
            /\ task[Loop].op \in Ops /\ task[Loop].op # "verify"
        BY <2>4 DEF IndInv, LoopInv, Execute, TypeOK
      <3>2. CASE task[Loop].stmt = "upsert"
        <4>1. live'.token = live.token
          BY <2>1, <2>2, <2>4, <3>2, EffectOnTokens
        <4> QED
          BY <1>3, <1>4, <2>4, <3>1, <3>2, <4>1 DEF IndInv, LoopInv, Issued, Ops
      <3>3. CASE task[Loop].stmt = "insert"
        <4>1. live'.token = [live.token EXCEPT ![k] = "active"]
          BY <2>1, <2>2, <2>4, <3>3, EffectOnTokens
        <4> QED
          BY <1>3, <1>4, <2>4, <3>1, <3>3, <4>1 DEF IndInv, LoopInv, Issued, Ops
      <3>4. CASE task[Loop].stmt = "revokeOthers"
        <4>1. live'.token = [o \in Tokens |->
                 IF o # k /\ live.token[o] = "active" THEN "revoked" ELSE live.token[o]]
          BY <2>1, <2>2, <2>4, <3>4, EffectOnTokens
        <4> QED
          BY <1>3, <1>4, <2>4, <3>1, <3>4, <4>1 DEF IndInv, LoopInv, Ops
      <3>5. CASE task[Loop].stmt = "revoke"
        <4>1. /\ live'.token \in {live.token, [live.token EXCEPT ![k] = "revoked"]}
              /\ live'.token # live.token => live'.token[k] = "revoked"
          BY <2>1, <2>2, <2>4, <3>5, EffectOnTokens
        <4> QED
          BY <1>3, <1>4, <2>4, <3>1, <3>5, <4>1 DEF IndInv, LoopInv, Ops
      <3>6. CASE task[Loop].stmt = "write"
        <4>1. live'.token = live.token
          BY <2>1, <2>2, <2>4, <3>6, EffectOnTokens
        <4> QED
          BY <1>3, <1>4, <2>4, <3>1, <3>6, <4>1 DEF IndInv, LoopInv, Ops
      <3> QED
        BY <3>1, <3>2, <3>3, <3>4, <3>5, <3>6 DEF IndInv, LoopInv, Ops
    <2> QED
      BY <2>3, <2>4
  <1> QED
    BY <1>5, <1>6, <1>7, <1>8 DEF IndInv

\* What the loop commits keeps every row a token ever had, brings none back
\* and, unless it is a revocation, leaves an active token.
LEMMA CommitOnTokens ==
    ASSUME TypeOK, IndInv, NEW t \in Threads, Commit(t)
    PROVE  /\ Issued(saved) \subseteq Issued(saved')
           /\ Issued(saved) \ Active(saved) \subseteq Issued(saved') \ Active(saved')
           /\ Active(saved) # {} /\ Active(saved') = {} => t = Loop /\ task[Loop].op = "revoke"
  <1>1. Loop \in Threads /\ saved' = live /\ task[t].step = "commit"
    BY DEF Threads, Commit
  <1>2. CASE t # Loop
    <2>1. task[Loop].step # "commit"
      BY <1>1, <1>2 DEF IndInv, TransactionExclusive, InTransaction
    <2>2. live.token = saved.token
      BY <2>1 DEF IndInv, LoopInv
    <2> QED
      BY <1>1, <2>2 DEF Issued, Active
  <1>3. CASE t = Loop
    <2> DEFINE k == task[Loop].token
    <2>0. k \in Tokens /\ saved.token \in [Tokens -> {"absent", "active", "revoked"}]
      BY <1>1 DEF TypeOK, Tables
    <2>1. /\ task[Loop].op \in Ops /\ task[Loop].op # "verify"
          /\ task[Loop].stmt \in {"upsert", "insert", "revokeOthers", "revoke", "write"}
      BY <1>1, <1>3 DEF IndInv, LoopInv, TypeOK, Ops
    <2>2. CASE task[Loop].stmt \in {"upsert", "write"}
      <3>1. live.token = saved.token
        BY <1>1, <1>3, <2>2 DEF IndInv, LoopInv
      <3> QED
        BY <1>1, <3>1 DEF Issued, Active
    <2>3. CASE task[Loop].stmt = "insert"
      <3>1. k \notin Issued(saved) /\ live.token = [saved.token EXCEPT ![k] = "active"]
        BY <1>1, <1>3, <2>3 DEF IndInv, LoopInv
      <3> QED
        BY <1>1, <2>0, <3>1 DEF Issued, Active
    <2>4. CASE task[Loop].stmt = "revokeOthers"
      <3>1. /\ saved.token[k] = "active"
            /\ live.token = [o \in Tokens |->
                  IF o # k /\ saved.token[o] = "active" THEN "revoked" ELSE saved.token[o]]
        BY <1>1, <1>3, <2>4 DEF IndInv, LoopInv
      <3> QED
        BY <1>1, <2>0, <3>1 DEF Issued, Active
    <2>5. CASE task[Loop].stmt = "revoke"
      <3>1. live.token \in {saved.token, [saved.token EXCEPT ![k] = "revoked"]}
        BY <1>1, <1>3, <2>5 DEF IndInv, LoopInv
      <3>2. task[Loop].op = "revoke"
        BY <1>1, <1>3, <2>1, <2>5 DEF IndInv, LoopInv, Ops
      <3>3. k \in Issued(saved) => live.token[k] # "absent"
        BY <2>0, <3>1 DEF Issued
      <3> QED
        BY <1>1, <1>3, <2>0, <3>1, <3>2, <3>3 DEF Issued, Active
    <2> QED
      BY <2>1, <2>2, <2>3, <2>4, <2>5
  <1> QED
    BY <1>2, <1>3

LEMMA CommitStep ==
    ASSUME TypeOK, IndInv, NEW t \in Threads, Commit(t)
    PROVE  IndInv'
  <1>1. Loop \in Threads /\ Workers \subseteq Threads /\ Loop \notin Workers
    BY ThreadsAssumption DEF Threads
  <1> DEFINE next == Following(task[t].op, task[t].stmt)
  <1>2. /\ task'[t] = [task[t] EXCEPT !.stmt = next,
                                      !.step = IF next = "none" THEN "return" ELSE "begin"]
        /\ \A u \in Threads \ {t} : task'[u] = task[u]
    BY DEF Commit, TypeOK
  <1>3. /\ task'[t].step = (IF next = "none" THEN "return" ELSE "begin")
        /\ task'[t].op = task[t].op /\ task'[t].token = task[t].token
        /\ task'[t].stmt = next /\ task'[t].changed = task[t].changed
    BY <1>2 DEF TypeOK
  <1>4. TransactionExclusive'
    <2>1. ~InTransaction(t)'
      BY <1>3 DEF InTransaction
    <2>2. \A u \in Threads \ {t} : ~InTransaction(u)
      BY DEF IndInv, TransactionExclusive, Commit, InTransaction
    <2>3. \A u \in Threads \ {t} : ~InTransaction(u)'
      BY <1>2, <2>2 DEF InTransaction
    <2> QED
      BY <2>1, <2>3 DEF TransactionExclusive, Commit
  <1>5. RepliesAreDurable'
    BY CommitOnTokens DEF IndInv, RepliesAreDurable, Commit
  <1>6. WorkerInv'
    <2>1. CASE t = Loop
      BY <1>1, <1>2, <2>1, WorkersAdvance DEF IndInv, Commit
    <2>2. CASE t \in Workers
      <3>1. task[t].stmt \in {"touch", "none"} /\ task[t].op = "verify"
        BY <2>2 DEF IndInv, WorkerInv, Commit
      <3>2. next = "none"
        BY <3>1 DEF Following
      <3> QED
        BY <1>1, <1>2, <1>3, <2>2, <3>2, WorkersAdvance DEF IndInv, Commit
    <2> QED
      BY <2>1, <2>2 DEF Threads
  <1>7. LoopInv'
    <2>1. CASE t # Loop
      <3>1. task[Loop].step # "commit"
        BY <1>1, <2>1 DEF IndInv, TransactionExclusive, Commit, InTransaction
      <3>2. live.token = saved.token
        BY <3>1 DEF IndInv, LoopInv
      <3> QED
        BY <1>1, <1>2, <2>1, <3>2, LoopUntouched DEF IndInv, Commit
    <2>2. CASE t = Loop
      <3> DEFINE k == task[Loop].token
      <3>0. /\ live' = live /\ saved' = live /\ task[Loop].step = "commit"
            /\ k \in Tokens
            /\ saved.token \in [Tokens -> {"absent", "active", "revoked"}]
        BY <1>1, <2>2 DEF Commit, TypeOK, Tables
      <3>1. /\ task[Loop].op \in Ops /\ task[Loop].op # "verify"
        BY <1>1, <2>2, <3>0 DEF IndInv, LoopInv, TypeOK
      <3>2. CASE task[Loop].stmt = "upsert"
        <4>1. next = "insert" /\ task[Loop].op \in {"enroll", "rotate"}
          BY <2>2, <3>0, <3>1, <3>2 DEF IndInv, LoopInv, Following, Ops
        <4> QED
          BY <1>3, <2>2, <3>0, <3>2, <4>1 DEF IndInv, LoopInv, Issued
      <3>3. CASE task[Loop].stmt = "insert"
        <4>1. /\ task[Loop].op \in {"enroll", "rotate"}
              /\ next = IF task[Loop].op = "rotate" THEN "revokeOthers" ELSE "none"
          BY <2>2, <3>0, <3>1, <3>3 DEF IndInv, LoopInv, Following, Ops
        <4>2. live.token[k] = "active"
          BY <3>0, <3>3 DEF IndInv, LoopInv
        <4> QED
          BY <1>3, <2>2, <3>0, <3>3, <4>1, <4>2 DEF IndInv, LoopInv
      <3>4. CASE task[Loop].stmt = "revokeOthers"
        <4>1. next = "none" /\ task[Loop].op = "rotate"
          BY <2>2, <3>0, <3>1, <3>4 DEF IndInv, LoopInv, Following, Ops
        <4>2. /\ saved.token[k] = "active"
              /\ live.token = [o \in Tokens |->
                    IF o # k /\ saved.token[o] = "active" THEN "revoked" ELSE saved.token[o]]
          BY <3>0, <3>4 DEF IndInv, LoopInv
        <4>3. Active(live) = {k}
          BY <3>0, <4>2 DEF Active
        <4>4. live.token[k] = "active"
          BY <3>0, <4>2
        <4>5. Active(saved') = {k} /\ saved'.token[k] = "active"
          BY <3>0, <4>3, <4>4
        <4> QED
          BY <1>3, <2>2, <3>0, <4>1, <4>5 DEF LoopInv
      <3>5. CASE task[Loop].stmt \in {"revoke", "write"}
        <4>1. next = "none" /\ task[Loop].op = task[Loop].stmt
          BY <2>2, <3>0, <3>1, <3>5 DEF IndInv, LoopInv, Following, Ops
        <4>2. task[Loop].op = "revoke" /\ task[Loop].changed => live.token[k] = "revoked"
          BY <3>0, <3>5, <4>1 DEF IndInv, LoopInv
        <4> QED
          BY <1>3, <2>2, <3>0, <3>5, <4>1, <4>2 DEF LoopInv
      <3> QED
        BY <3>0, <3>1, <3>2, <3>3, <3>4, <3>5 DEF IndInv, LoopInv, Ops
    <2> QED
      BY <2>1, <2>2
  <1> QED
    BY <1>4, <1>5, <1>6, <1>7 DEF IndInv

-----------------------------------------------------------------------------
(* The theorems *)

\* Every step preserves the inductive invariant.
LEMMA StepPreserves == TypeOK /\ IndInv /\ [Next]_vars => IndInv'
  <1> SUFFICES ASSUME TypeOK, IndInv, [Next]_vars PROVE IndInv'
    OBVIOUS
  <1>1. CASE UNCHANGED vars
    BY <1>1 DEF vars, IndInv, TransactionExclusive, RepliesAreDurable, WorkerInv, LoopInv,
                InTransaction, Issued, Active
  <1>2. CASE Next
    BY <1>2, RequestStep, CheckStep, ReturnStep, BeginStep, BeginFailsStep, ExecuteStep,
       CommitStep, RolledBack, Crashed
       DEF Next, Run
  <1> QED
    BY <1>1, <1>2

\* The strengthened invariant holds in every reachable state.
THEOREM Invariance == Spec => []IndInv
  <1>1. Init => IndInv
    BY DEF Init, IndInv, TransactionExclusive, RepliesAreDurable, WorkerInv, LoopInv,
           InTransaction, Issued, Active, Idle, Threads
  <1>2. IndInv /\ TypeOK /\ [Next]_vars => IndInv'
    BY StepPreserves
  <1> QED
    BY <1>1, <1>2, TypeCorrect, PTL DEF Spec

\* No thread ever ends, undoes or saves another thread's transaction.
THEOREM Exclusion == Spec => []TransactionExclusive
  <1>1. IndInv => TransactionExclusive
    BY DEF IndInv
  <1> QED
    BY <1>1, Invariance, PTL

\* What an admin was told about tokens stays true in the committed tables.
THEOREM Durability == Spec => []RepliesAreDurable
  <1>1. IndInv => RepliesAreDurable
    BY DEF IndInv
  <1> QED
    BY <1>1, Invariance, PTL

\* Verification's dirty reads never match a token that is uncommitted or
\* revoked.
THEOREM Matches == Spec => MatchesAreCommitted
  <1>1. TypeOK /\ IndInv /\ [Next]_vars =>
           [\A w \in Workers :
               task[w].step = "tokens" /\ task'[w].step = "begin"
                  => task[w].token \in Active(saved)]_vars
    <2> SUFFICES ASSUME TypeOK, IndInv, [Next]_vars, NEW w \in Workers,
                        task[w].step = "tokens", task'[w].step = "begin"
                 PROVE  task[w].token \in Active(saved)
      OBVIOUS
    <2>1. task[w].token \in Active(live)
      <3>0. w \in Threads /\ w # Loop
        BY ThreadsAssumption DEF Threads
      <3>1. ASSUME NEW op \in {"enroll", "rotate"}, Issue(op) PROVE FALSE
        BY <3>0, <3>1 DEF Issue, TypeOK
      <3>2. CASE Revoke \/ Write
        BY <3>0, <3>2 DEF Revoke, Write, TypeOK
      <3>3. ASSUME NEW v \in Workers, Verify(v) PROVE FALSE
        BY <3>0, <3>3 DEF Verify, TypeOK, Threads, Call
      <3>4. ASSUME NEW v \in Workers, Check(v) PROVE task[w].token \in Active(live)
        <4>1. CASE v = w
          BY <3>0, <3>4, <4>1, FinishEnds DEF Check, ReadDevice, ReadTokens
        <4>2. CASE v # w
          BY <3>0, <3>4, <4>2, FinishEnds DEF Check, ReadDevice, ReadTokens, TypeOK, Threads
        <4> QED
          BY <4>1, <4>2
      <3>5. ASSUME NEW t \in Threads, Run(t) \/ StatementFails(t) PROVE FALSE
        <4>1. t # w
          BY <3>5 DEF Run, Begin, BeginFails, Execute, Commit, Return, StatementFails,
                      InTransaction
        <4>2. task'[w] = task[w]
          BY <3>0, <3>5, <4>1, FinishEnds
             DEF Run, Begin, BeginFails, Execute, Commit, Return, StatementFails, TypeOK
        <4> QED
          BY <4>2
      <3>6. CASE Crash
        BY <3>0, <3>6 DEF Crash, Idle
      <3>7. CASE UNCHANGED vars
        BY <3>7 DEF vars
      <3> QED
        BY <3>1, <3>2, <3>3, <3>4, <3>5, <3>6, <3>7 DEF Next
    <2>2. task[w].token \in Issued(saved)
      BY DEF IndInv, WorkerInv, RepliesAreDurable
    <2>3. CASE task[Loop].step # "commit"
      BY <2>1, <2>3 DEF IndInv, LoopInv, Active
    <2>4. CASE task[Loop].step = "commit"
      <3>1. Loop \in Threads
        BY DEF Threads
      <3>2. /\ task[Loop].stmt \in {"upsert", "insert", "revokeOthers", "revoke", "write"}
            /\ saved.token \in [Tokens -> {"absent", "active", "revoked"}]
        BY <2>4, <3>1 DEF IndInv, LoopInv, TypeOK, Ops, Tables
      <3>3. task[w].token # task[Loop].token \/ task[Loop].stmt # "insert"
        BY <2>2, <2>4 DEF IndInv, LoopInv
      <3> QED
        BY <2>1, <2>2, <2>4, <3>1, <3>2, <3>3 DEF IndInv, LoopInv, Active, Issued, TypeOK
    <2> QED
      BY <2>3, <2>4
  <1> QED
    BY <1>1, TypeCorrect, Invariance, PTL DEF Spec, MatchesAreCommitted

\* Only a revocation can take the last active token away.
THEOREM Access == Spec => RotationKeepsAccess
  <1>1. TypeOK /\ IndInv /\ [Next]_vars =>
           [Active(saved) # {} /\ Active(saved') = {}
               => task[Loop].op = "revoke" /\ task[Loop].step = "commit"]_vars
    <2> SUFFICES ASSUME TypeOK, IndInv, [Next]_vars,
                        Active(saved) # {}, Active(saved') = {}
                 PROVE  task[Loop].op = "revoke" /\ task[Loop].step = "commit"
      OBVIOUS
    <2>1. ASSUME NEW t \in Threads, Commit(t)
          PROVE  task[Loop].op = "revoke" /\ task[Loop].step = "commit"
      BY <2>1, CommitOnTokens DEF Commit
    <2>2. ASSUME NEW t \in Threads, Execute(t) PROVE FALSE
      <3>1. inTxn
        BY <2>2 DEF IndInv, TransactionExclusive, Execute, InTransaction
      <3> QED
        BY <2>2, <3>1 DEF Execute
    <2>3. (\A t \in Threads : ~Commit(t) /\ ~Execute(t)) => saved' = saved
      BY DEF Next, Run, Issue, Revoke, Write, Verify, Check, ReadDevice, ReadTokens, Begin,
             BeginFails, Return, StatementFails, Crash, vars
    <2> QED
      BY <2>1, <2>2, <2>3
  <1> QED
    BY <1>1, TypeCorrect, Invariance, PTL DEF Spec, RotationKeepsAccess

-----------------------------------------------------------------------------
(* RateLimiter.  The lists hold requests that were answered, so what is      *)
(* refused was asked for; and as long as no two calls have overlapped, they  *)
(* hold all of those that still count.                                       *)

Answered == admitted \cup refused

\* Every call has a request of its own, not yet answered.
CallsInv ==
    /\ \A w \in Busy : call[w].request \in (1..asked) \ Answered
    /\ \A w, v \in Busy : call[w].request = call[v].request => w = v

\* The lists hold answered requests, a call's those later than its cutoff.
ListsInv ==
    /\ hits \subseteq Answered
    /\ \A w \in Busy : call[w].hits \subseteq Since(Answered, moment[call[w].request])

\* Without an overlap there is one call at a time, and nothing is forgotten.
UnracedInv ==
    raced \/ /\ \A w, v \in Busy : w = v
             /\ Busy = {} => Since(Answered, now) \subseteq hits
             /\ \A w \in Busy :
                   Since(Answered, moment[call[w].request])
                      \subseteq (IF call[w].step = "read" THEN hits ELSE call[w].hits)

MomentsInv == \A r \in 1..asked : moment[r] <= now

LimiterInv ==
    /\ LimiterTypeOK
    /\ CallsInv
    /\ ListsInv
    /\ MomentsInv
    /\ UnracedInv
    /\ UnracedWithinLimit

LEMMA RequestsFinite ==
  ASSUME NEW S, S \subseteq Requests
  PROVE  IsFiniteSet(S) /\ Cardinality(S) \in Nat
  <1>1. IsFiniteSet(Requests)
    BY FS_Interval, LimiterAssumption DEF Requests
  <1> QED
    BY <1>1, FS_Subset, FS_CardinalityType

LEMMA RequestNumbers ==
  ASSUME LimiterTypeOK
  PROVE  /\ 1..asked \subseteq Requests
         /\ \A r \in 1..asked : moment[r] \in Times /\ moment[r] \in Int
         /\ now \in Int /\ asked \in Nat
  BY LimiterAssumption DEF LimiterTypeOK, Requests, Times

LEMMA LimiterInitInv == LimiterInit => LimiterInv
  <1> SUFFICES ASSUME LimiterInit PROVE LimiterInv
    OBVIOUS
  <1> USE LimiterAssumption DEF LimiterInit
  <1>1. Busy = {}
    BY DEF Busy, NoCall
  <1>2. LimiterTypeOK
    <2>1. NoCall \in [step : {"idle", "read", "write"}, request : 0..asked,
                      hits : SUBSET (1..asked)]
      BY DEF NoCall
    <2>2. 0 \in Times /\ 0 \in 0..MaxRequests
      BY DEF Times
    <2> QED
      BY <2>1, <2>2 DEF LimiterTypeOK
  <1>3. CallsInv /\ ListsInv /\ MomentsInv /\ UnracedInv
    BY <1>1 DEF CallsInv, ListsInv, MomentsInv, UnracedInv, Answered, Since
  <1>4. UnracedWithinLimit
    <2>1. \A t \in Times : InWindow(admitted, t) = {}
      BY DEF InWindow
    <2> QED
      BY <2>1, FS_EmptySet DEF UnracedWithinLimit
  <1> QED
    BY <1>2, <1>3, <1>4 DEF LimiterInv

LEMMA TickInv == LimiterInv /\ Tick => LimiterInv'
  <1> SUFFICES ASSUME LimiterInv, Tick PROVE LimiterInv'
    OBVIOUS
  <1> USE DEF Tick
  <1>1. /\ LimiterTypeOK /\ CallsInv /\ ListsInv /\ MomentsInv
        /\ UnracedInv /\ UnracedWithinLimit
    BY DEF LimiterInv
  <1>2. LimiterTypeOK'
    BY <1>1, LimiterAssumption DEF LimiterTypeOK, Times
  <1>3. Busy' = Busy /\ Answered' = Answered
    BY DEF Busy, Answered
  <1>4. CallsInv' /\ ListsInv'
    BY <1>1, <1>3 DEF CallsInv, ListsInv, Since
  <1>5. MomentsInv'
    BY <1>1, RequestNumbers DEF MomentsInv
  <1>6. Since(Answered, now)' \subseteq Since(Answered, now)
    <2>1. Answered \subseteq 1..asked
      BY <1>1 DEF LimiterTypeOK, Answered
    <2>2. \A r \in Answered : moment[r] > now + 1 - Window => moment[r] > now - Window
      BY <2>1, <1>1, RequestNumbers, LimiterAssumption
    <2>3. ASSUME NEW r \in Since(Answered, now)'
          PROVE  r \in Answered /\ moment[r] > now + 1 - Window
      <3>1. r \in Answered' /\ moment'[r] > now' - Window
        BY DEF Since
      <3>2. r \in Answered /\ moment[r] \in Int /\ now \in Int /\ now' = now + 1
        BY <3>1, <2>1, <1>1, <1>3, RequestNumbers
      <3> QED
        BY <3>1, <3>2, LimiterAssumption
    <2> QED
      BY <2>2, <2>3 DEF Since
  <1>7. UnracedInv'
    BY <1>1, <1>3, <1>6 DEF UnracedInv, Since
  <1>8. UnracedWithinLimit'
    BY <1>1 DEF UnracedWithinLimit, InWindow
  <1> QED
    BY <1>2, <1>4, <1>5, <1>7, <1>8 DEF LimiterInv

LEMMA ArrivalInv ==
  ASSUME LimiterInv, NEW w \in Callers, Request(w)
  PROVE  LimiterInv'
  <1> DEFINE new == asked + 1
  <1>1. /\ LimiterTypeOK /\ CallsInv /\ ListsInv /\ MomentsInv
        /\ UnracedInv /\ UnracedWithinLimit
    BY DEF LimiterInv
  <1>2. /\ new \in Requests /\ new \in Nat /\ asked \in Nat
        /\ 1..asked \subseteq 1..new /\ 1..asked \subseteq Requests
        /\ new \notin 1..asked /\ asked' = new /\ 1..new = (1..asked) \cup {new}
    BY <1>1, LimiterAssumption DEF Request, LimiterTypeOK, Requests
  <1>3. /\ moment' \in [Requests -> Times]
        /\ moment'[new] = now
        /\ \A r \in 1..asked : moment'[r] = moment[r]
    BY <1>1, <1>2 DEF Request, LimiterTypeOK
  <1>4. /\ call' = [call EXCEPT ![w] = [step |-> "read", request |-> new, hits |-> {}]]
        /\ call \in [Callers -> [step : {"idle", "read", "write"},
                                 request : 0..asked, hits : SUBSET (1..asked)]]
        /\ call[w].step = "idle"
    BY <1>1 DEF Request, LimiterTypeOK
  <1>5. /\ call'[w] = [step |-> "read", request |-> new, hits |-> {}]
        /\ \A v \in Callers \ {w} : call'[v] = call[v]
    BY <1>4
  <1>6. LimiterTypeOK'
    <2>1. 0..asked \subseteq 0..new
      BY <1>2
    <2>2. call' \in [Callers -> [step : {"idle", "read", "write"},
                                 request : 0..new, hits : SUBSET (1..new)]]
      <3>1. [step |-> "read", request |-> new, hits |-> {}]
               \in [step : {"idle", "read", "write"}, request : 0..new, hits : SUBSET (1..new)]
        BY <1>2
      <3>2. \A v \in Callers : call[v] \in [step : {"idle", "read", "write"},
                                            request : 0..new, hits : SUBSET (1..new)]
        BY <2>1, <1>2, <1>4
      <3> HIDE DEF new
      <3> QED
        BY <3>1, <3>2, <1>4
    <2>3. new \in 0..MaxRequests
      BY <1>2, LimiterAssumption DEF Requests
    <2> HIDE DEF new
    <2>4. hits' \subseteq 1..new /\ admitted' \subseteq 1..new /\ refused' \subseteq 1..new
      BY <1>1, <1>2 DEF Request, LimiterTypeOK
    <2>5. now' \in Times /\ admitted' \cap refused' = {} /\ raced' \in BOOLEAN
      BY <1>1 DEF Request, LimiterTypeOK
    <2> QED
      BY <1>2, <1>3, <2>2, <2>3, <2>4, <2>5 DEF LimiterTypeOK
  <1>7. Busy' = Busy \cup {w} /\ w \notin Busy
    BY <1>4, <1>5 DEF Busy
  <1>8. Answered' = Answered /\ Answered \subseteq 1..asked /\ hits' = hits /\ now' = now
    BY <1>1 DEF Answered, Request, LimiterTypeOK
  <1>9. \A v \in Busy : /\ call'[v] = call[v] /\ call[v].request \in 1..asked
                        /\ moment'[call[v].request] = moment[call[v].request]
    BY <1>1, <1>3, <1>5, <1>7 DEF CallsInv, Busy
  <1>11. CallsInv'
    <2>1. \A v \in Busy' : call'[v].request \in (1..new) \ Answered
      BY <1>1, <1>2, <1>5, <1>7, <1>8, <1>9 DEF CallsInv
    <2>2. \A u, v \in Busy' : call'[u].request = call'[v].request => u = v
      BY <1>1, <1>2, <1>5, <1>7, <1>9 DEF CallsInv
    <2> HIDE DEF new
    <2> QED
      BY <1>2, <1>8, <2>1, <2>2 DEF CallsInv
  <1>12. ListsInv'
    <2>1. hits' \subseteq Answered'
      BY <1>1, <1>8 DEF ListsInv
    <2>2. ASSUME NEW v \in Busy'
          PROVE  call'[v].hits \subseteq Since(Answered, moment[call[v].request])'
      <3>1. CASE v = w
        BY <3>1, <1>5
      <3>2. CASE v \in Busy
        BY <3>2, <1>1, <1>3, <1>8, <1>9 DEF ListsInv, Since
      <3> QED
        BY <3>1, <3>2, <1>7
    <2> QED
      BY <2>1, <2>2 DEF ListsInv
  <1>13. MomentsInv'
    <2>1. \A r \in 1..new : moment'[r] <= now
      BY <1>1, <1>2, <1>3, RequestNumbers DEF MomentsInv
    <2> HIDE DEF new
    <2> QED
      BY <2>1, <1>2, <1>8 DEF MomentsInv
  <1>14. UnracedInv'
    <2> SUFFICES ASSUME ~raced' PROVE UnracedInv'
      BY DEF UnracedInv
    <2>1. ~raced /\ Busy = {}
      BY DEF Request
    <2>2. Busy' = {w}
      BY <2>1, <1>7
    <2>3. Since(Answered, now) \subseteq hits
      BY <2>1, <1>1 DEF UnracedInv
    <2>4. Since(Answered, moment[call[w].request])' \subseteq hits'
      <3>1. moment'[call'[w].request] = now
        BY <1>3, <1>5
      <3>2. Since(Answered, moment[call[w].request])'
               = {r \in Answered : moment'[r] > now - Window}
        BY <3>1, <1>8 DEF Since
      <3>3. \A r \in Answered : moment'[r] = moment[r]
        BY <1>3, <1>8
      <3> QED
        BY <3>2, <3>3, <2>3, <1>8 DEF Since
    <2>5. call'[w].step = "read"
      BY <1>5
    <2> QED
      BY <2>2, <2>4, <2>5 DEF UnracedInv
  <1>15. UnracedWithinLimit'
    <2> SUFFICES ASSUME ~raced' PROVE UnracedWithinLimit'
      BY DEF UnracedWithinLimit
    <2>1. ~raced /\ admitted' = admitted /\ admitted \subseteq 1..asked
      BY <1>1 DEF Request, LimiterTypeOK
    <2>2. ASSUME NEW t \in Times PROVE InWindow(admitted, t)' = InWindow(admitted, t)
      <3>1. \A r \in admitted : moment'[r] = moment[r]
        BY <2>1, <1>3
      <3> QED
        BY <2>1, <3>1 DEF InWindow
    <2> QED
      BY <2>1, <2>2, <1>1 DEF UnracedWithinLimit
  <1> QED
    BY <1>6, <1>11, <1>12, <1>13, <1>14, <1>15 DEF LimiterInv

LEMMA ReadInv ==
  ASSUME LimiterInv, NEW w \in Callers, ReadHits(w)
  PROVE  LimiterInv'
  <1> DEFINE list == Since(hits, moment[call[w].request])
  <1>1. /\ LimiterTypeOK /\ CallsInv /\ ListsInv /\ MomentsInv
        /\ UnracedInv /\ UnracedWithinLimit
    BY DEF LimiterInv
  <1>2. /\ call' = [call EXCEPT ![w].step = "write", ![w].hits = list]
        /\ call[w].step = "read"
        /\ UNCHANGED <<now, asked, moment, hits, admitted, refused, raced>>
    BY DEF ReadHits
  <1>3. call \in [Callers -> [step : {"idle", "read", "write"},
                              request : 0..asked, hits : SUBSET (1..asked)]]
    BY <1>1 DEF LimiterTypeOK
  <1>4. list \subseteq hits /\ list \in SUBSET (1..asked)
    BY <1>1 DEF Since, LimiterTypeOK
  <1> HIDE DEF list
  <1>5. /\ call'[w].step = "write" /\ call'[w].hits = list
        /\ call'[w].request = call[w].request
        /\ \A v \in Callers \ {w} : call'[v] = call[v]
        /\ call' \in [Callers -> [step : {"idle", "read", "write"},
                                  request : 0..asked, hits : SUBSET (1..asked)]]
    BY <1>2, <1>3, <1>4
  <1>6. /\ Busy' = Busy /\ w \in Busy /\ Answered' = Answered
        /\ \A v \in Callers : call'[v].request = call[v].request
    BY <1>2, <1>5 DEF Busy, Answered
  <1>7. LimiterTypeOK'
    BY <1>1, <1>2, <1>5 DEF LimiterTypeOK
  <1>8. CallsInv'
    BY <1>1, <1>2, <1>6 DEF CallsInv, Busy
  <1>9. ASSUME NEW v \in Busy
        PROVE  Since(Answered, moment[call[v].request])'
                   = Since(Answered, moment[call[v].request])
    <2>1. call'[v].request = call[v].request
      BY <1>6 DEF Busy
    <2> QED
      BY <2>1, <1>2, <1>6 DEF Since
  <1>10. ListsInv'
    <2>1. hits' \subseteq Answered'
      BY <1>1, <1>2, <1>6 DEF ListsInv
    <2>2. ASSUME NEW v \in Busy
          PROVE  call'[v].hits \subseteq Since(Answered, moment[call[v].request])
      <3>1. CASE v = w
        <4>1. list \subseteq Since(Answered, moment[call[w].request])
          BY <1>1 DEF ListsInv, list, Since
        <4> QED
          BY <3>1, <4>1, <1>5
      <3>2. CASE v # w
        BY <3>2, <1>1, <1>5 DEF ListsInv, Busy
      <3> QED
        BY <3>1, <3>2
    <2> QED
      BY <2>1, <2>2, <1>6, <1>9 DEF ListsInv
  <1>11. MomentsInv'
    BY <1>1, <1>2 DEF MomentsInv
  <1>12. UnracedInv'
    <2> SUFFICES ASSUME ~raced PROVE UnracedInv'
      BY <1>2 DEF UnracedInv
    <2>1. /\ \A u, v \in Busy : u = v
          /\ Since(Answered, moment[call[w].request]) \subseteq hits
      BY <1>1, <1>2, <1>6 DEF UnracedInv
    <2>2. Since(Answered, moment[call[w].request]) \subseteq list
      BY <2>1 DEF list, Since
    <2>3. ASSUME NEW v \in Busy
          PROVE  Since(Answered, moment[call[v].request])'
                    \subseteq (IF call'[v].step = "read" THEN hits' ELSE call'[v].hits)
      <3>1. v = w
        BY <2>1, <1>6
      <3>2. Since(Answered, moment[call[v].request])' \subseteq call'[v].hits
        BY <3>1, <2>2, <1>5, <1>9
      <3>3. call'[v].step # "read"
        BY <3>1, <1>5
      <3> QED
        BY <3>2, <3>3
    <2> QED
      BY <2>1, <2>3, <1>6 DEF UnracedInv
  <1>13. UnracedWithinLimit'
    BY <1>1, <1>2 DEF UnracedWithinLimit, InWindow
  <1> QED
    BY <1>7, <1>8, <1>10, <1>11, <1>12, <1>13 DEF LimiterInv

\* A window that holds the request holds besides it only requests of its list.
LEMMA AdmittedWithinLimit ==
  ASSUME LimiterTypeOK, ListsInv, NEW w \in Callers, NEW t \in Times,
         Cardinality(InWindow(admitted, t)) <= Limit,
         Cardinality(call[w].hits) < Limit,
         call[w].hits \subseteq 1..asked,
         call[w].request \in 1..asked,
         Since(Answered, moment[call[w].request]) \subseteq call[w].hits
  PROVE  Cardinality(InWindow(admitted \cup {call[w].request}, t)) <= Limit
  <1> DEFINE q == call[w].request
             list == call[w].hits
             window == InWindow(admitted \cup {q}, t)
  <1>1. /\ moment[q] \in Int /\ t \in Int /\ Limit \in Nat /\ Window \in Nat
        /\ \A r \in admitted : moment[r] \in Int
    BY RequestNumbers, LimiterAssumption DEF LimiterTypeOK, Times
  <1>2. list \subseteq Requests /\ window \subseteq Requests /\ list \cup {q} \subseteq Requests
    BY RequestNumbers DEF InWindow, LimiterTypeOK
  <1>3. /\ IsFiniteSet(list) /\ Cardinality(list) \in Nat
        /\ IsFiniteSet(list \cup {q}) /\ Cardinality(list \cup {q}) \in Nat
        /\ Cardinality(window) \in Nat
    BY <1>2, RequestsFinite
  <1>4. CASE moment[q] <= t /\ moment[q] > t - Window
    <2>1. window \subseteq list \cup {q}
      <3> SUFFICES ASSUME NEW r \in window, r # q PROVE r \in list
        OBVIOUS
      <3>1. r \in admitted /\ moment[r] > t - Window
        BY DEF InWindow
      <3>2. moment[r] > moment[q] - Window
        BY <3>1, <1>1, <1>4
      <3> QED
        BY <3>1, <3>2 DEF Since, Answered
    <2> HIDE DEF q, list, window
    <2>2. Cardinality(window) <= Cardinality(list \cup {q})
      BY <2>1, <1>3, FS_Subset
    <2>3. Cardinality(list \cup {q}) <= Cardinality(list) + 1
      BY <1>3, FS_AddElement
    <2>4. Cardinality(list) < Limit
      BY DEF list
    <2>5. Cardinality(window) <= Limit
      BY <2>2, <2>3, <2>4, <1>1, <1>3
    <2> QED
      BY <2>5 DEF window, q
  <1>5. CASE ~(moment[q] <= t /\ moment[q] > t - Window)
    <2>1. window = InWindow(admitted, t)
      BY <1>5 DEF InWindow
    <2> QED
      BY <2>1
  <1> QED
    BY <1>4, <1>5

LEMMA AnswerInv ==
  ASSUME LimiterInv, NEW w \in Callers, StoreHits(w)
  PROVE  LimiterInv'
  <1> DEFINE q == call[w].request
             list == call[w].hits
  <1>1. /\ LimiterTypeOK /\ CallsInv /\ ListsInv /\ MomentsInv
        /\ UnracedInv /\ UnracedWithinLimit
    BY DEF LimiterInv
  <1>2. /\ hits' = list \cup {q}
        /\ IF Cardinality(list) >= Limit
           THEN refused' = refused \cup {q} /\ admitted' = admitted
           ELSE admitted' = admitted \cup {q} /\ refused' = refused
        /\ call' = [call EXCEPT ![w] = NoCall]
        /\ call[w].step = "write"
        /\ UNCHANGED <<now, asked, moment, raced>>
    BY DEF StoreHits
  <1>3. call \in [Callers -> [step : {"idle", "read", "write"},
                              request : 0..asked, hits : SUBSET (1..asked)]]
    BY <1>1 DEF LimiterTypeOK
  <1>4. /\ w \in Busy /\ q \in (1..asked) \ Answered /\ list \subseteq 1..asked
        /\ list \subseteq Since(Answered, moment[q])
    BY <1>1, <1>2, <1>3 DEF Busy, CallsInv, ListsInv
  <1>5. /\ call'[w] = NoCall /\ \A v \in Callers \ {w} : call'[v] = call[v]
        /\ Busy' = Busy \ {w}
    BY <1>2, <1>3 DEF Busy, NoCall
  <1>6. /\ Answered' = Answered \cup {q} /\ Answered \subseteq 1..asked
        /\ q \notin admitted /\ q \notin refused /\ list \subseteq Answered
    BY <1>1, <1>2, <1>4 DEF Answered, LimiterTypeOK, Since
  <1>7. LimiterTypeOK'
    <2>1. NoCall \in [step : {"idle", "read", "write"}, request : 0..asked,
                      hits : SUBSET (1..asked)]
      <3>1. asked \in Nat
        BY <1>1, RequestNumbers
      <3> QED
        BY <3>1 DEF NoCall
    <2>2. call' \in [Callers -> [step : {"idle", "read", "write"},
                                 request : 0..asked, hits : SUBSET (1..asked)]]
      BY <2>1, <1>2, <1>3
    <2>3. hits' \subseteq 1..asked
      BY <1>2, <1>4
    <2>4. admitted' \subseteq 1..asked /\ refused' \subseteq 1..asked
      BY <1>1, <1>2, <1>4 DEF LimiterTypeOK
    <2>5. admitted' \cap refused' = {}
      BY <1>1, <1>2, <1>6 DEF LimiterTypeOK
    <2> QED
      BY <1>1, <1>2, <2>2, <2>3, <2>4, <2>5 DEF LimiterTypeOK
  <1>8. \A v \in Busy' : v \in Busy /\ v # w /\ call'[v] = call[v] /\ call[v].request # q
    BY <1>1, <1>4, <1>5 DEF CallsInv, Busy
  <1> HIDE DEF q, list
  <1>9. CallsInv'
    BY <1>1, <1>2, <1>6, <1>8 DEF CallsInv
  <1>10. ASSUME NEW m PROVE Since(Answered, m) \subseteq {r \in Answered' : moment'[r] > m - Window}
    BY <1>2, <1>6 DEF Since
  <1>11. ListsInv'
    <2>1. hits' \subseteq Answered'
      BY <1>2, <1>6
    <2>2. ASSUME NEW v \in Busy'
          PROVE  call'[v].hits \subseteq Since(Answered, moment[call[v].request])'
      <3>1. call'[v].hits \subseteq Since(Answered, moment[call[v].request])
        BY <1>1, <1>8 DEF ListsInv
      <3> QED
        BY <3>1, <1>2, <1>6, <1>8 DEF Since
    <2> QED
      BY <2>1, <2>2 DEF ListsInv
  <1>12. MomentsInv'
    BY <1>1, <1>2 DEF MomentsInv
  <1>13. ~raced => Since(Answered, moment[q]) \subseteq list
    BY <1>1, <1>2, <1>4 DEF UnracedInv, q, list
  <1>14. UnracedInv'
    <2> SUFFICES ASSUME ~raced PROVE UnracedInv'
      BY <1>2 DEF UnracedInv
    <2>1. Busy' = {}
      BY <1>1, <1>4, <1>5 DEF UnracedInv
    <2>2. Since(Answered, now)' \subseteq hits'
      <3> SUFFICES ASSUME NEW r \in Since(Answered, now)', r # q PROVE r \in list
        BY <1>2
      <3>1. r \in Answered /\ moment[r] > now - Window
        BY <1>2, <1>6 DEF Since
      <3>2. moment[r] \in Int /\ moment[q] \in Int /\ now \in Int /\ moment[q] <= now
        BY <3>1, <1>1, <1>4, <1>6, RequestNumbers DEF MomentsInv
      <3>3. moment[r] > moment[q] - Window
        BY <3>1, <3>2, LimiterAssumption
      <3> QED
        BY <3>1, <3>3, <1>13 DEF Since
    <2> QED
      BY <2>1, <2>2 DEF UnracedInv
  <1>15. UnracedWithinLimit'
    <2> SUFFICES ASSUME ~raced, NEW t \in Times
                 PROVE  Cardinality(InWindow(admitted, t)') <= Limit
      BY <1>2 DEF UnracedWithinLimit
    <2>1. InWindow(admitted, t)' = InWindow(admitted', t)
      BY <1>2 DEF InWindow
    <2>2. Cardinality(InWindow(admitted, t)) <= Limit
      BY <1>1 DEF UnracedWithinLimit
    <2>3. CASE Cardinality(list) >= Limit
      BY <2>1, <2>2, <2>3, <1>2
    <2>4. CASE ~(Cardinality(list) >= Limit)
      <3>1. Cardinality(list) \in Nat
        BY <1>4, <1>1, RequestNumbers, RequestsFinite
      <3>2. Cardinality(list) < Limit
        BY <2>4, <3>1, LimiterAssumption
      <3>3. Cardinality(InWindow(admitted \cup {q}, t)) <= Limit
        BY <3>2, <2>2, <1>1, <1>4, <1>13, AdmittedWithinLimit DEF q, list
      <3> QED
        BY <2>1, <2>4, <3>3, <1>2
    <2> QED
      BY <2>3, <2>4
  <1> QED
    BY <1>7, <1>9, <1>11, <1>12, <1>14, <1>15 DEF LimiterInv

LEMMA LimiterStutter == LimiterInv /\ UNCHANGED limiterVars => LimiterInv'
  BY DEF LimiterInv, LimiterTypeOK, CallsInv, ListsInv, MomentsInv, UnracedInv,
         UnracedWithinLimit, Busy, Answered, Since, InWindow, limiterVars

\* A refusal has Limit earlier requests on its list, and is one more itself.
LEMMA RefusalStep ==
  ASSUME LimiterInv, NEW w \in Callers, StoreHits(w), NEW r \in refused' \ refused
  PROVE  Cardinality(Since(admitted' \cup refused', moment[r])) > Limit
  <1> DEFINE list == call[w].hits
             since == Since(admitted' \cup refused', moment[r])
  <1>1. LimiterTypeOK /\ CallsInv /\ ListsInv
    BY DEF LimiterInv
  <1>2. /\ r = call[w].request /\ Cardinality(list) >= Limit
        /\ refused' = refused \cup {r} /\ admitted' = admitted
        /\ call[w].step = "write"
    BY DEF StoreHits
  <1>3. /\ r \in 1..asked /\ r \notin Answered
        /\ list \subseteq Since(Answered, moment[r])
    BY <1>1, <1>2 DEF CallsInv, ListsInv, Busy
  <1>4. Answered \subseteq 1..asked /\ admitted' \cup refused' = Answered \cup {r}
    BY <1>1, <1>2 DEF Answered, LimiterTypeOK
  <1>5. moment[r] > moment[r] - Window
    BY <1>1, <1>3, RequestNumbers, LimiterAssumption
  <1>6. list \cup {r} \subseteq since /\ r \notin list
    BY <1>3, <1>4, <1>5 DEF Since
  <1>7. since \subseteq Requests /\ list \subseteq Requests
    <2>1. since \subseteq 1..asked /\ list \subseteq 1..asked
      BY <1>3, <1>4 DEF Since
    <2> QED
      BY <2>1, <1>1, RequestNumbers
  <1>8. /\ IsFiniteSet(since) /\ Cardinality(since) \in Nat
        /\ IsFiniteSet(list) /\ Cardinality(list) \in Nat
    BY <1>7, RequestsFinite
  <1> HIDE DEF since, list
  <1>9. Cardinality(list \cup {r}) = Cardinality(list) + 1
    BY <1>6, <1>8, FS_AddElement
  <1>10. Cardinality(list \cup {r}) <= Cardinality(since)
    BY <1>6, <1>8, FS_Subset
  <1>11. Cardinality(since) > Limit
    BY <1>2, <1>8, <1>9, <1>10, LimiterAssumption
  <1> QED
    BY <1>11 DEF since

\* The limiter's invariant holds in every state.
THEOREM LimiterInvariance == LimiterSpec => []LimiterInv
  <1>1. LimiterInv /\ [LimiterNext]_limiterVars => LimiterInv'
    BY TickInv, ArrivalInv, ReadInv, AnswerInv, LimiterStutter DEF LimiterNext, LimiterDone
  <1> QED
    BY <1>1, LimiterInitInv, PTL DEF LimiterSpec

\* Every variable of the limiter stays within its type, and no request is
\* answered twice.
THEOREM LimiterTypeCorrect == LimiterSpec => []LimiterTypeOK
  <1>1. LimiterInv => LimiterTypeOK
    BY DEF LimiterInv
  <1> QED
    BY <1>1, LimiterInvariance, PTL

\* As long as no two calls of RateLimiter.check have overlapped, no window
\* admits more than the limit.
THEOREM WithinLimit == LimiterSpec => []UnracedWithinLimit
  <1>1. LimiterInv => UnracedWithinLimit
    BY DEF LimiterInv
  <1> QED
    BY <1>1, LimiterInvariance, PTL

\* However the calls overlap, a refusal is one for more than the limit.
THEOREM Refusals == LimiterSpec => RefusalsJustified
  <1> DEFINE Justified == \A r \in refused' \ refused :
                             Cardinality(Since(admitted' \cup refused', moment[r])) > Limit
  <1>1. LimiterInv /\ [LimiterNext]_limiterVars => [Justified]_limiterVars
    <2> SUFFICES ASSUME LimiterInv, LimiterNext PROVE Justified \/ UNCHANGED limiterVars
      OBVIOUS
    <2>1. CASE Tick
      BY <2>1 DEF Tick
    <2>2. CASE \E w \in Callers : Request(w)
      BY <2>2 DEF Request
    <2>3. CASE \E w \in Callers : ReadHits(w)
      BY <2>3 DEF ReadHits
    <2>4. CASE \E w \in Callers : StoreHits(w)
      BY <2>4, RefusalStep
    <2>5. CASE LimiterDone
      BY <2>5 DEF LimiterDone
    <2> QED
      BY <2>1, <2>2, <2>3, <2>4, <2>5 DEF LimiterNext
  <1> QED
    BY <1>1, LimiterInvariance, PTL DEF LimiterSpec, RefusalsJustified
=============================================================================
