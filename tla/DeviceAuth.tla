------------------------------ MODULE DeviceAuth ------------------------------
(***************************************************************************)
(* Device tokens (TokenManager in auth.py) on the one SQLite connection    *)
(* every thread of the process shares (Database.transaction).              *)
(*                                                                         *)
(* The endpoints are coroutines and run on the event loop, one at a time;  *)
(* require_device is a plain function, so the framework runs it in a       *)
(* worker thread, and verifications interleave with each other and with    *)
(* whatever the loop is doing.  A transaction belongs to the connection,   *)
(* not to the thread that began it: statements of any thread see its       *)
(* uncommitted rows, and a second BEGIN raises.                            *)
(*                                                                         *)
(* One device is modelled: tokens of different devices share nothing but   *)
(* the connection, which "write" (ingestion, maintenance) also contends    *)
(* for.                                                                    *)
(***************************************************************************)
EXTENDS Naturals

CONSTANTS
    Loop,       \* the event loop's thread
    Workers,    \* the worker threads that run require_device
    Tokens,     \* the tokens that may be issued
    MaxFaults   \* bound: failing statements and crashes

ASSUME ThreadsAssumption == Loop \notin Workers
ASSUME FaultsAssumption == MaxFaults \in Nat

VARIABLES
    live,       \* the tables as the connection sees them
    saved,      \* the tables as last committed
    inTxn,      \* the connection is inside a transaction
    task,       \* what each thread is doing
    disclosed,  \* tokens an admin was shown
    reported,   \* tokens an admin was told are revoked
    faults

vars == <<live, saved, inTxn, task, disclosed, reported, faults>>

Threads == Workers \cup {Loop}

\* devices has the device's row; device_tokens; tokens with last_used_utc set.
Tables == [enrolled : BOOLEAN, token : [Tokens -> {"absent", "active", "revoked"}],
           used : SUBSET Tokens]

Statements == {"upsert", "insert", "revokeOthers", "revoke", "touch", "write", "none"}

\* Mutant: a rotation revokes the old tokens before it inserts the new one.
FollowingRevokesFirst(op, stmt) ==
    CASE stmt = "upsert" /\ op = "rotate" -> "revokeOthers"
      [] stmt = "upsert" /\ op # "rotate" -> "insert"
      [] stmt = "revokeOthers" -> "insert"
      [] OTHER -> "none"

\* The transactions of an operation, each of one statement, and their order:
\* rotate is enroll followed by the revocation of every other token.
First(op) ==
    CASE op \in {"enroll", "rotate"} -> "upsert"
      [] op = "verify" -> "touch"
      [] OTHER -> op

Following(op, stmt) ==
    CASE stmt = "upsert" -> "insert"
      [] stmt = "insert" /\ op = "rotate" -> "revokeOthers"
      [] OTHER -> "none"

Ops == {"enroll", "rotate", "revoke", "verify", "write"}

\* A thread is reading the device row or the active tokens (verify only),
\* about to BEGIN, to execute or to COMMIT, or about to return.
Steps == {"idle", "device", "tokens", "begin", "execute", "commit", "return"}

InTransaction(t) == task[t].step \in {"execute", "commit"}

Active(tables) == {k \in Tokens : tables.token[k] = "active"}
Issued(tables) == {k \in Tokens : tables.token[k] # "absent"}

\* changed is whether the last UPDATE hit a row.
Call(op, k, step) ==
    [op |-> op, token |-> k, step |-> step, stmt |-> First(op), changed |-> FALSE]

Idle(k) == [op |-> "write", token |-> k, step |-> "idle", stmt |-> "none", changed |-> FALSE]

Finish(t) == [task EXCEPT ![t] = Idle(task[t].token)]

Init ==
    /\ live = [enrolled |-> FALSE, token |-> [k \in Tokens |-> "absent"], used |-> {}]
    /\ saved = live
    /\ inTxn = FALSE
    /\ \E k \in Tokens : task = [t \in Threads |-> Idle(k)]
    /\ disclosed = {}
    /\ reported = {}
    /\ faults = 0

-----------------------------------------------------------------------------
(* Requests *)

\* Enroll and rotate issue a token never used before; rotate answers 404
\* when the device does not exist.
Issue(op) ==
    /\ task[Loop].step = "idle"
    /\ op = "rotate" => live.enrolled
    /\ \E k \in Tokens \ (Issued(live) \cup disclosed) :
          task' = [task EXCEPT ![Loop] = Call(op, k, "begin")]
    /\ UNCHANGED <<live, saved, inTxn, disclosed, reported, faults>>

\* The admin revokes a token listed for the device.
Revoke ==
    /\ task[Loop].step = "idle"
    /\ \E k \in Issued(live) : task' = [task EXCEPT ![Loop] = Call("revoke", k, "begin")]
    /\ UNCHANGED <<live, saved, inTxn, disclosed, reported, faults>>

\* Any other transaction of the loop: ingest_batch, features, retention.
Write ==
    /\ task[Loop].step = "idle"
    /\ task' = [task EXCEPT ![Loop] = Call("write", task[Loop].token, "begin")]
    /\ UNCHANGED <<live, saved, inTxn, disclosed, reported, faults>>

\* A device presents a token it was given.
Verify(w) ==
    /\ task[w].step = "idle"
    /\ \E k \in disclosed : task' = [task EXCEPT ![w] = Call("verify", k, "device")]
    /\ UNCHANGED <<live, saved, inTxn, disclosed, reported, faults>>

-----------------------------------------------------------------------------
(* verify's reads, outside any transaction of its own *)

ReadDevice(w) ==
    /\ task[w].step = "device"
    /\ task' = IF live.enrolled THEN [task EXCEPT ![w].step = "tokens"] ELSE Finish(w)
    /\ UNCHANGED <<live, saved, inTxn, disclosed, reported, faults>>

\* Mutant: revoked rows are not filtered out.
ReadTokensAnyState(w) ==
    /\ task[w].step = "tokens"
    /\ task' = IF task[w].token \in Issued(live) THEN [task EXCEPT ![w].step = "begin"]
               ELSE Finish(w)
    /\ UNCHANGED <<live, saved, inTxn, disclosed, reported, faults>>

\* The token's hash is compared with those of the active tokens: without a
\* match the request is refused.
ReadTokens(w) ==
    /\ task[w].step = "tokens"
    /\ task' = IF task[w].token \in Active(live) THEN [task EXCEPT ![w].step = "begin"]
               ELSE Finish(w)
    /\ UNCHANGED <<live, saved, inTxn, disclosed, reported, faults>>

-----------------------------------------------------------------------------
(* Database.transaction *)

Begin(t) ==
    /\ task[t].step = "begin"
    /\ ~inTxn
    /\ inTxn' = TRUE
    /\ task' = [task EXCEPT ![t].step = "execute"]
    /\ UNCHANGED <<live, saved, disclosed, reported, faults>>

\* Mutant: BEGIN stands inside the try, so its failure rolls back whatever
\* transaction the connection is in.
BeginFailsRollingBack(t) ==
    /\ task[t].step = "begin"
    /\ inTxn
    /\ live' = saved
    /\ inTxn' = FALSE
    /\ task' = Finish(t)
    /\ UNCHANGED <<saved, disclosed, reported, faults>>

\* Mutant: BEGIN is retried until the other transaction is over.
BeginFailsRetrying(t) ==
    /\ task[t].step = "begin"
    /\ inTxn
    /\ UNCHANGED vars

\* BEGIN raises inside another thread's transaction.  It stands before the
\* try, so nothing is rolled back; the operation ends with an error.
BeginFails(t) ==
    /\ task[t].step = "begin"
    /\ inTxn
    /\ task' = Finish(t)
    /\ UNCHANGED <<live, saved, inTxn, disclosed, reported, faults>>

\* Mutant: the rotation spares tokens that were never used.
EffectSparesUnused(stmt, k) ==
    CASE stmt = "upsert" -> [live EXCEPT !.enrolled = TRUE]
      [] stmt = "insert" -> [live EXCEPT !.token[k] = "active"]
      [] stmt = "revokeOthers" ->
            [live EXCEPT !.token = [o \in Tokens |->
                IF o # k /\ live.token[o] = "active" /\ o \in live.used THEN "revoked"
                ELSE live.token[o]]]
      [] stmt = "revoke" ->
            [live EXCEPT !.token[k] = IF live.token[k] = "active" THEN "revoked"
                                      ELSE live.token[k]]
      [] stmt = "touch" -> [live EXCEPT !.used = live.used \cup {k}]
      [] OTHER -> live

Effect(stmt, k) ==
    CASE stmt = "upsert" -> [live EXCEPT !.enrolled = TRUE]
      [] stmt = "insert" -> [live EXCEPT !.token[k] = "active"]
      [] stmt = "revokeOthers" ->
            [live EXCEPT !.token = [o \in Tokens |->
                IF o # k /\ live.token[o] = "active" THEN "revoked" ELSE live.token[o]]]
      [] stmt = "revoke" ->
            [live EXCEPT !.token[k] = IF live.token[k] = "active" THEN "revoked"
                                      ELSE live.token[k]]
      [] stmt = "touch" -> [live EXCEPT !.used = live.used \cup {k}]
      [] OTHER -> live

\* Outside a transaction a statement commits by itself.
Execute(t) ==
    /\ task[t].step = "execute"
    /\ live' = Effect(task[t].stmt, task[t].token)
    /\ saved' = IF inTxn THEN saved ELSE live'
    /\ task' = [task EXCEPT ![t].step = "commit", ![t].changed = live'.token # live.token]
    /\ UNCHANGED <<inTxn, disclosed, reported, faults>>

\* COMMIT, and on to the next transaction of the operation if it has one.
Commit(t) ==
    /\ task[t].step = "commit"
    /\ inTxn
    /\ saved' = live
    /\ inTxn' = FALSE
    /\ LET next == Following(task[t].op, task[t].stmt)
       IN  task' = [task EXCEPT ![t].stmt = next,
                                ![t].step = IF next = "none" THEN "return" ELSE "begin"]
    /\ UNCHANGED <<live, disclosed, reported, faults>>

\* A statement raises and ROLLBACK follows, or COMMIT raises (disk full, an
\* I/O error) and SQLite has rolled back by itself.
StatementFails(t) ==
    /\ InTransaction(t)
    /\ faults < MaxFaults
    /\ faults' = faults + 1
    /\ live' = saved
    /\ inTxn' = FALSE
    /\ task' = Finish(t)
    /\ UNCHANGED <<saved, disclosed, reported>>

\* The result goes back: the new token and, after a rotation, the warning
\* that all earlier ones are revoked; whether the revocation changed a row;
\* or the id of the verified token.
Return(t) ==
    /\ task[t].step = "return"
    /\ disclosed' = IF task[t].op \in {"enroll", "rotate"} THEN disclosed \cup {task[t].token}
                    ELSE disclosed
    /\ reported' = CASE task[t].op = "rotate" ->
                            reported \cup (Issued(saved) \ {task[t].token})
                     [] task[t].op = "revoke" /\ task[t].changed -> reported \cup {task[t].token}
                     [] OTHER -> reported
    /\ task' = Finish(t)
    /\ UNCHANGED <<live, saved, inTxn, faults>>

\* The process dies; the next one opens the committed tables.
Crash ==
    /\ faults < MaxFaults
    /\ faults' = faults + 1
    /\ live' = saved
    /\ inTxn' = FALSE
    /\ task' = [t \in Threads |-> Idle(task[t].token)]
    /\ UNCHANGED <<saved, disclosed, reported>>
-----------------------------------------------------------------------------
(* The specification *)

Run(t) ==
    \/ Begin(t) \/ BeginFails(t)
    \/ Execute(t) \/ Commit(t)
    \/ Return(t)

Check(w) == ReadDevice(w) \/ ReadTokens(w)

Next ==
    \/ Issue("enroll") \/ Issue("rotate") \/ Revoke \/ Write
    \/ \E w \in Workers : Verify(w) \/ Check(w)
    \/ \E t \in Threads : Run(t) \/ StatementFails(t)
    \/ Crash

Spec == Init /\ [][Next]_vars

\* A started call runs on; requests and failures are never forced.
Fairness ==
    /\ \A t \in Threads : WF_vars(Run(t))
    /\ \A w \in Workers : WF_vars(Check(w))

FairSpec == Spec /\ Fairness

-----------------------------------------------------------------------------
(* Properties *)

\* Types of the state.
TypeOK ==
    /\ live \in Tables
    /\ saved \in Tables
    /\ inTxn \in BOOLEAN
    /\ task \in [Threads -> [op : Ops, token : Tokens, step : Steps,
                             stmt : Statements, changed : BOOLEAN]]
    /\ disclosed \subseteq Tokens
    /\ reported \subseteq Tokens
    /\ faults \in 0..MaxFaults

\* At most one thread is between BEGIN and COMMIT, exactly while the
\* connection is in a transaction, and outside one every row is committed:
\* no thread's error or COMMIT ends or saves another thread's transaction.
TransactionExclusive ==
    /\ \A t, u \in Threads : InTransaction(t) /\ InTransaction(u) => t = u
    /\ inTxn <=> \E t \in Threads : InTransaction(t)
    /\ ~inTxn => live = saved

\* What an admin was told is durable: a disclosed token has its row, and a
\* token reported as revoked stays revoked, through crashes and whatever
\* verifications were in progress.
RepliesAreDurable ==
    /\ disclosed \subseteq Issued(saved)
    /\ reported \subseteq Issued(saved) \ Active(saved)

\* A verification reads the connection's uncommitted rows, yet it only ever
\* matches a token whose row is committed and not revoked.
MatchesAreCommitted ==
    [][\A w \in Workers :
          task[w].step = "tokens" /\ task'[w].step = "begin"
             => task[w].token \in Active(saved)]_vars

\* Only an explicit revocation can leave the device without an active token:
\* a rotation that fails or crashes half way never does (auth.py, rotate).
RotationKeepsAccess ==
    [][Active(saved) # {} /\ Active(saved') = {}
          => task[Loop].op = "revoke" /\ task[Loop].step = "commit"]_vars

\* Every call ends, with a result or an error: nobody waits for the lock.
CallsFinish == \A t \in Threads : task[t].step # "idle" ~> task[t].step = "idle"

\* The strengthening behind the safety properties, proved inductive in
\* AuthProofs.tla.

\* A worker only verifies, and only a token that was handed out.
WorkerInv ==
    \A w \in Workers :
        task[w].step # "idle" =>
            /\ task[w].op = "verify"
            /\ task[w].stmt \in {"touch", "none"}
            /\ task[w].token \in disclosed

\* Where the loop is in its operation and what that has done to the rows.
\* Only the loop changes tokens, so outside its own COMMIT nothing about them
\* is uncommitted, whatever transaction a worker is in.
LoopInv ==
    LET c == task[Loop]
        k == c.token
        Working == c.step \in {"begin", "execute", "commit"}
    IN  /\ c.step \notin {"device", "tokens"}
        /\ c.step # "idle" => c.op # "verify"
        /\ c.step # "commit" => live.token = saved.token
        /\ c.step = "return" => c.stmt = "none"
        /\ Working /\ c.op = "enroll" => c.stmt \in {"upsert", "insert"}
        /\ Working /\ c.op = "rotate" => c.stmt \in {"upsert", "insert", "revokeOthers"}
        /\ Working /\ c.op \in {"revoke", "write"} => c.stmt = c.op
        /\ Working /\ c.stmt = "upsert" => k \notin Issued(live) /\ live.token = saved.token
        /\ Working /\ c.stmt = "insert" =>
              /\ k \notin Issued(saved)
              /\ c.step = "commit" => live.token = [saved.token EXCEPT ![k] = "active"]
        /\ Working /\ c.stmt = "revokeOthers" =>
              /\ saved.token[k] = "active"
              /\ c.step = "commit" =>
                    live.token = [o \in Tokens |->
                        IF o # k /\ saved.token[o] = "active" THEN "revoked" ELSE saved.token[o]]
        /\ Working /\ c.stmt = "revoke" /\ c.step = "commit" =>
              live.token \in {saved.token, [saved.token EXCEPT ![k] = "revoked"]}
        /\ Working /\ c.stmt = "revoke" /\ c.step = "commit" /\ c.changed =>
              live.token[k] = "revoked"
        /\ Working /\ c.stmt = "write" => live.token = saved.token
        /\ c.step = "return" /\ c.op \in {"enroll", "rotate"} => saved.token[k] = "active"
        /\ c.step = "return" /\ c.op = "rotate" => Active(saved) = {k}
        /\ c.step = "return" /\ c.op = "revoke" /\ c.changed => saved.token[k] = "revoked"

IndInv ==
    /\ TransactionExclusive
    /\ RepliesAreDurable
    /\ WorkerInv
    /\ LoopInv
=============================================================================
