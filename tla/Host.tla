---------------------------------- MODULE Host ----------------------------------
(***************************************************************************)
(* Processes that open one database file in turn and the calls they make   *)
(* on it: the lock sidecar (src/storage/backend/file.rs), the pipe session *)
(* (src/session.rs), the interactive shell (src/repl.rs), raw and          *)
(* capability handles, explicit transactions, prepared queries, idle       *)
(* maintenance and backup (src/db.rs).                                     *)
(*                                                                         *)
(* A process has one thread here, and every call runs under the handle's   *)
(* write lock, so a call is one step; acquiring the lock file and writing  *)
(* a backup race with other processes and take several.  The write path is *)
(* modelled at its outcomes: WalLedger and PageStore model its steps.      *)
(***************************************************************************)
EXTENDS WriteCommands

CONSTANTS
    Procs,      \* processes, named by their PID
    NoOne,      \* no lock file
    Plans,      \* which kinds of process are started: sequences of modes
    Texts,      \* commands a session or a raw handle may be given
    WriteTexts, \* commands staged in explicit transactions
    Scripts,    \* what may be typed into the shell: sequences of lines
    Templates,  \* queries with slots
    Bindings,   \* bindings for them
    Dests,      \* backup destinations
    MaxTx,      \* bound on the transaction counter
    MaxFaults,  \* bound on failures, kills and foreign files
    MaxStaged,  \* bound on the commands of one explicit transaction
    MaxRules,   \* bound on the rules of a registry
    Threshold,  \* wal_checkpoint_threshold of a raw handle
    MaxResults, \* OpenOptions::max_results
    Racing,     \* how many processes may be acquiring the lock at a time
    Noon        \* the wall clock starts here and moves at most once

VARIABLES
    lock,    \* PID in the lock file, or NoOne
    disk,    \* [log, last, wal]: the published image and the WAL entries
    proc,    \* the processes
    files,   \* what each backup destination holds: [what, log]
    clock,
    caller,  \* the caller's copy of the log and its stored cursor: [have, cursor]
    acks,    \* history: acknowledged backups [dest, tx]
    rej,     \* history: numbers of writes whose WAL append returned an error
    last,    \* history: the call that just returned
    intruded, \* history: destinations another program created
    queue,    \* the modes of the processes still to be started
    faults

vars == <<lock, disk, proc, files, clock, caller, acks, rej, last, intruded, queue, faults>>

NoTx == [facts |-> <<>>, n |-> 0, id |-> 0]

Down == [pc |-> "down", mode |-> "none", tries |-> 0, log |-> {}, ctr |-> 0, cnt |-> 0,
         reg |-> <<>>, buf |-> <<>>, todo |-> <<>>, tx |-> NoTx, texts |-> <<>>, prep |-> {},
         dest |-> "none"]

Nothing == [op |-> "none"]

Init ==
    /\ lock = NoOne
    /\ disk = [log |-> {}, last |-> 0, wal |-> <<>>]
    /\ proc = [p \in Procs |-> Down]
    /\ files = [d \in Dests |-> [what |-> "none", log |-> {}]]
    /\ clock = Noon
    /\ caller = [have |-> {}, cursor |-> 0]
    /\ acks = {} /\ rej = {} /\ intruded = {} /\ last = Nothing /\ faults = 0
    /\ queue \in Plans

Tick ==
    /\ clock = Noon /\ clock' = Noon + 1
    /\ last' = Nothing
    /\ UNCHANGED <<lock, disk, proc, files, caller, acks, rej, intruded, queue, faults>>

-----------------------------------------------------------------------------
\* The lock file.

Acquiring == {p \in Procs : proc[p].pc \in {"link", "read", "remove"}}
Open(p) == proc[p].pc \in {"open", "copied", "checked"}

Entries(d) == SelectSeq(d.wal, LAMBDA e : e.tc > d.last)
Recovered(d) == d.log \cup UNION {e.facts : e \in Range(Entries(d))}
\* The replayed entries are not counted.
RestoredCounterPublished(d) == d.last
RestoredCounter(d) == Max({d.last} \cup {f.tc : f \in Recovered(d)})

Start(p, script) ==
    /\ proc[p].pc = "down"
    /\ queue # <<>> /\ queue' = Tail(queue)
    /\ Cardinality(Acquiring) < Racing
    /\ script # <<>> <=> Head(queue) = "repl"
    /\ proc' = [proc EXCEPT ![p] = [Down EXCEPT !.pc = "link", !.mode = Head(queue), !.todo = script]]
    /\ last' = Nothing
    /\ UNCHANGED <<lock, disk, files, clock, caller, acks, rej, intruded, faults>>

\* try_create: the staged PID file is linked to the lock's name or it is not.
\* With the lock the file is opened and its WAL replayed.
TryCreate(p) ==
    /\ proc[p].pc = "link"
    /\ IF lock = NoOne
       THEN /\ lock' = p
            /\ proc' = [proc EXCEPT ![p].pc = "open", ![p].log = Recovered(disk),
                                    ![p].ctr = RestoredCounter(disk), ![p].cnt = Len(Entries(disk))]
       ELSE proc' = [proc EXCEPT ![p].pc = "read"] /\ UNCHANGED lock
    /\ last' = Nothing
    /\ UNCHANGED <<disk, files, clock, caller, acks, rej, intruded, queue, faults>>

\* A lock that exists is taken to be stale.
is_process_alive_never(pid) == FALSE
is_process_alive(pid) == pid # NoOne /\ proc[pid].pc # "down"

\* The holder is read after the link failed; an unreadable one counts as stale.
ReadHolder(p) ==
    /\ proc[p].pc = "read"
    /\ proc' = [proc EXCEPT ![p] = IF lock # p /\ is_process_alive(lock) THEN Down
                                   ELSE [@ EXCEPT !.pc = "remove"]]
    /\ last' = Nothing
    /\ UNCHANGED <<lock, disk, files, clock, caller, acks, rej, intruded, queue, faults>>

RemoveStale(p) ==
    /\ proc[p].pc = "remove"
    /\ lock' = NoOne
    /\ proc' = [proc EXCEPT ![p] = IF @.tries = 3 THEN Down
                                   ELSE [@ EXCEPT !.pc = "link", !.tries = @ + 1]]
    /\ last' = Nothing
    /\ UNCHANGED <<disk, files, clock, caller, acks, rej, intruded, queue, faults>>

Fault == faults < MaxFaults /\ faults' = faults + 1
NoFault == UNCHANGED faults

\* kill -9: the lock file stays.
Kill(p) ==
    /\ proc[p].pc # "down" /\ Fault
    /\ proc' = [proc EXCEPT ![p] = Down]
    /\ last' = Nothing
    /\ UNCHANGED <<lock, disk, files, clock, caller, acks, rej, intruded, queue>>

-----------------------------------------------------------------------------
\* do_checkpoint: publish the log and retire the WAL.

Published(s) == [log |-> s.log, last |-> s.ctr, wal |-> <<>>]

\* Its outcomes for a handle s over the files d: [ok, disk, cnt].
do_checkpoint(s, d) ==
    IF s.cnt = 0 THEN {[ok |-> TRUE, disk |-> d, cnt |-> 0]}
    ELSE {[ok |-> TRUE, disk |-> Published(s), cnt |-> 0]}
         \cup (IF faults = MaxFaults THEN {}
               ELSE {[ok |-> FALSE, disk |-> x, cnt |-> s.cnt]
                       : x \in {d, [Published(s) EXCEPT !.wal = d.wal]}})

\* No checkpoint is due.
Unchecked(s, d) == {[ok |-> TRUE, disk |-> d, cnt |-> s.cnt]}

Cost(o) == faults' = faults + (IF o.ok THEN 0 ELSE 1)

permits_automatic(mode) == mode \in {"repl", "library"}

\* Drop for Inner, then for the lock: a raw handle tries to checkpoint.
Leave(p) ==
    \E o \in IF permits_automatic(proc[p].mode) THEN do_checkpoint(proc[p], disk)
             ELSE Unchecked(proc[p], disk) :
        /\ disk' = o.disk /\ Cost(o)
        /\ lock' = NoOne
        /\ proc' = [proc EXCEPT ![p] = Down]

\* End of input, shutdown, EXIT, or the handle is dropped; an explicit
\* transaction is rolled back.
Close(p) ==
    /\ proc[p].pc = "open"
    /\ Leave(p)
    /\ last' = Nothing
    /\ UNCHANGED <<files, clock, caller, acks, rej, intruded, queue>>

\* A failed call: a session reports a fatal failure and ends, others go on.
Fatal(p, s) ==
    IF s.mode = "session"
    THEN lock' = NoOne /\ proc' = [proc EXCEPT ![p] = Down]
    ELSE UNCHANGED lock /\ proc' = [proc EXCEPT ![p] = s]

Checkpoint(p) ==
    /\ proc[p].pc = "open" /\ proc[p].mode \in {"session", "library"} /\ proc[p].tx = NoTx
    /\ \E o \in do_checkpoint(proc[p], disk) :
           /\ disk' = o.disk /\ Cost(o)
           /\ IF o.ok THEN UNCHANGED lock /\ proc' = [proc EXCEPT ![p].cnt = 0]
              ELSE Fatal(p, proc[p])
    /\ last' = Nothing
    /\ UNCHANGED <<files, clock, caller, acks, rej, intruded, queue>>

\* run_idle_maintenance: a checkpoint, then the delta chain may be merged into
\* a fresh base, which leaves the log as it is or fails after the checkpoint.
IdleMaintenance(p) ==
    /\ proc[p].pc = "open" /\ proc[p].mode \in {"session", "maintenance"}
    /\ \E o \in do_checkpoint(proc[p], disk) : \E merged \in BOOLEAN :
           /\ merged \/ (o.ok /\ faults < MaxFaults)
           /\ disk' = o.disk
           /\ faults' = faults + (IF o.ok /\ merged THEN 0 ELSE 1)
           /\ IF o.ok /\ merged THEN UNCHANGED lock /\ proc' = [proc EXCEPT ![p].cnt = 0]
              ELSE Fatal(p, [proc[p] EXCEPT !.cnt = o.cnt])
    /\ last' = Nothing
    /\ UNCHANGED <<files, clock, caller, acks, rej, intruded, queue>>

-----------------------------------------------------------------------------
\* Writes.

\* wal_write_stamped_batch, the load into memory and the automatic checkpoint.
\* The number is allocated first; a failed append leaves a gap, and may leave
\* the entry.
Write(p, s, facts, id, call) ==
    LET n      == s.ctr + 1
        recs   == {StampFact(f, n, id) : f \in facts}
        logged == [disk EXCEPT !.wal = Append(@, [tc |-> n, facts |-> recs])]
        done   == [s EXCEPT !.ctr = n, !.cnt = @ + 1, !.log = @ \cup recs]
        due    == permits_automatic(s.mode) /\ done.cnt >= Threshold
    IN  /\ n <= MaxTx
        /\ \/ \E o \in IF due THEN do_checkpoint(done, logged) ELSE Unchecked(done, logged) :
                  /\ disk' = o.disk /\ Cost(o)
                  /\ proc' = [proc EXCEPT ![p] = [done EXCEPT !.cnt = o.cnt]]
                  /\ last' = call
                  /\ UNCHANGED <<lock, rej>>
           \/ /\ Fault /\ disk' \in {disk, logged}
              /\ proc' = [proc EXCEPT ![p] = [s EXCEPT !.ctr = n]]
              /\ rej' = rej \cup {n}
              /\ last' = Nothing /\ UNCHANGED lock
           \/ /\ Fault /\ disk' = logged
              /\ proc' = [proc EXCEPT ![p] = Down]
              /\ last' = Nothing /\ UNCHANGED <<lock, rej>>

\* A call that changes nothing but the handle's own state.
Return(p, s, call) ==
    /\ proc' = [proc EXCEPT ![p] = s] /\ last' = call
    /\ UNCHANGED <<lock, disk, rej, faults>>

\* execute_forget_locked: nothing to close consumes no number.
Forget(p, s, of) ==
    LET at == Given(of.to, clock) IN
    \E triples \in {resolve_forget_triples(of.source, s.log, at, MaxResults)} :
    \E facts \in {UNION {materialize_closure(s.log, ts, at) : ts \in triples}} :
        IF facts = {} THEN Return(p, s, Nothing)
        ELSE Write(p, s, facts, clock,
                   [op |-> "forget", by |-> p, at |-> at, log |-> s.log,
                    triples |-> UNION triples])

\* ViciaDb::execute with a handle in state s.
Execute(p, s, text) ==
    \E cmds \in {parse_datalog_command(text)} :
        IF cmds = {} THEN Return(p, s, Nothing)
        ELSE \E c \in cmds :
               CASE c.cmd = "forget" -> Forget(p, s, c.of)
                 [] c.cmd = "query"  -> Return(p, s, Nothing)
                 [] c.cmd = "rule"   -> Return(p, [s EXCEPT !.reg = register_rule(@, c.of)], Nothing)
                 [] OTHER -> IF Materialized(c) = {} THEN Return(p, s, Nothing)
                             ELSE \E fs \in Materialized(c) : Write(p, s, Range(fs), clock, Nothing)

\* A session frame or a call on a raw handle; capability ledgers only write.
Call(p, text) ==
    /\ proc[p].pc = "open" /\ proc[p].tx = NoTx
    /\ proc[p].mode \in {"session", "library", "interactive"}
    /\ proc[p].mode = "interactive" =>
           \A c \in parse_datalog_command(text) : c.cmd \in {"transact", "retract"}
    /\ Execute(p, proc[p], text)
    /\ UNCHANGED <<files, clock, caller, acks, intruded, queue>>

\* The shell reads a line: blank and comment lines are skipped, and a buffer
\* that looks complete is executed and cleared whatever comes of it.
Feed(p) ==
    LET s    == proc[p]
        line == Head(s.todo)
        buf  == s.buf \o line
        rest == [s EXCEPT !.todo = Tail(@)]
    IN  /\ s.pc = "open" /\ s.todo # <<>>
        /\ IF line = <<>> \/ line[1][1] = "note" THEN Return(p, rest, Nothing)
           ELSE IF ~is_command_complete(buf) THEN Return(p, [rest EXCEPT !.buf = buf], Nothing)
           ELSE Execute(p, [rest EXCEPT !.buf = <<>>], buf)
        /\ UNCHANGED <<files, clock, caller, acks, intruded, queue>>

-----------------------------------------------------------------------------
\* Explicit transactions and prepared queries.

Begin(p) ==
    /\ proc[p].pc = "open" /\ proc[p].mode = "interactive" /\ proc[p].tx = NoTx
    /\ Return(p, [proc[p] EXCEPT !.tx = [facts |-> <<>>, n |-> proc[p].ctr + 1, id |-> clock]], Nothing)
    /\ UNCHANGED <<files, clock, caller, acks, intruded, queue>>

\* Rules are registered at once; a forget is refused.
Stage(p, text) ==
    LET s == proc[p]
        Staged(c) == {stage_pending_facts(s.tx, fs, clock) : fs \in Materialized(c)}
    IN  /\ s.pc = "open" /\ s.tx # NoTx /\ Len(s.texts) < MaxStaged
        /\ \E c \in parse_datalog_command(text) :
              /\ c.cmd = "rule" => Len(s.reg) < MaxRules
              /\ Return(p, CASE c.cmd \in {"transact", "retract"} ->
                                   [s EXCEPT !.tx = Given(Staged(c), @),
                                             !.texts = IF Staged(c) = {} THEN @ ELSE Append(@, text)]
                             [] c.cmd = "rule" -> [s EXCEPT !.reg = register_rule(@, c.of)]
                             [] OTHER -> s, Nothing)
        /\ UNCHANGED <<files, clock, caller, acks, intruded, queue>>

\* One number and one time for everything staged; nothing staged is nothing
\* to write.
Commit(p) ==
    LET s    == proc[p]
        free == [s EXCEPT !.tx = NoTx, !.texts = <<>>]
    IN  /\ s.pc = "open" /\ s.tx # NoTx
        /\ IF s.tx.facts = <<>> THEN Return(p, free, Nothing)
           ELSE Write(p, free, Range(s.tx.facts), clock,
                      [op |-> "commit", by |-> p, tx |-> s.tx, texts |-> s.texts, log |-> s.log])
        /\ UNCHANGED <<files, clock, caller, acks, intruded, queue>>

Rollback(p) ==
    /\ proc[p].pc = "open" /\ proc[p].tx # NoTx
    /\ Return(p, [proc[p] EXCEPT !.tx = NoTx, !.texts = <<>>], Nothing)
    /\ UNCHANGED <<files, clock, caller, acks, intruded, queue>>

Prepare(p, text) ==
    /\ proc[p].pc = "open" /\ proc[p].mode = "library" /\ proc[p].tx = NoTx
    /\ Return(p, [proc[p] EXCEPT !.prep = {[text |-> text, query |-> q] : q \in prepare(text)}], Nothing)
    /\ UNCHANGED <<files, clock, caller, acks, intruded, queue>>

\* The executor is built without set_limits.
ExecutePrepared(p, binds) ==
    /\ proc[p].pc = "open"
    /\ \E x \in proc[p].prep :
           Return(p, proc[p], [op |-> "prepared", by |-> p, text |-> x.text, binds |-> binds,
                               answer |-> {RunQuery(q, proc[p].log, clock, NoLimit)
                                             : q \in FilledQuery(x.query, binds)}])
    /\ UNCHANGED <<files, clock, caller, acks, intruded, queue>>

-----------------------------------------------------------------------------
\* export_since and backup.

\* The caller keeps what it is sent and passes head_tx_count back next time.
ExportSince(p) ==
    /\ proc[p].pc = "open" /\ proc[p].mode = "session"
    /\ caller' = [have |-> caller.have \cup {r \in proc[p].log : r.tc > caller.cursor},
                  cursor |-> proc[p].ctr]
    /\ last' = Nothing
    /\ UNCHANGED <<lock, disk, proc, files, clock, acks, rej, intruded, queue, faults>>

MayBackup(p) == proc[p].pc = "open" /\ proc[p].mode \in {"session", "maintenance"}

\* validate_backup_target, the checkpoint, and the copy beside the target.
BackupCopy(p, d) ==
    /\ MayBackup(p)
    /\ files[d].what = "none"
    /\ \E o \in do_checkpoint(proc[p], disk) :
           /\ disk' = o.disk /\ Cost(o)
           /\ IF o.ok
              THEN UNCHANGED lock /\ proc' = [proc EXCEPT ![p].cnt = 0, ![p].dest = d, ![p].pc = "copied"]
              ELSE Fatal(p, proc[p])
    /\ last' = Nothing
    /\ UNCHANGED <<files, clock, caller, acks, rej, intruded, queue>>

BackupEnds(p) == proc' = [proc EXCEPT ![p].pc = "open", ![p].dest = "none"]

\* The target is looked at again.
BackupRecheck(p) ==
    /\ proc[p].pc = "copied"
    /\ IF files[proc[p].dest].what = "none" THEN proc' = [proc EXCEPT ![p].pc = "checked"]
       ELSE BackupEnds(p)
    /\ last' = Nothing
    /\ UNCHANGED <<lock, disk, files, clock, caller, acks, rej, intruded, queue, faults>>

Backup == [what |-> "backup", log |-> disk.log]

\* Renamed over whatever is there.
BackupPublishRenaming(p) ==
    LET d == proc[p].dest
    IN  /\ proc[p].pc = "checked"
        /\ files' = [files EXCEPT ![d] = Backup]
        /\ acks' = acks \cup {[dest |-> d, tx |-> disk.last]}
        /\ BackupEnds(p) /\ last' = Nothing
        /\ UNCHANGED <<lock, disk, clock, caller, rej, intruded, queue, faults>>

\* The candidate is hard-linked to the target, which fails if it exists; the
\* sync of the directory may fail after that.
BackupPublish(p) ==
    LET d == proc[p].dest
    IN  /\ proc[p].pc = "checked"
        /\ \/ files[d].what # "none" /\ UNCHANGED <<files, acks, faults>>
           \/ /\ files[d].what = "none"
              /\ files' = [files EXCEPT ![d] = Backup]
              /\ \/ acks' = acks \cup {[dest |-> d, tx |-> disk.last]} /\ NoFault
                 \/ UNCHANGED acks /\ Fault
        /\ BackupEnds(p) /\ last' = Nothing
        /\ UNCHANGED <<lock, disk, clock, caller, rej, intruded, queue>>

\* Another program creates a file at a destination.
Intrude(d) ==
    /\ files[d].what = "none" /\ Fault
    /\ files' = [files EXCEPT ![d].what = "foreign"]
    /\ intruded' = intruded \cup {d}
    /\ last' = Nothing
    /\ UNCHANGED <<lock, disk, proc, clock, caller, acks, rej, queue>>

Next ==
    \/ Tick
    \/ \E p \in Procs :
          \/ \E script \in Scripts \cup {<<>>} : Start(p, script)
          \/ TryCreate(p) \/ ReadHolder(p) \/ RemoveStale(p) \/ Kill(p) \/ Close(p)
          \/ Checkpoint(p) \/ IdleMaintenance(p) \/ ExportSince(p)
          \/ \E text \in Texts : Call(p, text)
          \/ Feed(p)
          \/ Begin(p) \/ Commit(p) \/ Rollback(p)
          \/ \E text \in WriteTexts : Stage(p, text)
          \/ \E text \in Templates : Prepare(p, text)
          \/ \E binds \in Bindings : ExecutePrepared(p, binds)
          \/ BackupRecheck(p) \/ BackupPublish(p)
          \/ \E d \in Dests : BackupCopy(p, d)
    \/ \E d \in Dests : Intrude(d)

Spec == Init /\ [][Next]_vars

-----------------------------------------------------------------------------
\* Properties.

\* FileLock::acquire: no two processes have the database file open.
OneWriter == \A p, q \in Procs : Open(p) /\ Open(q) => p = q

\* export_since: a caller that passes head_tx_count back has, of everything
\* the open database holds up to its cursor, all but what was numbered like a
\* write whose append failed, and nothing the database does not hold.
MirrorIsLog ==
    \A p \in Procs : Open(p) =>
        /\ caller.have \subseteq proc[p].log
        /\ {r \in proc[p].log : r.tc <= caller.cursor /\ r.tc \notin rej} \subseteq caller.have

\* What triples hold at time t.
Hold(log, t) == {eav_key(f) : f \in {g \in net_asserted_facts(log) : Covers(g, t)}}
Times == 0..(Forever - 1)

\* execute_forget_locked: from the closure time on, a forgotten triple holds
\* only by windows that start later; before it, and for every other triple,
\* nothing changes; the state as of the number before is what it was.
ForgetExact ==
    last.op = "forget" =>
        LET now == proc[last.by].log
            later(t) == {eav_key(f) : f \in {g \in net_asserted_facts(last.log) : Covers(g, t) /\ g.vf > last.at}}
        IN  /\ \A t \in Times :
                  Hold(now, t) = IF t < last.at THEN Hold(last.log, t)
                                 ELSE (Hold(last.log, t) \ last.triples) \cup later(t)
            /\ filter_facts_as_of(now, <<"count", proc[last.by].ctr - 1>>) = last.log

\* WriteTransaction: what a read inside the transaction saw just before
\* commit is what holds after it, if no triple is written twice and no
\* retraction starts at the commit itself.
CommitShowsStaged ==
    last.op = "commit" /\ materialize_atomic_write_commands(last.texts) # {}
    /\ (\A f \in Range(last.tx.facts) : f.on \/ f.vf # UseTxTime) =>
        LET t == pending_read_now_floor(last.tx, clock)
        IN  Hold(merged_query_facts(last.log, last.tx), t) = Hold(proc[last.by].log, t)

\* backup_to: an acknowledged backup holds the database's records up to its
\* number, whatever was written since, and a file that was there before is
\* never replaced.
BackupExact ==
    /\ \A d \in intruded : files[d].what = "foreign"
    /\ \A a \in acks :
           /\ files[a.dest].what = "backup"
           /\ \A p \in Procs : Open(p) =>
                  files[a.dest].log = {r \in proc[p].log : r.tc <= a.tx}

\* The lexeme a bind value is written as.
Written(b) == CASE b[1] = "entity" -> <<"uuid", b[2]>>
                [] b[1] = "val"    -> value_to_edn(b[2])
                [] b[1] = "count"  -> <<"int", b[2]>>
                [] b[1] = "time"   -> b
                [] b[1] = "any"    -> <<"kw", "any-valid-time">>

\* PreparedQuery::execute answers what execute answers for the text with the
\* bound values written in place of the slots, where that text is a query,
\* unless the handle's max_results, which a prepared query does not have,
\* refuses that text; a limit refuses, it never changes an answer.
PreparedIsInlined ==
    last.op = "prepared" =>
        LET text == [i \in DOMAIN last.text |-> IF last.text[i][1] = "slot" THEN Written(last.binds[last.text[i][2]])
                                               ELSE last.text[i]]
            Inlined(limit) == {RunQuery(c.of, proc[last.by].log, clock, limit) : c \in parse_datalog_command(text)}
        IN  last.answer # {} /\ Inlined(NoLimit) # {} =>
                /\ last.answer = Inlined(NoLimit)
                /\ Inlined(MaxResults) \subseteq last.answer \cup {Refused}
=============================================================================
