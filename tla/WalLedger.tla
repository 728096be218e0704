------------------------------ MODULE WalLedger ------------------------------
(***************************************************************************)
(* The write path of a file-backed database handle: the WAL sidecar, the   *)
(* transaction counter, the pending overlay, the checkpoint that publishes *)
(* page 0 and retires the WAL, and recovery by replay (src/src/db.rs,      *)
(* src/src/wal.rs).                                                        *)
(*                                                                         *)
(* The write lock serialises writers, so there is one writer and `pc` is   *)
(* the step it has reached.  Every I/O call is a step of its own with its  *)
(* failures beside it; a kill or a power loss may come between any two.    *)
(* One write stands for the batch it commits: a batch is appended, applied *)
(* and replayed as a whole.  Page 0 is abstract here (`image`); PageStore  *)
(* models the pages behind it.                                             *)
(***************************************************************************)
EXTENDS Integers, Sequences, FiniteSets

CONSTANTS
    MaxWrites,   \* bound: number of writes ever attempted
    Threshold,   \* OpenOptions::wal_checkpoint_threshold
    Torn,        \* bytes of a WAL entry whose CRC32 fails
    NoWrite      \* no write holds the lock

ASSUME BoundsAssumption == MaxWrites \in Nat /\ Threshold \in Nat \ {0}

Write == [id : 1..MaxWrites, tx : Nat, empty : BOOLEAN]

ASSUME MarkersAssumption == Torn \notin Write /\ NoWrite \notin Write

Image == [last : Nat, facts : SUBSET Write, base : BOOLEAN, layered : BOOLEAN]

VARIABLES
    walFile,    \* the sidecar: absent, short of its 32-byte header, or ready
    walLog,     \* its entries after the header, torn ones included
    walSynced,  \* how many of them an fsync has covered
    image,      \* what page 0 says to a reader of the file
    stable,     \* what page 0 says after a power loss
    pc,         \* the step of the handle that holds the write lock
    caller,     \* who runs the checkpoint: execute, checkpoint, drop, pfsdrop
    cur,        \* the write being executed
    counter,    \* FactStorage::tx_counter
    pending,    \* facts in the pending overlay
    committed,  \* facts behind the committed readers
    walOpen,    \* WriteContext::File { wal: Some(_) }
    walCount,   \* WriteContext::File { wal_entry_count }
    dirty,      \* PersistentFactStorage::dirty
    layered,    \* a delta manifest is selected in memory
    policy,     \* CheckpointPolicy of the open handle
    nextId,     \* history: identity of the next write
    acked,      \* history: writes whose call returned Ok
    exposed,    \* history: writes acknowledged behind torn bytes in the WAL
    rejected    \* history: writes whose WAL append returned an error

disk == <<walFile, walLog, walSynced, image, stable>>
memory == <<counter, pending, committed, walOpen, walCount, dirty, layered,
            policy>>
history == <<nextId, acked, exposed, rejected>>
vars == <<disk, memory, history, pc, caller, cur>>

(* Mutant of Visible: the committed readers are forgotten. *)
VisiblePendingOnly == pending

Visible == committed \cup pending
FactsOf(w) == IF w.empty THEN {} ELSE {w}

(* WalReader::visit_entries: entries up to the first that fails its CRC32. *)
Readable(log) == {i \in DOMAIN log : \A j \in 1..i : log[j] # Torn}

(* Mutant of ReplayedAt: the skip is dropped. *)
ReplayedAtAll(log, last) == Readable(log)

(* replay_wal skips the entries page 0 already covers. *)
ReplayedAt(log, last) == {i \in Readable(log) : log[i].tx > last}
Replayed(log, last) == UNION {FactsOf(log[i]) : i \in ReplayedAt(log, last)}

(* What a reader of the database sees if it is opened now. *)
Recovered == image.facts \cup Replayed(walLog, image.last)

EmptyImage == [last |-> 0, facts |-> {}, base |-> FALSE, layered |-> FALSE]

NoProcess ==
    /\ pc' = "closed" /\ caller' = "none" /\ cur' = NoWrite
    /\ counter' = 0 /\ pending' = {} /\ committed' = {}
    /\ walOpen' = FALSE /\ walCount' = 0 /\ dirty' = FALSE /\ layered' = FALSE
    /\ policy' = "automatic"

Init ==
    /\ walFile = "absent" /\ walLog = <<>> /\ walSynced = 0
    /\ image = EmptyImage /\ stable = EmptyImage
    /\ pc = "closed" /\ caller = "none" /\ cur = NoWrite
    /\ counter = 0 /\ pending = {} /\ committed = {}
    /\ walOpen = FALSE /\ walCount = 0 /\ dirty = FALSE /\ layered = FALSE
    /\ policy = "automatic"
    /\ nextId = 1 /\ acked = {} /\ exposed = {} /\ rejected = {}

-----------------------------------------------------------------------------
(* Opening: load page 0, replay the WAL, reopen its writer at the end.     *)

(* Mutants of RestoredCounter: the maximum over the replayed facts alone;  *)
(* page 0 alone.                                                           *)
RestoredCounterNoFloor(facts, last) ==
    {n \in {0} \cup {w.tx : w \in facts} : \A w \in facts : n >= w.tx}
RestoredCounterPage0(facts, last) == {last}

(* restore_tx_counter: the greatest replayed number, and never one below   *)
(* last_checkpointed (a set with one member).                              *)
RestoredCounter(facts, last) ==
    {n \in {last} \cup {w.tx : w \in facts} :
        n >= last /\ \A w \in facts : n >= w.tx}

OpenDb ==
    /\ pc = "closed"
    /\ \E p \in {"automatic", "explicit"} : policy' = p
    /\ committed' = image.facts
    /\ pending' = Replayed(walLog, image.last)
    /\ counter' \in RestoredCounter(pending', image.last)
    /\ walCount' = Cardinality(ReplayedAt(walLog, image.last))
    /\ walOpen' = (walFile # "absent")
    /\ walFile' = IF walFile = "short" THEN "ready" ELSE walFile
    /\ layered' = image.layered
    /\ dirty' = FALSE
    /\ pc' = "idle"
    /\ UNCHANGED <<walLog, walSynced, image, stable, caller, cur, history>>

-----------------------------------------------------------------------------
(* execute and WriteTransaction::commit.                                   *)

(* allocate_tx_count and stamp; an empty batch is legal for execute. *)
Execute(empty) ==
    /\ pc = "idle" /\ nextId <= MaxWrites
    /\ counter' = counter + 1
    /\ cur' = [id |-> nextId, tx |-> counter + 1, empty |-> empty]
    /\ nextId' = nextId + 1
    /\ caller' = "execute" /\ pc' = "wal"
    /\ UNCHANGED <<disk, pending, committed, walOpen, walCount, dirty, layered,
                   policy, acked, exposed, rejected>>

(* Mutant of Reject: the error is recorded but the facts are applied. *)
RejectThenApply ==
    /\ rejected' = rejected \cup {cur}
    /\ pc' = "apply"
    /\ UNCHANGED <<caller, cur, nextId, acked, exposed>>

Reject ==
    /\ rejected' = rejected \cup {cur}
    /\ pc' = "idle" /\ caller' = "none" /\ cur' = NoWrite
    /\ UNCHANGED <<nextId, acked, exposed>>

(* WalWriter::open_or_create, called when no writer is open. *)
CreateWal ==
    /\ pc = "wal" /\ ~walOpen /\ walFile \in {"absent", "short"}
    /\ walFile' = "short" /\ pc' = "header"
    /\ UNCHANGED <<walLog, walSynced, image, stable, memory, history, caller, cur>>

ReuseWal ==
    /\ pc = "wal" /\ ~walOpen /\ walFile = "ready"
    /\ walOpen' = TRUE
    /\ UNCHANGED <<disk, history, pc, caller, cur, counter, pending, committed,
                   walCount, dirty, layered, policy>>

WriteWalHeader ==
    /\ pc = "header"
    /\ walFile' = "ready" /\ walOpen' = TRUE /\ pc' = "wal"
    /\ UNCHANGED <<walLog, walSynced, image, stable, history, caller, cur, counter,
                   pending, committed, walCount, dirty, layered, policy>>

WalHeaderFails ==
    /\ pc = "header"
    /\ \E f \in {"short", "ready"} : walFile' = f
    /\ Reject
    /\ UNCHANGED <<walLog, walSynced, image, stable, memory>>

(* append_entry: write_all, then sync_all. *)
AppendEntry ==
    /\ pc = "wal" /\ walOpen
    /\ walLog' = Append(walLog, cur) /\ pc' = "sync"
    /\ UNCHANGED <<walFile, walSynced, image, stable, memory, history, caller, cur>>

(* The fact is too large, or the write fails with none or some bytes out. *)
AppendFails ==
    /\ pc = "wal"
    /\ \/ walLog' = walLog
       \/ walOpen /\ walLog' = Append(walLog, Torn)
    /\ Reject
    /\ UNCHANGED <<walFile, walSynced, image, stable, memory>>

SyncEntry ==
    /\ pc = "sync"
    /\ walSynced' = Len(walLog)
    /\ dirty' = TRUE /\ walCount' = walCount + 1
    /\ pc' = "apply"
    /\ UNCHANGED <<walFile, walLog, image, stable, history, caller, cur, counter,
                   pending, committed, walOpen, layered, policy>>

SyncEntryFails ==
    /\ pc = "sync"
    /\ Reject
    /\ UNCHANGED <<disk, memory>>

(* The call returns Ok to its caller, with `log` in the sidecar. *)
Acknowledge(log) ==
    /\ acked' = acked \cup {cur}
    /\ exposed' = IF \E i \in DOMAIN log : log[i] = Torn
                  THEN exposed \cup {cur} ELSE exposed
    /\ UNCHANGED <<nextId, rejected>>

(* load_fact for each fact, then checkpoint when the threshold is reached. *)
ApplyFacts ==
    /\ pc = "apply"
    /\ pending' = pending \cup FactsOf(cur)
    /\ IF policy = "automatic" /\ walCount >= Threshold
       THEN pc' = "save" /\ UNCHANGED <<history, caller, cur>>
       ELSE /\ Acknowledge(walLog)
            /\ pc' = "idle" /\ caller' = "none" /\ cur' = NoWrite
    /\ UNCHANGED <<disk, counter, committed, walOpen, walCount, dirty, layered,
                   policy>>

-----------------------------------------------------------------------------
(* checkpoint, drop and do_checkpoint.                                     *)

NothingToFlush == walCount = 0 /\ ~dirty

(* do_checkpoint with something to flush: force_dirty, then save. *)
Checkpoint ==
    /\ pc = "idle" /\ ~NothingToFlush
    /\ dirty' = TRUE /\ caller' = "checkpoint" /\ pc' = "save"
    /\ UNCHANGED <<disk, history, cur, counter, pending, committed, walOpen,
                   walCount, layered, policy>>

(* Drop for Inner: explicit-maintenance handles leave the WAL alone. *)
DropHandle ==
    /\ pc = "idle"
    /\ IF policy = "explicit" \/ NothingToFlush
       THEN NoProcess
       ELSE /\ dirty' = TRUE /\ caller' = "drop" /\ pc' = "save"
            /\ UNCHANGED <<cur, counter, pending, committed, walOpen, walCount,
                           layered, policy>>
    /\ UNCHANGED <<disk, history>>

(* An error leaves save or the WAL retirement: `drop` swallows it and the  *)
(* storage's own Drop saves once more if it is still dirty.                *)
AbortCheckpoint ==
    /\ IF caller = "drop" /\ dirty
       THEN caller' = "pfsdrop" /\ pc' = "save" /\ UNCHANGED <<cur, memory>>
       ELSE IF caller \in {"drop", "pfsdrop"}
       THEN NoProcess
       ELSE /\ pc' = "idle" /\ caller' = "none" /\ cur' = NoWrite
            /\ UNCHANGED memory
    /\ UNCHANGED history

(* DeltaManifest::validate: the base in page 0 already covers a pending    *)
(* transaction.  Only after page 0 was written and its sync failed.        *)
DeltaRefused ==
    ~layered /\ image.base /\ \E w \in pending : w.tx <= image.last

SaveRefused ==
    /\ pc = "save" /\ DeltaRefused
    /\ AbortCheckpoint
    /\ UNCHANGED disk

(* An I/O error before page 0 is written. *)
SaveFails ==
    /\ pc = "save"
    /\ stable' \in {stable, image}
    /\ AbortCheckpoint
    /\ UNCHANGED <<walFile, walLog, walSynced, image>>

(* Data pages written and synced, page 0 written: a delta segment when a   *)
(* base exists and facts are pending, else a full base.                    *)
PublishPage0 ==
    /\ pc = "save" /\ ~DeltaRefused
    /\ stable' = image
    /\ image' = [last |-> counter, facts |-> Visible, base |-> TRUE,
                 layered |-> image.base /\ pending # {}]
    /\ pc' = "publish"
    /\ UNCHANGED <<walFile, walLog, walSynced, memory, history, caller, cur>>

PublishSyncFails ==
    /\ pc = "publish"
    /\ AbortCheckpoint
    /\ UNCHANGED disk

(* Page 0 is durable: swap the committed readers and clear pending. *)
PublishSynced ==
    /\ pc = "publish"
    /\ stable' = image
    /\ IF caller = "pfsdrop"
       THEN NoProcess
       ELSE /\ committed' = image.facts /\ pending' = {}
            /\ layered' = image.layered /\ dirty' = FALSE
            /\ pc' = "retire"
            /\ UNCHANGED <<caller, cur, counter, walOpen, walCount, policy>>
    /\ UNCHANGED <<walFile, walLog, walSynced, image, history>>

(* The writer is dropped, the sidecar deleted, the entry count reset. *)
RetireWal ==
    /\ pc = "retire"
    /\ walFile' = "absent" /\ walLog' = <<>> /\ walSynced' = 0
    /\ IF caller = "drop"
       THEN NoProcess
       ELSE /\ walOpen' = FALSE /\ walCount' = 0
            /\ pc' = "idle" /\ caller' = "none" /\ cur' = NoWrite
            /\ UNCHANGED <<counter, pending, committed, dirty, layered, policy>>
    /\ IF caller = "execute" THEN Acknowledge(<<>>) ELSE UNCHANGED history
    /\ UNCHANGED <<image, stable>>

RetireFails ==
    /\ pc = "retire"
    /\ IF caller = "drop"
       THEN NoProcess
       ELSE /\ walOpen' = FALSE
            /\ pc' = "idle" /\ caller' = "none" /\ cur' = NoWrite
            /\ UNCHANGED <<counter, pending, committed, walCount, dirty, layered,
                           policy>>
    /\ UNCHANGED <<disk, history>>

-----------------------------------------------------------------------------
(* The environment.                                                        *)

(* kill -9: memory is lost, what reached the file stays, and an append     *)
(* under way may leave some of its bytes.                                  *)
Kill ==
    /\ pc # "closed"
    /\ \/ walLog' = walLog
       \/ pc = "wal" /\ walOpen /\ walLog' = Append(walLog, Torn)
    /\ NoProcess
    /\ UNCHANGED <<walFile, walSynced, image, stable, history>>

(* Power loss: what no fsync covered is kept, torn or lost. *)
PowerLoss ==
    /\ \E k \in walSynced..Len(walLog) :
          \/ walLog' = SubSeq(walLog, 1, k)
          \/ k < Len(walLog) /\ walLog' = Append(SubSeq(walLog, 1, k), Torn)
    /\ walSynced' = Len(walLog')
    /\ image' \in {image, stable} /\ stable' = image'
    /\ walFile' \in {walFile} \cup (IF walFile = "short" THEN {"absent"} ELSE {})
    /\ NoProcess
    /\ UNCHANGED history

Step ==
    \/ \E empty \in BOOLEAN : Execute(empty)
    \/ CreateWal \/ ReuseWal \/ WriteWalHeader \/ WalHeaderFails
    \/ AppendEntry \/ AppendFails \/ SyncEntry \/ SyncEntryFails \/ ApplyFacts
    \/ Checkpoint \/ DropHandle \/ SaveRefused \/ SaveFails \/ PublishPage0
    \/ PublishSyncFails \/ PublishSynced \/ RetireWal \/ RetireFails

Next == OpenDb \/ Step \/ Kill \/ PowerLoss

Spec == Init /\ [][Next]_vars

-----------------------------------------------------------------------------
(* Properties.                                                             *)

(* Every variable keeps the shape its Rust type gives it. *)
TypeOK ==
    /\ walFile \in {"absent", "short", "ready"}
    /\ walLog \in Seq(Write \cup {Torn})
    /\ walSynced \in 0..Len(walLog)
    /\ image \in Image /\ stable \in Image
    /\ pc \in {"closed", "idle", "wal", "header", "sync", "apply", "save",
               "publish", "retire"}
    /\ caller \in {"none", "execute", "checkpoint", "drop", "pfsdrop"}
    /\ cur \in Write \cup {NoWrite}
    /\ counter \in Nat /\ walCount \in Nat
    /\ pending \subseteq Write /\ committed \subseteq Write
    /\ walOpen \in BOOLEAN /\ dirty \in BOOLEAN /\ layered \in BOOLEAN
    /\ policy \in {"automatic", "explicit"}
    /\ nextId \in 1..(MaxWrites + 1)
    /\ acked \subseteq Write /\ exposed \subseteq acked /\ rejected \subseteq Write

(* A write is held by an image, or by the fsynced and readable part of the *)
(* WAL above the image's watermark, so that replay does not skip it.       *)
HeldBy(w, img) ==
    \/ w \in img.facts
    \/ \E i \in 1..walSynced : /\ walLog[i] = w
                               /\ w.tx > img.last
                               /\ \A j \in 1..i : walLog[j] # Torn

(* Durability of acknowledged writes: once execute or commit returned Ok   *)
(* with a readable WAL behind it, the facts are held whichever of the two  *)
(* page-0 versions survives, through every failed, repeated or interrupted *)
(* checkpoint, WAL retirement, kill and power loss (db.rs: WAL append      *)
(* first, do_checkpoint retires the WAL only after save).                  *)
AckedDurable ==
    \A w \in acked \ exposed :
        ~w.empty => HeldBy(w, image) /\ HeldBy(w, stable)

(* Replay after a crash between publishing page 0 and deleting the WAL     *)
(* never loads a fact the image already holds (replay_wal's skip).         *)
NoDoubleReplay == image.facts \cap Replayed(walLog, image.last) = {}

(* Two transactions that are visible together, or after reopening, never   *)
(* carry the same tx_count: failed appends burn numbers, replay restores   *)
(* the counter, and last_checkpointed bounds it from below.                *)
UniqueTxCounts ==
    /\ \A v, w \in Visible : v.tx = w.tx => v = w
    /\ \A v, w \in Recovered : v.tx = w.tx => v = w

(* What an open handle shows never shrinks: not by applying a batch, and   *)
(* not by the checkpoint that moves pending facts behind the committed     *)
(* readers, whether it succeeds or fails half-way.                         *)
VisibleOnlyGrows ==
    [][pc # "closed" /\ pc' # "closed" => Visible \subseteq Visible']_vars

(* A write whose WAL append failed is not visible in the process that was  *)
(* told so; only opening the database again may find it in the WAL.        *)
RejectedStaysHidden ==
    [][pc # "closed" => \A w \in rejected : w \in Visible' => w \in Visible]_vars

(* The WAL is deleted only when page 0 durably holds everything the handle *)
(* shows (do_checkpoint: save()? precedes delete_file).                    *)
RetiredOnlyWhenPublished ==
    [][walFile = "ready" /\ walFile' = "absent"
         => Visible \subseteq stable'.facts /\ stable' = image']_vars

(* The documented promise: every acknowledged write is seen when the       *)
(* database is opened again.                                               *)
AckedRecovered == \A w \in acked : ~w.empty => w \in Recovered
=============================================================================
