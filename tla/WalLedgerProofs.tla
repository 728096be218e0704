--------------------------- MODULE WalLedgerProofs ---------------------------
(***************************************************************************)
(* Proofs about WalLedger: the safety properties the TLC runs check on a   *)
(* small instance hold for every MaxWrites and every Threshold.            *)
(***************************************************************************)
EXTENDS WalLedgerImage, FiniteSetTheorems, TLAPS

(* The write lock is held by execute, before its facts are visible. *)
Executing == {"wal", "header", "sync", "apply"}

(* Transaction numbers are handed out no faster than writes begin. *)
TxBounded ==
    /\ counter < nextId /\ image.last < nextId /\ stable.last < nextId
    /\ \A i \in DOMAIN walLog : walLog[i] # Torn => walLog[i].tx < nextId

(* An image's watermark covers its facts; the counter covers everything   *)
(* that is visible or that page 0 claims.                                  *)
Watermarks ==
    /\ \A w \in image.facts : w.tx <= image.last
    /\ \A w \in stable.facts : w.tx <= stable.last
    /\ stable.last <= image.last
    /\ pc # "closed" => image.last <= counter
    /\ pc # "closed" => \A w \in Visible : w.tx <= counter

(* What the lock holder has done so far. *)
LockHolder ==
    /\ pc \in Executing =>
          /\ cur \in Write /\ caller = "execute" /\ cur.tx = counter
          /\ image.last < counter
          /\ \A w \in Visible : w.tx < counter
    /\ pc \in {"sync", "apply"} => Len(walLog) > 0 /\ walLog[Len(walLog)] = cur
    /\ pc = "apply" => walSynced = Len(walLog)
    /\ pc \in {"save", "publish", "retire"} /\ caller = "execute" =>
          cur \in Write /\ FactsOf(cur) \subseteq Visible
    /\ pc \in {"closed", "idle"} => caller = "none"
    /\ pc = "closed" => Visible = {}
    /\ pc \in {"save", "publish", "retire"} => caller # "none"
    /\ pc = "publish" => image.facts = Visible /\ image.last = counter
    /\ pc = "retire" => image = stable /\ committed = image.facts /\ pending = {}

(* Acknowledged writes stay visible while the handle is open. *)
AckedVisible ==
    pc # "closed" => \A w \in acked \ exposed : ~w.empty => w \in Visible

(* Write identities are fresh. *)
FreshIds ==
    /\ \A w \in rejected : w.id < nextId
    /\ pc \in Executing => cur.id < nextId /\ \A w \in rejected : w.id < cur.id

(* One transaction per tx_count: in what is visible, in each image, and in *)
(* the readable part of the WAL.                                           *)
LogEntry(i) == i \in Readable(walLog) /\ ~walLog[i].empty
TxUnique ==
    /\ pc # "closed" => \A v, w \in Visible : v.tx = w.tx => v = w
    /\ \A v, w \in image.facts : v.tx = w.tx => v = w
    /\ \A v, w \in stable.facts : v.tx = w.tx => v = w
    /\ \A i, j \in DOMAIN walLog :
          LogEntry(i) /\ LogEntry(j) /\ walLog[i].tx = walLog[j].tx => i = j
    /\ pc # "closed" =>
          \A i \in DOMAIN walLog : LogEntry(i) => walLog[i].tx <= counter
    /\ pc \in {"wal", "header"} =>
          \A i \in DOMAIN walLog : LogEntry(i) => walLog[i].tx < counter

IInv ==
    /\ TypeOK /\ TxBounded /\ Watermarks /\ LockHolder
    /\ AckedDurable /\ AckedVisible /\ FreshIds /\ TxUnique

-----------------------------------------------------------------------------


(* An append keeps the entries before it. *)
LEMMA AppendKeeps ==
    ASSUME NEW S, NEW log \in Seq(S), NEW e \in S
    PROVE  /\ Append(log, e) \in Seq(S)
           /\ Len(Append(log, e)) = Len(log) + 1
           /\ \A i \in 1..Len(log) : Append(log, e)[i] = log[i]
           /\ Append(log, e)[Len(log) + 1] = e
  OBVIOUS

(* A power loss keeps a prefix of the log, at least the fsynced part, with *)
(* nothing readable after it.                                              *)
LEMMA PowerLossKeeps ==
    ASSUME TypeOK, PowerLoss
    PROVE  \E k \in walSynced..Len(walLog) :
              /\ walLog' \in Seq(Write \cup {Torn})
              /\ k <= Len(walLog') /\ Len(walLog') <= k + 1
              /\ \A i \in 1..k : walLog'[i] = walLog[i]
              /\ \A i \in (k + 1)..Len(walLog') : walLog'[i] = Torn
<1> USE DEF TypeOK
<1>1. PICK k \in walSynced..Len(walLog) :
          \/ walLog' = SubSeq(walLog, 1, k)
          \/ k < Len(walLog) /\ walLog' = Append(SubSeq(walLog, 1, k), Torn)
  BY DEF PowerLoss
<1> DEFINE pre == SubSeq(walLog, 1, k)
<1>2. /\ pre \in Seq(Write \cup {Torn}) /\ Len(pre) = k
      /\ \A i \in 1..k : pre[i] = walLog[i]
  OBVIOUS
<1>3. CASE walLog' = pre
  BY <1>2, <1>3
<1>4. CASE walLog' = Append(pre, Torn)
  <2> HIDE DEF pre
  <2>1. /\ walLog' \in Seq(Write \cup {Torn}) /\ Len(walLog') = k + 1
        /\ \A i \in 1..k : walLog'[i] = pre[i]
        /\ walLog'[k + 1] = Torn
    BY <1>2, <1>4, AppendKeeps
  <2> QED
    BY <1>2, <2>1
<1> QED
  BY <1>1, <1>3, <1>4

(* Facts replayed from the log are writes found in its readable part. *)
LEMMA ReplayedFromLog ==
    ASSUME TypeOK, NEW last \in Nat
    PROVE  /\ Replayed(walLog, last) \subseteq Write
           /\ \A w \in Replayed(walLog, last) :
                 \E i \in Readable(walLog) :
                    walLog[i] = w /\ ~w.empty /\ w.tx > last
           /\ \A i \in Readable(walLog) :
                 ~walLog[i].empty /\ walLog[i].tx > last
                     => walLog[i] \in Replayed(walLog, last)
           /\ \A i \in Readable(walLog) : walLog[i] \in Write
           /\ Cardinality(ReplayedAt(walLog, last)) \in Nat
<1>1. \A i \in Readable(walLog) : i \in 1..Len(walLog) /\ walLog[i] \in Write
  BY DEF TypeOK, Readable
<1>2. IsFiniteSet(1..Len(walLog))
  BY FS_Interval DEF TypeOK
<1>3. ReplayedAt(walLog, last) \subseteq 1..Len(walLog)
  BY <1>1 DEF ReplayedAt
<1>4. Cardinality(ReplayedAt(walLog, last)) \in Nat
  BY <1>2, <1>3, FS_Subset, FS_CardinalityType
<1> QED
  BY <1>1, <1>4 DEF Replayed, ReplayedAt, FactsOf


(* The types of what lives in the process. *)
ProcessTypes ==
    /\ pc \in {"closed", "idle", "wal", "header", "sync", "apply", "save",
               "publish", "retire"}
    /\ caller \in {"none", "execute", "checkpoint", "drop", "pfsdrop"}
    /\ cur \in Write \cup {NoWrite}
    /\ counter \in Nat /\ walCount \in Nat
    /\ pending \subseteq Write /\ committed \subseteq Write
    /\ walOpen \in BOOLEAN /\ dirty \in BOOLEAN /\ layered \in BOOLEAN
    /\ policy \in {"automatic", "explicit"}

(* A process that ends leaves well-typed (reset) memory. *)
LEMMA NoProcessTypes == NoProcess => ProcessTypes'
<1> SUFFICES ASSUME NoProcess PROVE ProcessTypes'
  OBVIOUS
<1>1. walOpen' \in BOOLEAN
  BY Zenon DEF NoProcess
<1>2. dirty' \in BOOLEAN
  BY Zenon DEF NoProcess
<1>3. layered' \in BOOLEAN
  BY Zenon DEF NoProcess
<1>4. /\ pc' = "closed" /\ caller' = "none" /\ cur' = NoWrite
      /\ counter' = 0 /\ pending' = {} /\ committed' = {}
      /\ walCount' = 0 /\ policy' = "automatic"
  BY DEF NoProcess
<1> QED
  BY <1>1, <1>2, <1>3, <1>4 DEF ProcessTypes

(* Every step keeps the types. *)
LEMMA TypeStep ==
    ASSUME IInv, Next
    PROVE  TypeOK'
<1> USE DEF IInv, TypeOK, disk, memory, history
<1>1. CASE OpenDb
  <2>1. pending' \subseteq Write /\ walCount' \in Nat /\ image.last \in Nat
    BY <1>1, ReplayedFromLog DEF OpenDb, Image
  <2>3. counter' \in Nat
    BY <1>1, <2>1 DEF OpenDb, RestoredCounter, Write
  <2>2. walOpen' \in BOOLEAN /\ layered' \in BOOLEAN /\ dirty' \in BOOLEAN
    BY <1>1, Zenon DEF OpenDb, Image
  <2> QED
    BY <1>1, <2>1, <2>2, <2>3 DEF OpenDb, Image
<1>2. ASSUME NEW empty \in BOOLEAN, Execute(empty) PROVE TypeOK'
  BY <1>2, BoundsAssumption DEF Execute, Write
<1>3. CASE CreateWal
  BY <1>3 DEF CreateWal
<1>4. CASE ReuseWal
  BY <1>4 DEF ReuseWal
<1>5. CASE WriteWalHeader
  BY <1>5 DEF WriteWalHeader
<1>6. CASE WalHeaderFails
  BY <1>6 DEF WalHeaderFails, Reject, LockHolder, Executing
<1>7. CASE AppendEntry
  BY <1>7 DEF AppendEntry, LockHolder, Executing
<1>8. CASE AppendFails
  BY <1>8 DEF AppendFails, Reject, LockHolder, Executing
<1>9. CASE SyncEntry
  BY <1>9 DEF SyncEntry
<1>10. CASE SyncEntryFails
  BY <1>10 DEF SyncEntryFails, Reject, LockHolder, Executing
<1>11. CASE ApplyFacts
  BY <1>11 DEF ApplyFacts, Acknowledge, FactsOf, LockHolder, Executing
<1>12. CASE Checkpoint
  BY <1>12 DEF Checkpoint
<1>13. CASE DropHandle
  BY <1>13, NoProcessTypes, Zenon DEF DropHandle, ProcessTypes
<1>14. CASE SaveRefused
  BY <1>14, NoProcessTypes DEF SaveRefused, AbortCheckpoint, ProcessTypes
<1>15. CASE SaveFails
  BY <1>15, NoProcessTypes DEF SaveFails, AbortCheckpoint, ProcessTypes
<1>16. CASE PublishPage0
  BY <1>16 DEF PublishPage0, Image, Visible
<1>17. CASE PublishSyncFails
  BY <1>17, NoProcessTypes DEF PublishSyncFails, AbortCheckpoint, ProcessTypes
<1>18. CASE PublishSynced
  BY <1>18, NoProcessTypes, Zenon DEF PublishSynced, ProcessTypes, Image
<1>19. CASE RetireWal
  <2>1. ProcessTypes'
    <3>1. CASE caller = "drop"
      BY <1>19, <3>1, NoProcessTypes DEF RetireWal
    <3>2. CASE caller # "drop"
      <4>1. walOpen' \in BOOLEAN
        BY <1>19, <3>2, Zenon DEF RetireWal
      <4>2. pc' = "idle" /\ caller' = "none" /\ cur' = NoWrite /\ walCount' = 0
        BY <1>19, <3>2 DEF RetireWal
      <4>3. UNCHANGED <<counter, pending, committed, dirty, layered, policy>>
        BY <1>19, <3>2 DEF RetireWal
      <4> QED
        BY <4>1, <4>2, <4>3 DEF ProcessTypes
    <3> QED
      BY <3>1, <3>2
  <2>2. acked' \subseteq Write /\ exposed' \subseteq acked' /\ rejected' \subseteq Write
    BY <1>19 DEF RetireWal, Acknowledge, LockHolder
  <2>3. nextId' \in 1..(MaxWrites + 1)
    BY <1>19 DEF RetireWal, Acknowledge
  <2> QED
    BY <1>19, <2>1, <2>2, <2>3 DEF RetireWal, ProcessTypes
<1>20. CASE RetireFails
  BY <1>20, NoProcessTypes, Zenon DEF RetireFails, ProcessTypes
<1>21. CASE Kill
  BY <1>21, NoProcessTypes DEF Kill, ProcessTypes
<1>22. CASE PowerLoss
  <2>1. walLog' \in Seq(Write \cup {Torn})
    BY <1>22, PowerLossKeeps
  <2>2. ProcessTypes'
    BY <1>22, NoProcessTypes DEF PowerLoss
  <2> QED
    BY <1>22, <2>1, <2>2 DEF PowerLoss, ProcessTypes
<1> QED
  BY <1>1, <1>2, <1>3, <1>4, <1>5, <1>6, <1>7, <1>8, <1>9, <1>10, <1>11, Zenon,
     <1>12, <1>13, <1>14, <1>15, <1>16, <1>17, <1>18, <1>19, <1>20, <1>21,
     <1>22 DEF Next, Step



(* An append cut short keeps the log and adds nothing readable. *)
LEMMA TornAppendKeeps ==
    ASSUME TypeOK, walLog' = walLog \/ walLog' = Append(walLog, Torn)
    PROVE  /\ walLog' \in Seq(Write \cup {Torn})
           /\ Len(walLog') >= Len(walLog)
           /\ \A i \in 1..Len(walLog) : walLog'[i] = walLog[i]
           /\ \A i \in (Len(walLog) + 1)..Len(walLog') : walLog'[i] = Torn
<1>1. CASE walLog' = walLog
  BY <1>1 DEF TypeOK
<1>2. CASE walLog' = Append(walLog, Torn)
  BY SMTT(60), <1>2, AppendKeeps DEF TypeOK
<1> QED
  BY <1>1, <1>2

(* Numbers stay below the count of writes begun. *)
LEMMA TxBoundedStep ==
    ASSUME IInv, Next
    PROVE  TxBounded'
<1> USE DEF IInv, TypeOK, TxBounded, Image, disk, memory, history
<1>1. CASE OpenDb
  <2>1. /\ \A w \in pending' : w.tx < nextId
        /\ image.last < nextId
    <3>1. \A i \in Readable(walLog) : i \in DOMAIN walLog /\ walLog[i] # Torn
      BY DEF Readable
    <3>2. \A w \in pending' : \E i \in Readable(walLog) : walLog[i] = w
      BY <1>1, ReplayedFromLog DEF OpenDb
    <3> QED
      BY <3>1, <3>2
  <2>2. counter' < nextId
    BY <1>1, <2>1 DEF OpenDb, RestoredCounter
  <2> QED
    BY <1>1, <2>2 DEF OpenDb
<1>2. ASSUME NEW empty \in BOOLEAN, Execute(empty) PROVE TxBounded'
  BY <1>2 DEF Execute, Write
<1>3. CASE CreateWal
  BY <1>3 DEF CreateWal
<1>4. CASE ReuseWal
  BY <1>4 DEF ReuseWal
<1>5. CASE WriteWalHeader
  BY <1>5 DEF WriteWalHeader
<1>6. CASE WalHeaderFails
  BY <1>6 DEF WalHeaderFails, Reject
<1>7. CASE AppendEntry
  <2>1. cur \in Write /\ cur.tx < nextId
    BY <1>7 DEF AppendEntry, LockHolder, Executing
  <2>2. \A i \in DOMAIN walLog' : walLog'[i] # Torn => walLog'[i].tx < nextId
    BY <1>7, <2>1 DEF AppendEntry
  <2> QED
    BY <1>7, <2>2 DEF AppendEntry
<1>8. CASE AppendFails
  BY <1>8 DEF AppendFails, Reject
<1>9. CASE SyncEntry
  BY <1>9 DEF SyncEntry
<1>10. CASE SyncEntryFails
  BY <1>10 DEF SyncEntryFails, Reject
<1>11. CASE ApplyFacts
  BY <1>11 DEF ApplyFacts, Acknowledge, FactsOf
<1>12. CASE Checkpoint
  BY <1>12 DEF Checkpoint
<1>13. CASE DropHandle
  BY <1>13 DEF DropHandle, NoProcess
<1>14. CASE SaveRefused
  BY <1>14 DEF SaveRefused, AbortCheckpoint, NoProcess
<1>15. CASE SaveFails
  BY <1>15 DEF SaveFails, AbortCheckpoint, NoProcess
<1>16. CASE PublishPage0
  BY <1>16 DEF PublishPage0
<1>17. CASE PublishSyncFails
  BY <1>17 DEF PublishSyncFails, AbortCheckpoint, NoProcess
<1>18. CASE PublishSynced
  BY <1>18 DEF PublishSynced, NoProcess
<1>19. CASE RetireWal
  BY <1>19 DEF RetireWal, NoProcess, Acknowledge
<1>20. CASE RetireFails
  BY <1>20 DEF RetireFails, NoProcess
<1>21. CASE Kill
  BY <1>21 DEF Kill, NoProcess
<1>22. CASE PowerLoss
  <2>1. \A i \in DOMAIN walLog' : walLog'[i] # Torn => walLog'[i].tx < nextId
    BY <1>22, PowerLossKeeps
  <2> QED
    BY <1>22, <2>1 DEF PowerLoss, NoProcess
<1> QED
  BY <1>1, <1>2, <1>3, <1>4, <1>5, <1>6, <1>7, <1>8, <1>9, <1>10, <1>11,
     <1>12, <1>13, <1>14, <1>15, <1>16, <1>17, <1>18, <1>19, <1>20, <1>21,
     <1>22 DEF Next, Step

(* Watermarks and the counter keep covering what they cover. *)
LEMMA WatermarksStep ==
    ASSUME IInv, Next
    PROVE  Watermarks'
<1> USE DEF IInv, TypeOK, Watermarks, LockHolder, Visible, Executing, Image, disk, memory, history
<1>1. CASE OpenDb
  <2>1. /\ counter' >= image.last
        /\ \A w \in pending' : counter' >= w.tx
    BY <1>1 DEF OpenDb, RestoredCounter
  <2>2. pending' \subseteq Write /\ counter' \in Nat
    BY TypeStep
  <2> QED
    BY <1>1, <2>1, <2>2 DEF OpenDb, Write
<1>2. ASSUME NEW empty \in BOOLEAN, Execute(empty) PROVE Watermarks'
  BY <1>2 DEF Execute, Write
<1>3. CASE CreateWal
  BY <1>3 DEF CreateWal, Write
<1>4. CASE ReuseWal
  BY <1>4 DEF ReuseWal, Write
<1>5. CASE WriteWalHeader
  BY <1>5 DEF WriteWalHeader, Write
<1>6. CASE WalHeaderFails
  BY <1>6 DEF WalHeaderFails, Reject, Write
<1>7. CASE AppendEntry
  BY <1>7 DEF AppendEntry, Write
<1>8. CASE AppendFails
  BY <1>8 DEF AppendFails, Reject, Write
<1>9. CASE SyncEntry
  BY <1>9 DEF SyncEntry, Write
<1>10. CASE SyncEntryFails
  BY <1>10 DEF SyncEntryFails, Reject, Write
<1>11. CASE ApplyFacts
  BY <1>11 DEF ApplyFacts, Acknowledge, FactsOf, Write
<1>12. CASE Checkpoint
  BY <1>12 DEF Checkpoint, Write
<1>13. CASE DropHandle
  BY <1>13 DEF DropHandle, NoProcess, Write
<1>14. CASE SaveRefused
  BY <1>14 DEF SaveRefused, AbortCheckpoint, NoProcess, Write
<1>15. CASE SaveFails
  BY <1>15, SMTT(60) DEF SaveFails, AbortCheckpoint, NoProcess, Write
<1>16. CASE PublishPage0
  BY <1>16 DEF PublishPage0, Write
<1>17. CASE PublishSyncFails
  BY <1>17 DEF PublishSyncFails, AbortCheckpoint, NoProcess, Write
<1>18. CASE PublishSynced
  BY <1>18 DEF PublishSynced, NoProcess, Write
<1>19. CASE RetireWal
  BY <1>19 DEF RetireWal, NoProcess, Acknowledge, Write
<1>20. CASE RetireFails
  BY <1>20 DEF RetireFails, NoProcess, Write
<1>21. CASE Kill
  BY <1>21 DEF Kill, NoProcess, Write
<1>22. CASE PowerLoss
  BY <1>22 DEF PowerLoss, NoProcess, Write
<1> QED
  BY <1>1, <1>2, <1>3, <1>4, <1>5, <1>6, <1>7, <1>8, <1>9, <1>10, <1>11, Zenon,
     <1>12, <1>13, <1>14, <1>15, <1>16, <1>17, <1>18, <1>19, <1>20, <1>21,
     <1>22 DEF Next, Step

(* The lock holder's bookkeeping. *)
LEMMA LockHolderStep ==
    ASSUME IInv, Next
    PROVE  LockHolder'
<1> USE DEF IInv, TypeOK, Watermarks, LockHolder, Visible, Executing, Image, disk, memory, history
<1>1. CASE OpenDb
  BY <1>1 DEF OpenDb, Write
<1>2. ASSUME NEW empty \in BOOLEAN, Execute(empty) PROVE LockHolder'
  BY <1>2 DEF Execute, Write
<1>3. CASE CreateWal
  BY <1>3 DEF CreateWal, Write
<1>4. CASE ReuseWal
  BY <1>4 DEF ReuseWal, Write
<1>5. CASE WriteWalHeader
  BY <1>5 DEF WriteWalHeader, Write
<1>6. CASE WalHeaderFails
  BY <1>6 DEF WalHeaderFails, Reject, Write
<1>7. CASE AppendEntry
  BY <1>7 DEF AppendEntry, Write
<1>8. CASE AppendFails
  BY <1>8 DEF AppendFails, Reject, Write
<1>9. CASE SyncEntry
  BY <1>9 DEF SyncEntry, Write
<1>10. CASE SyncEntryFails
  BY <1>10 DEF SyncEntryFails, Reject, Write
<1>11. CASE ApplyFacts
  BY <1>11 DEF ApplyFacts, Acknowledge, FactsOf, Write
<1>12. CASE Checkpoint
  BY <1>12 DEF Checkpoint, Write
<1>13. CASE DropHandle
  BY <1>13 DEF DropHandle, NoProcess, Write
<1>14. CASE SaveRefused
  BY <1>14 DEF SaveRefused, AbortCheckpoint, NoProcess, Write
<1>15. CASE SaveFails
  BY <1>15 DEF SaveFails, AbortCheckpoint, NoProcess, Write
<1>16. CASE PublishPage0
  BY <1>16 DEF PublishPage0, Write
<1>17. CASE PublishSyncFails
  BY <1>17 DEF PublishSyncFails, AbortCheckpoint, NoProcess, Write
<1>18. CASE PublishSynced
  BY <1>18 DEF PublishSynced, NoProcess, Write
<1>19. CASE RetireWal
  BY <1>19 DEF RetireWal, NoProcess, Acknowledge, Write
<1>20. CASE RetireFails
  BY <1>20 DEF RetireFails, NoProcess, Write
<1>21. CASE Kill
  BY <1>21 DEF Kill, NoProcess, Write
<1>22. CASE PowerLoss
  BY <1>22 DEF PowerLoss, NoProcess, Write
<1> QED
  BY <1>1, <1>2, <1>3, <1>4, <1>5, <1>6, <1>7, <1>8, <1>9, <1>10, <1>11, Zenon,
     <1>12, <1>13, <1>14, <1>15, <1>16, <1>17, <1>18, <1>19, <1>20, <1>21,
     <1>22 DEF Next, Step

(* Identities stay fresh. *)
LEMMA FreshIdsStep ==
    ASSUME IInv, Next
    PROVE  FreshIds'
<1> USE DEF IInv, TypeOK, FreshIds, LockHolder, Executing, disk, memory, history
<1>1. CASE OpenDb
  BY <1>1 DEF OpenDb, Write
<1>2. ASSUME NEW empty \in BOOLEAN, Execute(empty) PROVE FreshIds'
  BY <1>2 DEF Execute, Write
<1>3. CASE CreateWal
  BY <1>3 DEF CreateWal, Write
<1>4. CASE ReuseWal
  BY <1>4 DEF ReuseWal, Write
<1>5. CASE WriteWalHeader
  BY <1>5 DEF WriteWalHeader, Write
<1>6. CASE WalHeaderFails
  BY <1>6 DEF WalHeaderFails, Reject, Write
<1>7. CASE AppendEntry
  BY <1>7 DEF AppendEntry, Write
<1>8. CASE AppendFails
  BY <1>8 DEF AppendFails, Reject, Write
<1>9. CASE SyncEntry
  BY <1>9 DEF SyncEntry, Write
<1>10. CASE SyncEntryFails
  BY <1>10 DEF SyncEntryFails, Reject, Write
<1>11. CASE ApplyFacts
  BY <1>11 DEF ApplyFacts, Acknowledge, FactsOf, Write
<1>12. CASE Checkpoint
  BY <1>12 DEF Checkpoint, Write
<1>13. CASE DropHandle
  BY <1>13 DEF DropHandle, NoProcess, Write
<1>14. CASE SaveRefused
  BY <1>14 DEF SaveRefused, AbortCheckpoint, NoProcess, Write
<1>15. CASE SaveFails
  BY <1>15 DEF SaveFails, AbortCheckpoint, NoProcess, Write
<1>16. CASE PublishPage0
  BY <1>16 DEF PublishPage0, Write
<1>17. CASE PublishSyncFails
  BY SMTT(60), <1>17 DEF PublishSyncFails, AbortCheckpoint, NoProcess, Write
<1>18. CASE PublishSynced
  BY <1>18 DEF PublishSynced, NoProcess, Write
<1>19. CASE RetireWal
  BY <1>19 DEF RetireWal, NoProcess, Acknowledge, Write
<1>20. CASE RetireFails
  BY <1>20 DEF RetireFails, NoProcess, Write
<1>21. CASE Kill
  BY <1>21 DEF Kill, NoProcess, Write
<1>22. CASE PowerLoss
  BY <1>22 DEF PowerLoss, NoProcess, Write
<1> QED
  BY <1>1, <1>2, <1>3, <1>4, <1>5, <1>6, <1>7, <1>8, <1>9, <1>10, <1>11, Zenon,
     <1>12, <1>13, <1>14, <1>15, <1>16, <1>17, <1>18, <1>19, <1>20, <1>21,
     <1>22 DEF Next, Step

(* No step hides an acknowledged write from an open handle. *)
LEMMA AckedVisibleStep ==
    ASSUME IInv, Next
    PROVE  AckedVisible'
<1> USE DEF IInv, TypeOK, AckedVisible, LockHolder, Visible, Executing, disk, memory, history
<1>1. CASE OpenDb
  <2> SUFFICES ASSUME NEW w \in acked \ exposed, ~w.empty PROVE w \in Visible'
    BY SMTT(60), <1>1 DEF OpenDb
  <2>1. CASE w \in image.facts
    BY SMTT(60), <1>1, <2>1 DEF OpenDb
  <2>2. CASE w \notin image.facts
    <3>1. PICK i \in 1..walSynced : /\ walLog[i] = w /\ w.tx > image.last
                                 /\ \A j \in 1..i : walLog[j] # Torn
      BY <2>2 DEF AckedDurable, HeldBy
    <3>2. i \in Readable(walLog)
      BY <3>1 DEF Readable
    <3>3. w \in Replayed(walLog, image.last)
      BY <3>1, <3>2, ReplayedFromLog, Zenon DEF Image
    <3> QED
      BY <1>1, <3>3 DEF OpenDb
  <2> QED
    BY SMTT(60), <2>1, <2>2
<1>2. ASSUME NEW empty \in BOOLEAN, Execute(empty) PROVE AckedVisible'
  BY <1>2 DEF Execute, FactsOf
<1>3. CASE CreateWal
  BY <1>3 DEF CreateWal, FactsOf
<1>4. CASE ReuseWal
  BY <1>4 DEF ReuseWal, FactsOf
<1>5. CASE WriteWalHeader
  BY <1>5 DEF WriteWalHeader, FactsOf
<1>6. CASE WalHeaderFails
  BY SMTT(60), <1>6 DEF WalHeaderFails, Reject, FactsOf
<1>7. CASE AppendEntry
  BY <1>7 DEF AppendEntry, FactsOf
<1>8. CASE AppendFails
  BY <1>8 DEF AppendFails, Reject, FactsOf
<1>9. CASE SyncEntry
  BY <1>9 DEF SyncEntry, FactsOf
<1>10. CASE SyncEntryFails
  BY <1>10 DEF SyncEntryFails, Reject, FactsOf
<1>11. CASE ApplyFacts
  BY <1>11 DEF ApplyFacts, Acknowledge, FactsOf, FactsOf
<1>12. CASE Checkpoint
  BY <1>12 DEF Checkpoint, FactsOf
<1>13. CASE DropHandle
  BY <1>13 DEF DropHandle, NoProcess, FactsOf
<1>14. CASE SaveRefused
  BY SMTT(60), <1>14 DEF SaveRefused, AbortCheckpoint, NoProcess, FactsOf
<1>15. CASE SaveFails
  BY SMTT(60), <1>15 DEF SaveFails, AbortCheckpoint, NoProcess, FactsOf
<1>16. CASE PublishPage0
  BY SMTT(60), <1>16 DEF PublishPage0, FactsOf
<1>17. CASE PublishSyncFails
  BY <1>17 DEF PublishSyncFails, AbortCheckpoint, NoProcess, FactsOf
<1>18. CASE PublishSynced
  BY <1>18 DEF PublishSynced, NoProcess, FactsOf
<1>19. CASE RetireWal
  BY <1>19 DEF RetireWal, NoProcess, Acknowledge, FactsOf
<1>20. CASE RetireFails
  BY <1>20 DEF RetireFails, NoProcess, FactsOf
<1>21. CASE Kill
  BY SMTT(60), <1>21 DEF Kill, NoProcess, FactsOf
<1>22. CASE PowerLoss
  BY <1>22 DEF PowerLoss, NoProcess, FactsOf
<1> QED
  BY <1>1, <1>2, <1>3, <1>4, <1>5, <1>6, <1>7, <1>8, <1>9, <1>10, <1>11, Zenon,
     <1>12, <1>13, <1>14, <1>15, <1>16, <1>17, <1>18, <1>19, <1>20, <1>21,
     <1>22 DEF Next, Step

(* Acknowledged writes stay held when nothing but unsynced log bytes and  *)
(* process memory change, or one of the two images replaces the other.    *)
LEMMA DurableFrame ==
    ASSUME AckedDurable, UNCHANGED <<acked, exposed>>,
           walSynced \in Nat, walSynced' \in Nat, walSynced <= walSynced',
           \A i \in 1..walSynced : walLog'[i] = walLog[i],
           image' \in {image, stable}, stable' \in {image, stable}
    PROVE  AckedDurable'
<1> SUFFICES ASSUME NEW w \in acked \ exposed, ~w.empty
             PROVE  HeldBy(w, image)' /\ HeldBy(w, stable)'
  BY DEF AckedDurable
<1>1. HeldBy(w, image) /\ HeldBy(w, stable)
  BY DEF AckedDurable
<1>2. \A i \in 1..walSynced : i \in 1..walSynced'
  OBVIOUS
<1>3. \A i \in 1..walSynced : \A j \in 1..i : j \in 1..walSynced
  OBVIOUS
<1> QED
  BY <1>1, <1>2, <1>3 DEF HeldBy

(* No step loses an acknowledged write. *)
LEMMA AckedDurableStep ==
    ASSUME IInv, Next
    PROVE  AckedDurable'
<1>0. /\ TypeOK /\ AckedDurable /\ LockHolder /\ Watermarks /\ AckedVisible
      /\ walSynced \in Nat /\ Len(walLog) \in Nat /\ walSynced <= Len(walLog)
      /\ walLog \in Seq(Write \cup {Torn}) /\ DOMAIN walLog = 1..Len(walLog)
      /\ image.last \in Nat /\ stable.last \in Nat /\ counter \in Nat
  BY DEF IInv, TypeOK, Image
<1>1. CASE OpenDb
  BY <1>0, <1>1, DurableFrame DEF OpenDb, disk, history
<1>2. ASSUME NEW empty \in BOOLEAN, Execute(empty) PROVE AckedDurable'
  BY <1>0, <1>2, DurableFrame DEF Execute, disk, history
<1>3. CASE CreateWal
  BY <1>0, <1>3, DurableFrame DEF CreateWal, disk, history
<1>4. CASE ReuseWal
  BY <1>0, <1>4, DurableFrame DEF ReuseWal, disk, history
<1>5. CASE WriteWalHeader
  BY <1>0, <1>5, DurableFrame DEF WriteWalHeader, disk, history
<1>6. CASE WalHeaderFails
  BY <1>0, <1>6, DurableFrame DEF WalHeaderFails, Reject, disk, history
<1>7. CASE AppendEntry
  <2>1. \A i \in 1..walSynced : walLog'[i] = walLog[i]
    BY <1>0, <1>7, AppendKeeps, SMTT(60) DEF AppendEntry, LockHolder, Executing
  <2> QED
    BY SMTT(60), <1>0, <1>7, <2>1, DurableFrame DEF AppendEntry, history
<1>8. CASE AppendFails
  <2>1. \A i \in 1..walSynced : walLog'[i] = walLog[i]
    BY <1>0, <1>8, TornAppendKeeps DEF AppendFails
  <2> QED
    BY <1>0, <1>8, <2>1, DurableFrame DEF AppendFails, Reject
<1>9. CASE SyncEntry
  BY <1>0, <1>9, DurableFrame DEF SyncEntry, history
<1>10. CASE SyncEntryFails
  BY <1>0, <1>10, DurableFrame DEF SyncEntryFails, Reject, disk, history
<1>11. CASE ApplyFacts
  <2>1. /\ acked' \ exposed' \subseteq (acked \ exposed) \cup {cur}
        /\ UNCHANGED <<walLog, walSynced, image, stable>>
    BY <1>0, <1>11 DEF ApplyFacts, Acknowledge, history, disk
  <2>2. cur \in acked' \ exposed' => cur \in acked \ exposed
                                    \/ \A i \in DOMAIN walLog : walLog[i] # Torn
    BY <1>0, <1>11 DEF ApplyFacts, Acknowledge, history
  <2>3. /\ walSynced = Len(walLog) /\ Len(walLog) > 0
        /\ walLog[Len(walLog)] = cur /\ cur.tx = counter
    BY <1>0, <1>11 DEF ApplyFacts, LockHolder, Executing
  <2>4. counter > image.last /\ counter > stable.last
    BY <1>0, <1>11, SMTT(60) DEF ApplyFacts, LockHolder, Executing, Watermarks
  <2>5. (\A i \in DOMAIN walLog : walLog[i] # Torn)
            => HeldBy(cur, image) /\ HeldBy(cur, stable)
    BY <1>0, <2>3, <2>4 DEF HeldBy
  <2>6. \A w \in acked' \ exposed' :
            ~w.empty => HeldBy(w, image) /\ HeldBy(w, stable)
    BY <1>0, <2>1, <2>2, <2>5 DEF AckedDurable
  <2> QED
    BY <2>1, <2>6, SMTT(60) DEF AckedDurable, HeldBy
<1>12. CASE Checkpoint
  BY <1>0, <1>12, DurableFrame DEF Checkpoint, disk, history
<1>13. CASE DropHandle
  BY <1>0, <1>13, DurableFrame DEF DropHandle, disk, history
<1>14. CASE SaveRefused
  BY <1>0, <1>14, DurableFrame DEF SaveRefused, AbortCheckpoint, disk, history
<1>15. CASE SaveFails
  BY <1>0, <1>15, DurableFrame DEF SaveFails, AbortCheckpoint, disk, history
<1>16. CASE PublishPage0
  <2>1. \A w \in acked \ exposed : ~w.empty => w \in image'.facts
    BY <1>0, <1>16 DEF PublishPage0, AckedVisible
  <2>2. UNCHANGED <<acked, exposed, walLog, walSynced>> /\ stable' = image
    BY <1>0, <1>16 DEF PublishPage0, history
  <2> SUFFICES ASSUME NEW w \in acked \ exposed, ~w.empty
               PROVE  HeldBy(w, image)' /\ HeldBy(w, stable)'
    BY <2>2 DEF AckedDurable
  <2>3. HeldBy(w, image)'
    BY <2>1 DEF HeldBy
  <2>4. HeldBy(w, image)
    BY <1>0 DEF AckedDurable
  <2>5. HeldBy(w, stable)'
    BY <2>2, <2>4 DEF HeldBy
  <2> QED
    BY <2>3, <2>5
<1>17. CASE PublishSyncFails
  BY <1>0, <1>17, DurableFrame DEF PublishSyncFails, AbortCheckpoint, disk, history
<1>18. CASE PublishSynced
  BY <1>0, <1>18, DurableFrame DEF PublishSynced, disk, history
<1>19. CASE RetireWal
  <2>1. \A w \in acked \ exposed : ~w.empty => w \in image.facts
    BY <1>0, <1>19 DEF RetireWal, AckedVisible, LockHolder, Visible
  <2>2. caller = "execute" /\ ~cur.empty => cur \in image.facts
    BY <1>0, <1>19 DEF RetireWal, LockHolder, Visible, FactsOf
  <2>3. image' = image /\ stable' = image
    BY <1>0, <1>19 DEF RetireWal, LockHolder
  <2>4. acked' \ exposed' \subseteq
            (acked \ exposed) \cup (IF caller = "execute" THEN {cur} ELSE {})
    BY <1>0, <1>19 DEF RetireWal, Acknowledge, history
  <2>5. \A w \in acked' \ exposed' : ~w.empty => w \in image.facts
    BY <2>1, <2>2, <2>4
  <2> QED
    BY <2>3, <2>5 DEF AckedDurable, HeldBy
<1>20. CASE RetireFails
  BY <1>0, <1>20, DurableFrame DEF RetireFails, disk, history
<1>21. CASE Kill
  <2>1. \A i \in 1..walSynced : walLog'[i] = walLog[i]
    BY <1>0, <1>21, TornAppendKeeps DEF Kill
  <2> QED
    BY <1>0, <1>21, <2>1, DurableFrame DEF Kill, history
<1>22. CASE PowerLoss
  <2>1. PICK k \in walSynced..Len(walLog) :
            /\ k <= Len(walLog') /\ walLog' \in Seq(Write \cup {Torn})
            /\ \A i \in 1..k : walLog'[i] = walLog[i]
    BY <1>0, <1>22, PowerLossKeeps
  <2>2. walSynced' >= walSynced /\ walSynced' \in Nat
    BY <1>0, <1>22, <2>1 DEF PowerLoss
  <2>3. \A i \in 1..walSynced : walLog'[i] = walLog[i]
    BY <1>0, <2>1
  <2> QED
    BY <1>0, <1>22, <2>2, <2>3, DurableFrame DEF PowerLoss, history
<1> QED
  BY SMTT(60), <1>1, <1>2, <1>3, <1>4, <1>5, <1>6, <1>7, <1>8, <1>9, <1>10, <1>11,
     <1>12, <1>13, <1>14, <1>15, <1>16, <1>17, <1>18, <1>19, <1>20, <1>21,
     <1>22 DEF Next, Step

(* If the log keeps a prefix and gains only torn bytes, its readable       *)
(* entries are old ones.                                                   *)
LEMMA PrefixReadable ==
    ASSUME TypeOK, TypeOK', NEW k \in 0..Len(walLog),
           k <= Len(walLog'),
           \A i \in 1..k : walLog'[i] = walLog[i],
           \A i \in (k + 1)..Len(walLog') : walLog'[i] = Torn
    PROVE  \A i \in DOMAIN walLog' :
              LogEntry(i)' => /\ i \in DOMAIN walLog /\ LogEntry(i)
                              /\ walLog'[i] = walLog[i]
<1> SUFFICES ASSUME NEW i \in DOMAIN walLog', LogEntry(i)'
             PROVE  /\ i \in DOMAIN walLog /\ LogEntry(i)
                    /\ walLog'[i] = walLog[i]
  OBVIOUS
<1>1. i \in 1..Len(walLog') /\ \A j \in 1..i : walLog'[j] # Torn
  BY SMTT(60) DEF LogEntry, Readable, TypeOK
<1>2. i \in 1..k
  BY <1>1
<1>3. i \in DOMAIN walLog /\ walLog'[i] = walLog[i]
  BY <1>2, SMTT(60) DEF TypeOK
<1>4. \A j \in 1..i : walLog[j] # Torn
  BY <1>1, <1>2
<1> QED
  BY <1>3, <1>4 DEF LogEntry, Readable

(* Readable, non-empty entries carry a number. *)
LEMMA LogEntryTx ==
    ASSUME TypeOK
    PROVE  /\ counter \in Nat
           /\ \A i \in DOMAIN walLog : LogEntry(i) => walLog[i].tx \in Nat
<1>1. \A i \in DOMAIN walLog : walLog[i] = Torn \/ walLog[i] \in Write
  BY DEF TypeOK
<1>2. \A i \in DOMAIN walLog : LogEntry(i) => walLog[i] # Torn
  BY DEF LogEntry, Readable, TypeOK
<1> QED
  BY <1>1, <1>2 DEF Write, TypeOK

(* Torn bytes after the log leave its readable entries as they were. *)
LEMMA TornReadable ==
    ASSUME TypeOK, TypeOK', walLog' = walLog \/ walLog' = Append(walLog, Torn)
    PROVE  \A i \in DOMAIN walLog' :
              LogEntry(i)' => /\ i \in DOMAIN walLog /\ LogEntry(i)
                              /\ walLog'[i] = walLog[i]
<1>1. Len(walLog) \in 0..Len(walLog)
  BY SMTT(60) DEF TypeOK
<1> QED
  BY <1>1, TornAppendKeeps, PrefixReadable

(* Steps that leave the log, the images and what is visible alone. *)
LEMMA TxFrame ==
    ASSUME TxUnique, UNCHANGED <<walLog, image, stable>>,
           pc' # "closed" => pc # "closed" /\ UNCHANGED <<counter, pending, committed>>,
           pc' \in {"wal", "header"} => pc \in {"wal", "header"}
    PROVE  TxUnique'
  BY DEF TxUnique, LogEntry, Visible

(* No step gives a number in use to a second transaction. *)
LEMMA TxUniqueStep ==
    ASSUME IInv, Next
    PROVE  TxUnique'
<1>0. /\ TypeOK /\ TypeOK' /\ TxUnique /\ LockHolder /\ Watermarks
      /\ walLog \in Seq(Write \cup {Torn}) /\ DOMAIN walLog = 1..Len(walLog)
      /\ walSynced \in 0..Len(walLog) /\ Len(walLog) \in Nat
  <2>1. TypeOK /\ TypeOK'
    BY TypeStep DEF IInv
  <2>2. TxUnique /\ LockHolder /\ Watermarks
    BY SMTT(60) DEF IInv
  <2> QED
    BY <2>1, <2>2, SMTT(60) DEF TypeOK
<1>1. CASE OpenDb
  <2>1. /\ image.last \in Nat /\ counter' \in Nat /\ image.facts \subseteq Write
        /\ pending' \subseteq Write
    BY <1>0, TypeStep DEF Image, TypeOK
  <2>2. \A i \in Readable(walLog) : i \in DOMAIN walLog
    BY DEF Readable
  <2>3. \A w \in pending' : \E i \in DOMAIN walLog :
            LogEntry(i) /\ walLog[i] = w /\ w.tx > image.last
    <3>1. \A w \in pending' : \E i \in Readable(walLog) :
              walLog[i] = w /\ ~w.empty /\ w.tx > image.last
      BY <1>0, <1>1, <2>1, ReplayedFromLog, Zenon DEF OpenDb
    <3> QED
      BY <2>2, <3>1 DEF LogEntry
  <2>4. \A v, w \in pending' : v.tx = w.tx => v = w
    BY <1>0, <2>3, Zenon DEF TxUnique
  <2>5. \A v \in image.facts, w \in pending' : v.tx # w.tx
    BY <1>0, <2>1, <2>3 DEF Watermarks, Write
  <2>6. \A v, w \in image.facts \cup pending' : v.tx = w.tx => v = w
    BY <1>0, <2>4, <2>5 DEF TxUnique
  <2>7. \A i \in DOMAIN walLog : LogEntry(i) => walLog[i].tx <= counter'
    <3> SUFFICES ASSUME NEW i \in DOMAIN walLog, LogEntry(i)
                 PROVE  walLog[i].tx <= counter'
      OBVIOUS
    <3>1. walLog[i] \in Write
      BY <1>0, <2>1, ReplayedFromLog, Zenon DEF LogEntry
    <3>5. walLog[i].tx \in Nat
      BY <3>1 DEF Write
    <3>2. counter' >= image.last /\ \A w \in pending' : counter' >= w.tx
      BY <1>1, Zenon DEF OpenDb, RestoredCounter
    <3>3. CASE walLog[i].tx > image.last
      BY <1>0, <1>1, <2>1, <3>1, <3>2, <3>3, ReplayedFromLog, Zenon DEF OpenDb, LogEntry, Write
    <3>4. CASE walLog[i].tx <= image.last
      BY <2>1, <3>1, <3>2, <3>4, <3>5
    <3> QED
      BY <2>1, <3>3, <3>4, <3>5
  <2>8. walLog' = walLog /\ image' = image /\ stable' = stable /\ pc' = "idle"
    BY <1>1 DEF OpenDb
  <2>9. committed' = image.facts
    BY SMTT(60), <1>1 DEF OpenDb
  <2> QED
    BY <1>0, <2>6, <2>7, <2>8, <2>9 DEF TxUnique, LogEntry, Visible
<1>2. ASSUME NEW empty \in BOOLEAN, Execute(empty) PROVE TxUnique'
  <2>1. /\ counter' = counter + 1 /\ pc = "idle" /\ pc' = "wal"
        /\ UNCHANGED <<walLog, image, stable, pending, committed>>
    BY <1>2 DEF Execute, disk
  <2>2. \A i \in DOMAIN walLog : LogEntry(i) =>
            walLog[i].tx <= counter /\ walLog[i].tx < counter'
    BY <1>0, <2>1, LogEntryTx, SMTT(60) DEF TxUnique
  <2>3. Visible' = Visible
    BY <2>1 DEF Visible
  <2>4. \A i : LogEntry(i)' <=> LogEntry(i)
    BY <2>1 DEF LogEntry
  <2>5. \A i, j \in DOMAIN walLog :
            LogEntry(i) /\ LogEntry(j) /\ walLog[i].tx = walLog[j].tx => i = j
    BY <1>0 DEF TxUnique
  <2>6. \A i \in DOMAIN walLog : LogEntry(i) => walLog[i].tx <= counter'
    BY <1>0, <2>1, <2>2, LogEntryTx
  <2>7. \A v, w \in Visible : v.tx = w.tx => v = w
    BY <1>0, <2>1 DEF TxUnique
  <2> QED
    BY <1>0, <2>1, <2>2, <2>3, <2>4, <2>5, <2>6, <2>7, Zenon DEF TxUnique
<1>3. CASE CreateWal
  BY <1>0, <1>3, TxFrame DEF CreateWal, disk, memory
<1>4. CASE ReuseWal
  BY <1>0, <1>4, TxFrame DEF ReuseWal, disk, memory
<1>5. CASE WriteWalHeader
  BY <1>0, <1>5, TxFrame DEF WriteWalHeader, disk, memory
<1>6. CASE WalHeaderFails
  BY SMTT(60), <1>0, <1>6, TxFrame DEF WalHeaderFails, Reject, disk, memory
<1>7. CASE AppendEntry
  <2>1. /\ cur \in Write /\ cur.tx = counter
        /\ \A i \in DOMAIN walLog : LogEntry(i) => walLog[i].tx < counter
    BY <1>0, <1>7, Zenon DEF AppendEntry, LockHolder, Executing, TxUnique
  <2>2. /\ walLog' = Append(walLog, cur) /\ pc = "wal" /\ pc' = "sync"
        /\ UNCHANGED <<image, stable, counter, pending, committed>>
    BY <1>7 DEF AppendEntry, memory
  <2>3. /\ Len(walLog') = Len(walLog) + 1 /\ walLog'[Len(walLog) + 1] = cur
        /\ DOMAIN walLog' = 1..(Len(walLog) + 1)
        /\ \A i \in DOMAIN walLog : walLog'[i] = walLog[i]
    BY <1>0, <2>1, <2>2, AppendKeeps
  <2>4. ASSUME NEW i \in DOMAIN walLog, LogEntry(i)' PROVE LogEntry(i)
    <3>1. \A j \in 1..i : j \in DOMAIN walLog
      BY <1>0
    <3> QED
      BY <2>3, <2>4, <3>1 DEF LogEntry, Readable
  <2>5. ASSUME NEW i \in DOMAIN walLog', LogEntry(i)'
        PROVE  \/ i = Len(walLog) + 1 /\ walLog'[i].tx = counter
               \/ /\ i \in DOMAIN walLog /\ LogEntry(i)
                  /\ walLog'[i] = walLog[i] /\ walLog[i].tx < counter
    <3>1. i = Len(walLog) + 1 \/ i \in DOMAIN walLog
      BY <1>0, <2>3
    <3> QED
      BY <3>1, <2>1, <2>3, <2>4, <2>5
  <2>6. \A i \in DOMAIN walLog' : LogEntry(i)' => walLog'[i].tx <= counter
    BY SMTT(60), <1>0, <2>5, LogEntryTx
  <2>7. \A i, j \in DOMAIN walLog' :
            LogEntry(i)' /\ LogEntry(j)' /\ walLog'[i].tx = walLog'[j].tx => i = j
    BY <1>0, <2>5, LogEntryTx, SMTT(60) DEF TxUnique
  <2> QED
    BY SMTT(60), <1>0, <2>2, <2>6, <2>7 DEF TxUnique, Visible
<1>8. CASE AppendFails
  <2>1. \A i \in DOMAIN walLog' :
            LogEntry(i)' => /\ i \in DOMAIN walLog /\ LogEntry(i)
                            /\ walLog'[i] = walLog[i]
    BY <1>0, <1>8, TornReadable DEF AppendFails
  <2>2. /\ pc # "closed" /\ pc' = "idle"
        /\ UNCHANGED <<image, stable, counter, pending, committed>>
    BY <1>8 DEF AppendFails, Reject, memory
  <2> QED
    BY <1>0, <2>1, <2>2 DEF TxUnique, Visible
<1>9. CASE SyncEntry
  BY <1>0, <1>9, TxFrame DEF SyncEntry, disk, memory
<1>10. CASE SyncEntryFails
  BY SMTT(60), <1>0, <1>10, TxFrame DEF SyncEntryFails, Reject, disk, memory
<1>11. CASE ApplyFacts
  <2>1. /\ pc # "closed" /\ pc' \in {"idle", "save"}
        /\ UNCHANGED <<walLog, image, stable, counter, committed>>
        /\ pending' \subseteq pending \cup {cur}
    BY <1>11 DEF ApplyFacts, FactsOf, disk
  <2>2. cur.tx = counter /\ \A w \in Visible : w.tx < counter
    BY <1>0, <1>11 DEF ApplyFacts, LockHolder, Executing
  <2>3. \A v, w \in Visible' : v.tx = w.tx => v = w
    <3>1. Visible' \subseteq Visible \cup {cur}
      BY <2>1 DEF Visible
    <3>5. Visible \subseteq Write /\ counter \in Nat
      BY <1>0 DEF TypeOK, Visible
    <3>2. \A w \in Visible : w.tx # cur.tx
      BY <2>2, <3>5 DEF Write
    <3>3. \A v, w \in Visible : v.tx = w.tx => v = w
      BY <1>0, <2>1 DEF TxUnique
    <3> SUFFICES ASSUME NEW v \in Visible', NEW w \in Visible', v.tx = w.tx
                 PROVE  v = w
      OBVIOUS
    <3>4. (v \in Visible \/ v = cur) /\ (w \in Visible \/ w = cur)
      BY <3>1
    <3> QED
      BY <3>2, <3>3, <3>4
  <2> QED
    BY <1>0, <2>1, <2>3 DEF TxUnique, LogEntry
<1>12. CASE Checkpoint
  BY <1>0, <1>12, TxFrame DEF Checkpoint, disk, memory
<1>13. CASE DropHandle
  BY <1>0, <1>13, TxFrame DEF DropHandle, NoProcess, disk, memory
<1>14. CASE SaveRefused
  BY SMTT(60), <1>0, <1>14, TxFrame DEF SaveRefused, AbortCheckpoint, NoProcess, disk, memory
<1>15. CASE SaveFails
  <2>1. /\ stable' \in {stable, image} /\ UNCHANGED <<walLog, image>>
        /\ pc' \notin {"wal", "header"} /\ pc # "closed"
        /\ pc' # "closed" => UNCHANGED <<counter, pending, committed>>
    BY <1>15 DEF SaveFails, AbortCheckpoint, NoProcess, memory
  <2> QED
    <3>1. pc' # "closed" => Visible' = Visible /\ counter' = counter
      BY <2>1 DEF Visible
    <3>2. \A v, w \in stable'.facts : v.tx = w.tx => v = w
      BY <1>0, <2>1 DEF TxUnique
    <3> QED
      BY <1>0, <2>1, <3>1, <3>2, Zenon DEF TxUnique, LogEntry
<1>16. CASE PublishPage0
  <2>1. /\ stable' = image /\ image'.facts = Visible /\ pc # "closed"
        /\ pc' = "publish" /\ UNCHANGED <<walLog, counter, pending, committed>>
    BY <1>16 DEF PublishPage0, memory
  <2>2. Visible' = Visible
    BY <2>1 DEF Visible
  <2> QED
    BY <1>0, <2>1, <2>2, Zenon DEF TxUnique, LogEntry
<1>17. CASE PublishSyncFails
  BY <1>0, <1>17, TxFrame DEF PublishSyncFails, AbortCheckpoint, NoProcess, disk, memory
<1>18. CASE PublishSynced
  <2>1. /\ stable' = image /\ UNCHANGED <<walLog, image>> /\ pc # "closed"
        /\ pc' \in {"closed", "retire"}
        /\ pc' = "retire" => counter' = counter /\ Visible' = image.facts
    BY <1>18, Zenon DEF PublishSynced, NoProcess, Visible
  <2> QED
    BY <1>0, <2>1, Zenon DEF TxUnique, LogEntry
<1>19. CASE RetireWal
  <2>1. walLog' = <<>> /\ UNCHANGED <<image, stable>>
    BY <1>19 DEF RetireWal
  <2>2. DOMAIN walLog' = {}
    BY <2>1
  <2>3. pc' # "closed" => UNCHANGED <<pending, committed>> /\ pc' = "idle"
    BY <1>19 DEF RetireWal, NoProcess
  <2>4. pc # "closed"
    BY <1>19 DEF RetireWal
  <2> QED
    BY <1>0, <2>1, <2>2, <2>3, <2>4 DEF TxUnique, Visible
<1>20. CASE RetireFails
  BY <1>0, <1>20, TxFrame DEF RetireFails, NoProcess, disk, memory
<1>21. CASE Kill
  <2>1. \A i \in DOMAIN walLog' :
            LogEntry(i)' => /\ i \in DOMAIN walLog /\ LogEntry(i)
                            /\ walLog'[i] = walLog[i]
    BY <1>0, <1>21, TornReadable DEF Kill
  <2>2. pc' = "closed" /\ UNCHANGED <<image, stable>>
    BY <1>21 DEF Kill, NoProcess
  <2> QED
    BY <1>0, <2>1, <2>2, Zenon DEF TxUnique
<1>22. CASE PowerLoss
  <2>1. PICK k \in walSynced..Len(walLog) :
            /\ k <= Len(walLog')
            /\ \A i \in 1..k : walLog'[i] = walLog[i]
            /\ \A i \in (k + 1)..Len(walLog') : walLog'[i] = Torn
    BY <1>0, <1>22, PowerLossKeeps
  <2>2. k \in 0..Len(walLog)
    BY SMTT(60), <1>0
  <2>3. \A i \in DOMAIN walLog' :
            LogEntry(i)' => /\ i \in DOMAIN walLog /\ LogEntry(i)
                            /\ walLog'[i] = walLog[i]
    BY <1>0, <2>1, <2>2, PrefixReadable
  <2>4. /\ pc' = "closed" /\ image' \in {image, stable} /\ stable' = image'
    BY <1>22 DEF PowerLoss, NoProcess
  <2> QED
    BY <1>0, <2>3, <2>4, Zenon DEF TxUnique
<1> QED
  BY <1>1, <1>2, <1>3, <1>4, <1>5, <1>6, <1>7, <1>8, <1>9, <1>10, <1>11,
     <1>12, <1>13, <1>14, <1>15, <1>16, <1>17, <1>18, <1>19, <1>20, <1>21,
     <1>22 DEF Next, Step

-----------------------------------------------------------------------------
(* The initial state satisfies the inductive invariant. *)
LEMMA InitInv == Init => IInv
<1> SUFFICES ASSUME Init PROVE IInv
  OBVIOUS
<1>1. TypeOK
  <2>1. walOpen \in BOOLEAN /\ dirty \in BOOLEAN /\ layered \in BOOLEAN
    BY Zenon DEF Init
  <2>2. image \in Image /\ stable \in Image
    BY DEF Init, EmptyImage, Image
  <2>3. walLog \in Seq(Write \cup {Torn}) /\ walSynced \in 0..Len(walLog)
    BY DEF Init
  <2> QED
    BY <2>1, <2>2, <2>3, BoundsAssumption DEF Init, TypeOK
<1>2. TxBounded /\ Watermarks
  BY SMTT(60) DEF Init, EmptyImage, TxBounded, Watermarks
<1>3. LockHolder /\ AckedVisible /\ FreshIds
  BY DEF Init, LockHolder, AckedVisible, FreshIds, Executing, Visible
<1>4. AckedDurable
  BY SMTT(60) DEF Init, AckedDurable
<1>5. TxUnique
  BY SMTT(60) DEF Init, EmptyImage, TxUnique
<1> QED
  BY <1>1, <1>2, <1>3, <1>4, <1>5 DEF IInv

(* The invariant is inductive. *)
LEMMA NextInv == IInv /\ [Next]_vars => IInv'
<1> SUFFICES ASSUME IInv, [Next]_vars PROVE IInv'
  OBVIOUS
<1>1. CASE Next
  BY <1>1, TypeStep, TxBoundedStep, WatermarksStep, LockHolderStep,
     AckedDurableStep, AckedVisibleStep, FreshIdsStep, TxUniqueStep DEF IInv
<1>2. CASE UNCHANGED vars
  <2> USE <1>2 DEF vars, disk, memory, history, IInv
  <2>1. TypeOK' /\ TxBounded'
    BY SMTT(60) DEF TypeOK, TxBounded
  <2>2. Watermarks' /\ AckedVisible' /\ FreshIds'
    BY Zenon DEF Watermarks, AckedVisible, FreshIds, Visible
  <2>3. LockHolder'
    BY Zenon DEF LockHolder, Visible
  <2>4. AckedDurable'
    BY DurableFrame, SMTT(60) DEF TypeOK
  <2>5. TxUnique'
    BY Zenon DEF TxUnique, LogEntry, Visible
  <2> QED
    BY SMTT(60), <2>1, <2>2, <2>3, <2>4, <2>5
<1> QED
  BY <1>1, <1>2

(* The inductive invariant holds throughout. *)
LEMMA Invariance == Spec => []IInv
  BY InitInv, NextInv, PTL DEF Spec

-----------------------------------------------------------------------------
(* The state of a handle, of the WAL and of page 0 is always well formed.  *)
THEOREM TypeCorrect == Spec => []TypeOK
  BY Invariance, PTL DEF IInv

(* An acknowledged write is held by page 0 or by the readable, fsynced WAL *)
(* above its watermark, through every failure of execute and               *)
(* do_checkpoint.                                                          *)
THEOREM Durability == Spec => []AckedDurable
  BY Invariance, PTL DEF IInv

(* Opening the database again finds every such write (replay_wal).         *)
ReopenFindsAcked == \A w \in acked \ exposed : ~w.empty => w \in Recovered

(* The invariant implies ReopenFindsAcked. *)
LEMMA HeldIsRecovered == IInv => ReopenFindsAcked
<1> SUFFICES ASSUME IInv, NEW w \in acked \ exposed, ~w.empty
             PROVE  w \in Recovered
  BY DEF ReopenFindsAcked
<1>1. CASE w \in image.facts
  BY <1>1 DEF Recovered
<1>2. CASE w \notin image.facts
  <2>1. PICK i \in 1..walSynced : /\ walLog[i] = w /\ w.tx > image.last
                                  /\ \A j \in 1..i : walLog[j] # Torn
    BY <1>2 DEF IInv, AckedDurable, HeldBy
  <2>2. i \in Readable(walLog)
    BY <2>1 DEF Readable, IInv, TypeOK
  <2>3. w \in Replayed(walLog, image.last)
    BY <2>1, <2>2, ReplayedFromLog, Zenon DEF IInv, TypeOK, Image
  <2> QED
    BY <2>3 DEF Recovered
<1> QED
  BY <1>1, <1>2

(* Recovery is complete for writes acknowledged with a readable WAL: the   *)
(* state replay_wal rebuilds contains them.                                *)
THEOREM RecoveryComplete == Spec => []ReopenFindsAcked
  BY Invariance, HeldIsRecovered, PTL

(* The invariant implies NoDoubleReplay. *)
LEMMA NoDoubleReplayInv == IInv => NoDoubleReplay
<1> SUFFICES ASSUME IInv, NEW w \in image.facts,
                    w \in Replayed(walLog, image.last)
             PROVE  FALSE
  BY DEF NoDoubleReplay
<1>1. w \in Write /\ image.last \in Nat
  BY DEF IInv, TypeOK, Image
<1>2. w.tx > image.last
  BY <1>1, ReplayedFromLog DEF IInv
<1>3. w.tx <= image.last
  BY Zenon DEF IInv, Watermarks
<1> QED
  BY <1>1, <1>2, <1>3 DEF Write

(* A crash between publishing page 0 and deleting the WAL duplicates       *)
(* nothing: replay_wal skips what the image holds.                         *)
THEOREM ReplayOnce == Spec => []NoDoubleReplay
  BY Invariance, NoDoubleReplayInv, PTL

(* The invariant implies UniqueTxCounts. *)
LEMMA UniqueTxInv == IInv => UniqueTxCounts
<1> SUFFICES ASSUME IInv PROVE UniqueTxCounts
  OBVIOUS
<1>1. /\ image.last \in Nat /\ image.facts \subseteq Write
      /\ Replayed(walLog, image.last) \subseteq Write
  BY ReplayedFromLog, Zenon DEF IInv, TypeOK, Image
<1>2. \A w \in Replayed(walLog, image.last) : \E i \in DOMAIN walLog :
          LogEntry(i) /\ walLog[i] = w /\ w.tx > image.last
  <2>1. \A w \in Replayed(walLog, image.last) : \E i \in Readable(walLog) :
            walLog[i] = w /\ ~w.empty /\ w.tx > image.last
    BY <1>1, ReplayedFromLog, Zenon DEF IInv
  <2>2. \A i \in Readable(walLog) : i \in DOMAIN walLog
    BY DEF Readable
  <2> QED
    BY <2>1, <2>2 DEF LogEntry
<1>3. \A v, w \in Replayed(walLog, image.last) : v.tx = w.tx => v = w
  BY <1>2 DEF IInv, TxUnique
<1>4. \A v \in image.facts, w \in Replayed(walLog, image.last) : v.tx # w.tx
  BY <1>1, <1>2 DEF IInv, Watermarks, Write
<1>5. \A v, w \in Recovered : v.tx = w.tx => v = w
  BY <1>3, <1>4, Zenon DEF IInv, TxUnique, Recovered
<1>6. \A v, w \in Visible : v.tx = w.tx => v = w
  BY DEF IInv, TxUnique, LockHolder, Visible
<1> QED
  BY <1>5, <1>6 DEF UniqueTxCounts

(* A tx_count names one transaction, in an open handle and after replay.   *)
THEOREM OneTransactionPerCount == Spec => []UniqueTxCounts
  BY Invariance, UniqueTxInv, PTL

(* No step of an open handle hides what it showed. *)
LEMMA GrowsStep ==
    IInv /\ [Next]_vars =>
        [pc # "closed" /\ pc' # "closed" => Visible \subseteq Visible']_vars
<1> SUFFICES ASSUME IInv, Next, pc # "closed", pc' # "closed"
             PROVE  Visible \subseteq Visible'
  OBVIOUS
<1> USE DEF Visible, disk, memory, history
<1>1. CASE PublishSynced
  BY <1>1, Zenon DEF PublishSynced, NoProcess, IInv, LockHolder
<1>2. CASE ApplyFacts
  BY <1>2 DEF ApplyFacts
<1>3. CASE OpenDb \/ PowerLoss \/ Kill
  BY <1>3, Zenon DEF OpenDb, PowerLoss, Kill, NoProcess
<1>4. CASE Step /\ ~PublishSynced /\ ~ApplyFacts
  <2>1. CASE DropHandle \/ SaveRefused \/ SaveFails \/ PublishSyncFails
             \/ RetireWal \/ RetireFails
    BY <2>1, Zenon DEF DropHandle, SaveRefused, SaveFails, PublishSyncFails, RetireWal,
       RetireFails, AbortCheckpoint, NoProcess
  <2>2. CASE CreateWal \/ ReuseWal \/ WriteWalHeader \/ WalHeaderFails \/ AppendEntry
             \/ AppendFails \/ SyncEntry \/ SyncEntryFails \/ Checkpoint \/ PublishPage0
             \/ \E empty \in BOOLEAN : Execute(empty)
    BY <2>2, Zenon DEF CreateWal, ReuseWal, WriteWalHeader, WalHeaderFails, AppendEntry,
       AppendFails, SyncEntry, SyncEntryFails, Checkpoint, PublishPage0, Execute
  <2> QED
    BY <1>4, <2>1, <2>2 DEF Step
<1> QED
  BY <1>1, <1>2, <1>3, <1>4 DEF Next

(* Applying a batch and checkpointing never take a fact out of what an     *)
(* open handle shows.                                                      *)
THEOREM ReadsNeverShrink == Spec => VisibleOnlyGrows
  BY Invariance, GrowsStep, PTL DEF Spec, VisibleOnlyGrows

(* The WAL is removed only once page 0 is synced with all that is visible. *)
LEMMA RetireStep ==
    IInv /\ [Next]_vars =>
        [walFile = "ready" /\ walFile' = "absent"
             => Visible \subseteq stable'.facts /\ stable' = image']_vars
<1> SUFFICES ASSUME IInv, Next, walFile = "ready", walFile' = "absent"
             PROVE  Visible \subseteq stable'.facts /\ stable' = image'
  OBVIOUS
<1>1. RetireWal
  BY Zenon DEF Next, Step, OpenDb, Execute, CreateWal, ReuseWal, WriteWalHeader,
     WalHeaderFails, AppendEntry, AppendFails, SyncEntry, SyncEntryFails,
     ApplyFacts, Checkpoint, DropHandle, SaveRefused, SaveFails, PublishPage0,
     PublishSyncFails, PublishSynced, RetireFails, Kill, PowerLoss, disk
<1> QED
  BY <1>1, Zenon DEF RetireWal, IInv, LockHolder, Visible

(* do_checkpoint deletes the WAL only when page 0 durably holds everything *)
(* the handle shows.                                                       *)
THEOREM RetireAfterPublish == Spec => RetiredOnlyWhenPublished
  BY Invariance, RetireStep, PTL DEF Spec, RetiredOnlyWhenPublished

(* No step of an open handle begins to show a rejected write. *)
LEMMA RejectedStep ==
    IInv /\ [Next]_vars =>
        [pc # "closed" => \A w \in rejected : w \in Visible' => w \in Visible]_vars
<1> SUFFICES ASSUME IInv, Next, pc # "closed", NEW w \in rejected, w \in Visible'
             PROVE  w \in Visible
  BY SMTT(60)
<1> USE DEF Visible, disk, memory, history
<1>1. CASE PublishSynced
  BY <1>1, Zenon DEF PublishSynced, NoProcess, IInv, LockHolder
<1>2. CASE ApplyFacts
  <2>1. w.id < cur.id /\ w \in Write /\ cur \in Write
    BY <1>2, Zenon DEF ApplyFacts, IInv, FreshIds, Executing, TypeOK, LockHolder
  <2>2. w # cur
    BY <2>1 DEF Write
  <2> QED
    BY <1>2, <2>2 DEF ApplyFacts, FactsOf
<1>3. CASE OpenDb \/ PowerLoss \/ Kill
  BY <1>3, Zenon DEF OpenDb, PowerLoss, Kill, NoProcess
<1>4. CASE Step /\ ~PublishSynced /\ ~ApplyFacts
  <2>1. CASE DropHandle \/ SaveRefused \/ SaveFails \/ PublishSyncFails
             \/ RetireWal \/ RetireFails
    BY <2>1, Zenon DEF DropHandle, SaveRefused, SaveFails, PublishSyncFails, RetireWal,
       RetireFails, AbortCheckpoint, NoProcess
  <2>2. CASE CreateWal \/ ReuseWal \/ WriteWalHeader \/ WalHeaderFails \/ AppendEntry
             \/ AppendFails \/ SyncEntry \/ SyncEntryFails \/ Checkpoint \/ PublishPage0
             \/ \E empty \in BOOLEAN : Execute(empty)
    BY <2>2, Zenon DEF CreateWal, ReuseWal, WriteWalHeader, WalHeaderFails, AppendEntry,
       AppendFails, SyncEntry, SyncEntryFails, Checkpoint, PublishPage0, Execute
  <2> QED
    BY <1>4, <2>1, <2>2 DEF Step
<1> QED
  BY <1>1, <1>2, <1>3, <1>4 DEF Next

(* A write that execute or commit reported as failed does not appear in    *)
(* the process that was told so.                                           *)
THEOREM RejectedHidden == Spec => RejectedStaysHidden
  BY Invariance, RejectedStep, PTL DEF Spec, RejectedStaysHidden

-----------------------------------------------------------------------------
(* The write path implements AtomicImage.                                  *)

(* What page 0 holds is visible in an open handle. *)
ImageShown == pc # "closed" => image.facts \subseteq Visible

(* Steps of an open handle keep page 0 within what it shows. *)
LEMMA ImageShownStep == IInv /\ ImageShown /\ [Next]_vars => ImageShown'
<1> SUFFICES ASSUME IInv, ImageShown, [Next]_vars, pc' # "closed"
             PROVE  image'.facts \subseteq Visible'
  BY DEF ImageShown
<1>1. CASE UNCHANGED vars
  BY <1>1 DEF ImageShown, Visible, vars, disk, memory
<1>2. CASE OpenDb
  BY <1>2 DEF OpenDb, Visible
<1>3. CASE PublishPage0
  BY <1>3 DEF PublishPage0, Visible, memory
<1>4. CASE Kill \/ PowerLoss
  BY <1>4, Zenon DEF Kill, PowerLoss, NoProcess
<1>5. CASE Step /\ ~PublishPage0
  <2>1. image' = image
    BY <1>5, Zenon DEF Step, Execute, CreateWal, ReuseWal, WriteWalHeader,
       WalHeaderFails, AppendEntry, AppendFails, SyncEntry, SyncEntryFails,
       ApplyFacts, Checkpoint, DropHandle, SaveRefused, SaveFails,
       PublishSyncFails, PublishSynced, RetireWal, RetireFails, disk
  <2>2. pc # "closed"
    BY <1>5, Zenon DEF Step, Execute, CreateWal, ReuseWal, WriteWalHeader,
       WalHeaderFails, AppendEntry, AppendFails, SyncEntry, SyncEntryFails,
       ApplyFacts, Checkpoint, DropHandle, SaveRefused, SaveFails,
       PublishSyncFails, PublishSynced, RetireWal, RetireFails
  <2>3. Visible \subseteq Visible' \/ UNCHANGED vars
    BY <2>2, GrowsStep
  <2>4. Visible \subseteq Visible'
    BY <2>3 DEF vars, memory, Visible
  <2> QED
    BY <2>1, <2>2, <2>4 DEF ImageShown
<1> QED
  BY <1>1, <1>2, <1>3, <1>4, <1>5 DEF Next

(* Each step of the write path is a step of the abstract image. *)
LEMMA AtomicStep ==
    IInv /\ ImageShown /\ [Next]_vars =>
        [Page0!AtomicNext]_<<ImageView(image), ImageView(stable)>>
<1> SUFFICES ASSUME IInv, ImageShown, [Next]_vars
             PROVE  \/ Page0!AtomicNext
                    \/ image' = image /\ stable' = stable
  BY DEF ImageView
<1> USE DEF ImageView
<1>1. CASE PublishPage0
  <2>1. image.last <= counter /\ image.facts \subseteq Visible
    BY <1>1 DEF PublishPage0, IInv, Watermarks, ImageShown
  <2>2. stable' = image /\ image'.last = counter /\ image'.facts = Visible
    BY <1>1 DEF PublishPage0
  <2>3. image.last \in Nat /\ counter \in Nat
    BY DEF IInv, TypeOK, Image
  <2> QED
    BY <2>1, <2>2, <2>3 DEF Page0!AtomicNext, Page0!Publish, Page0!Extends
<1>2. CASE SaveFails \/ PublishSynced
  BY <1>2 DEF SaveFails, PublishSynced, Page0!AtomicNext, Page0!Synced
<1>3. CASE PowerLoss
  BY <1>3 DEF PowerLoss, Page0!AtomicNext, Page0!Synced, Page0!Lost
<1>4. CASE OpenDb \/ Kill \/ UNCHANGED vars
  BY <1>4 DEF OpenDb, Kill, vars, disk
<1>5. CASE Step /\ ~PublishPage0 /\ ~SaveFails /\ ~PublishSynced
  BY <1>5, Zenon DEF Step, Execute, CreateWal, ReuseWal, WriteWalHeader,
     WalHeaderFails, AppendEntry, AppendFails, SyncEntry, SyncEntryFails,
     ApplyFacts, Checkpoint, DropHandle, SaveRefused, PublishSyncFails,
     RetireWal, RetireFails, disk
<1> QED
  BY <1>1, <1>2, <1>3, <1>4, <1>5 DEF Next

(* The write path implements the atomic image: page 0 changes only by      *)
(* publishing an image that extends it, by a sync, or by a crash that      *)
(* falls back to the version last synced.                                  *)
THEOREM Page0Atomic == Spec => ImageIsAtomic
<1>1. Init => Page0!AtomicInit /\ ImageShown
  <2> SUFFICES ASSUME Init PROVE Page0!AtomicInit /\ ImageShown OBVIOUS
  <2>1. image = EmptyImage /\ stable = EmptyImage /\ pc = "closed" BY DEF Init
  <2>2. EmptyImage.last = 0 /\ EmptyImage.facts = {} BY DEF EmptyImage
  <2>3. ImageView(image) = [last |-> 0, facts |-> {}] /\ ImageView(stable) = ImageView(image)
    BY <2>1, <2>2, Zenon DEF ImageView
  <2>4. ImageShown BY <2>1 DEF ImageShown
  <2> QED BY <2>3, <2>4 DEF Page0!AtomicInit
<1>2. Spec => []ImageShown
  BY <1>1, Invariance, ImageShownStep, PTL DEF Spec
<1> QED
  BY <1>1, <1>2, Invariance, AtomicStep, PTL DEF Spec, ImageIsAtomic, Page0!AtomicSpec
=============================================================================
