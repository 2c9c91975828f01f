------------------------------ MODULE AuditLog ------------------------------
(****************************************************************************)
(* The audit log (internal/audit): entries signed and chained under the     *)
(* manager's mutex and stored after it is released, by the requests that    *)
(* log for themselves and by the writer of system entries, with retention   *)
(* deleting from the old end and verification reading the whole.            *)
(*                                                                          *)
(* A signature is named after the entry that carries it: the entry's stamp, *)
(* or NoHash for an unsigned one.  An HMAC covers previous_hash, so naming  *)
(* it loses only forgeries, which no action here makes.  nextStamp hands    *)
(* out strictly increasing stamps, so stamps also serve as ids; the clock   *)
(* is taken never to fall behind the stored entries across a restart.       *)
(****************************************************************************)
EXTENDS Integers, Sequences, FiniteSets, Functions

CONSTANTS
    Loggers,        \* requests that call Log
    SystemCalls,    \* calls of LogSystem, each with an identity
    QueueSize,      \* systemQueueSize
    BatchSize,      \* systemBatchSize
    Chunk,          \* chunkSize, rows retention deletes at once
    AuditDays,      \* audit.retention_days, 0 for none
    LogDays,        \* log.audit_log_retention_days, 0 for none
    InsertFails,    \* an insert may fail
    Crashes,        \* the process may restart
    Reconfigures,   \* auditing and signing may be switched off and on
    MaxStamp,       \* bound on entries signed
    MaxDay,         \* bound on days passed
    None

ASSUME SizesAssumption ==
    QueueSize \in Nat \ {0} /\ BatchSize \in Nat \ {0} /\ Chunk \in Nat \ {0}
ASSUME DaysAssumption == AuditDays \in Nat /\ LogDays \in Nat

NoHash == 0
Entries == [stamp : Nat \ {NoHash}, prev : Nat, signed : BOOLEAN, day : Nat]

ASSUME NoneAssumption == None \notin Entries

VARIABLES
    log,        \* the rows of audit_logs
    lastHash,   \* signature of the last entry signed
    lastStamp,
    anchor,     \* the tail anchor: its entry, or None
    mode,       \* Enabled and SignEntries: "signed", "unsigned" or "off"
    pending,    \* what each logger has signed and not yet stored and noted
    logged,     \* whether that is stored
    called,     \* LogSystem calls made
    queue,      \* those waiting for the writer
    taken,      \* the calls of the batch being written
    batch,      \* its signed entries
    batchPrev,  \* the hash the chain had before them
    writer,     \* where the writer is
    flush,      \* where Flush is
    owed,       \* history: calls queued when Flush was called
    chunk,      \* expired rows retention has read
    archived,   \* rows in the archive
    retired,    \* history: rows retention deleted
    today,
    lost,       \* history: the chain went on from an entry that is not stored
    overlapped  \* history: two signed entries waited to be stored at once

chain == <<lastHash, lastStamp>>
logging == <<pending, logged>>
writing == <<taken, batch, batchPrev, writer>>
flushing == <<flush, owed>>
retention == <<chunk, archived, retired, today>>
history == <<lost, overlapped>>
vars == <<log, chain, anchor, mode, logging, called, queue, writing, flushing,
          retention, history>>

Signature(e) == IF e.signed THEN e.stamp ELSE NoHash

Newest(es) == CHOOSE e \in es : \A f \in es : f.stamp <= e.stamp

Init ==
    /\ log = {} /\ lastHash = NoHash /\ lastStamp = 0 /\ anchor = None
    /\ mode = "signed"
    /\ pending = [l \in Loggers |-> None] /\ logged = [l \in Loggers |-> FALSE]
    /\ called = {} /\ queue = <<>> /\ taken = <<>> /\ batch = <<>> /\ batchPrev = NoHash
    /\ writer = "select" /\ flush = "none" /\ owed = {}
    /\ chunk = {} /\ archived = {} /\ retired = {} /\ today = 0
    /\ lost = FALSE /\ overlapped = FALSE

-----------------------------------------------------------------------------
(* Storing.                                                                 *)

Outcomes == IF InsertFails THEN BOOLEAN ELSE {TRUE}

\* noteStored: the anchor only moves forward.
noteStored(e) ==
    anchor' = IF anchor = None \/ e.stamp >= anchor.stamp THEN e ELSE anchor

\* The n entries that continue the chain, as signed under mu.
Chained(n) ==
    [i \in 1..n |-> [stamp |-> lastStamp + i,
                     prev |-> IF i = 1 THEN lastHash
                              ELSE IF mode = "signed" THEN lastStamp + i - 1 ELSE NoHash,
                     signed |-> mode = "signed", day |-> today]]

\* Signing kept the last signed hash across unsigned entries.
AdvanceSigned(n) ==
    /\ lastStamp' = lastStamp + n
    /\ lastHash' = IF mode = "signed" THEN lastStamp + n ELSE lastHash

\* Every entry, signed or not, is the predecessor of the next.
Advance(n) ==
    /\ lastStamp' = lastStamp + n
    /\ lastHash' = IF mode = "signed" THEN lastStamp + n ELSE NoHash

-----------------------------------------------------------------------------
(* Log, called by a request.                                                *)

\* What is signed and not stored.
InFlight ==
    {pending[l] : l \in {k \in Loggers : pending[k] # None /\ ~logged[k]}}
    \cup IF writer \in {"insert", "restore"} THEN Range(batch) ELSE {}

\* The bound leaves stamps for the system calls.
RoomToLog == lastStamp + Cardinality(SystemCalls) < MaxStamp

\* The anchor was moved when the entry was signed.
SignNoting(l) ==
    /\ pending[l] = None /\ mode # "off" /\ RoomToLog
    /\ Advance(1)
    /\ pending' = [pending EXCEPT ![l] = Chained(1)[1]]
    /\ noteStored(pending'[l])
    /\ overlapped' = (overlapped \/ InFlight # {})
    /\ UNCHANGED <<log, mode, logged, called, queue, writing, flushing, retention, lost>>

\* log up to the end of its critical section.
Sign(l) ==
    /\ pending[l] = None /\ mode # "off" /\ RoomToLog
    /\ Advance(1)
    /\ pending' = [pending EXCEPT ![l] = Chained(1)[1]]
    /\ overlapped' = (overlapped \/ InFlight # {})
    /\ UNCHANGED <<log, anchor, mode, logged, called, queue, writing, flushing,
                   retention, lost>>

\* log: the insert, with the request's own context.  A failure is only logged.
Insert(l) ==
    /\ pending[l] # None /\ ~logged[l]
    /\ \E ok \in Outcomes :
          /\ log' = IF ok THEN log \cup {pending[l]} ELSE log
          /\ logged' = [logged EXCEPT ![l] = ok]
          /\ pending' = IF ok THEN pending ELSE [pending EXCEPT ![l] = None]
          /\ lost' = (lost \/ ~ok)
    /\ UNCHANGED <<chain, anchor, mode, called, queue, writing, flushing, retention,
                   overlapped>>

NoteLogged(l) ==
    /\ logged[l]
    /\ noteStored(pending[l])
    /\ pending' = [pending EXCEPT ![l] = None]
    /\ logged' = [logged EXCEPT ![l] = FALSE]
    /\ UNCHANGED <<log, chain, mode, called, queue, writing, flushing, retention,
                   history>>

-----------------------------------------------------------------------------
(* LogSystem and its writer.                                                *)

Queued == Range(queue) \cup Range(taken)

\* logSystem: queued, or dropped when the queue is full.
logSystem(c) ==
    /\ c \notin called
    /\ called' = called \cup {c}
    /\ queue' = IF Len(queue) < QueueSize THEN Append(queue, c) ELSE queue
    /\ UNCHANGED <<log, chain, anchor, mode, logging, writing, flushing, retention,
                   history>>

FlushFrame ==
    UNCHANGED <<log, chain, anchor, mode, logging, called, queue, writing, retention,
                history>>

\* Flush: ask the writer, which answers between two batches.
Flush ==
    /\ flush = "none"
    /\ flush' = "asked" /\ owed' = Queued
    /\ FlushFrame

AcceptFlush ==
    /\ writer = "select" /\ flush = "asked"
    /\ flush' = "served" /\ UNCHANGED owed
    /\ FlushFrame

\* The flush was acknowledged without looking at the queue.
AckEarly ==
    /\ writer = "select" /\ flush = "served"
    /\ flush' = "acked" /\ UNCHANGED owed
    /\ FlushFrame

\* The queue was found empty.
AckFlush ==
    /\ writer = "select" /\ flush = "served" /\ queue = <<>>
    /\ flush' = "acked" /\ UNCHANGED owed
    /\ FlushFrame

FlushReturns ==
    /\ flush = "acked"
    /\ flush' = "none" /\ owed' = {}
    /\ FlushFrame

WriterFrame == UNCHANGED <<mode, logging, called, flushing, retention>>

\* runWriter and fill: take what is queued, up to a batch.
Fill ==
    LET n == IF Len(queue) < BatchSize THEN Len(queue) ELSE BatchSize IN
    /\ writer = "select" /\ queue # <<>>
    /\ taken' = SubSeq(queue, 1, n)
    /\ queue' = SubSeq(queue, n + 1, Len(queue))
    /\ writer' = "sign"
    /\ WriterFrame
    /\ UNCHANGED <<log, chain, anchor, batch, batchPrev, history>>

signSystem ==
    /\ writer = "sign" /\ mode # "off"
    /\ Advance(Len(taken))
    /\ batch' = Chained(Len(taken)) /\ batchPrev' = lastHash
    /\ writer' = "insert"
    /\ overlapped' = (overlapped \/ InFlight # {})
    /\ WriterFrame
    /\ UNCHANGED <<log, anchor, queue, taken, lost>>

\* insertAll: one transaction.
insertAll ==
    /\ writer = "insert"
    /\ \E ok \in Outcomes :
          /\ log' = IF ok THEN log \cup Range(batch) ELSE log
          /\ writer' = IF ok THEN "note" ELSE "restore"
    /\ WriterFrame
    /\ UNCHANGED <<chain, anchor, queue, taken, batch, batchPrev, history>>

BatchDone ==
    /\ writer' = "select" /\ taken' = <<>> /\ batch' = <<>> /\ batchPrev' = NoHash
    /\ WriterFrame
    /\ UNCHANGED <<log, lastStamp, queue, overlapped>>

\* signSystem with auditing off: the batch is gone.
DropBatch ==
    /\ writer = "sign" /\ mode = "off"
    /\ BatchDone
    /\ UNCHANGED <<anchor, lastHash, lost>>

NoteBatch ==
    /\ writer = "note"
    /\ noteStored(batch[Len(batch)])
    /\ BatchDone
    /\ UNCHANGED <<lastHash, lost>>

\* The chain went on from what was not stored.
RestoreNothing ==
    /\ writer = "restore"
    /\ lost' = (lost \/ lastStamp # batch[Len(batch)].stamp)
    /\ BatchDone
    /\ UNCHANGED <<anchor, lastHash>>

\* writeSystem after a failure: the chain goes on from where it was, unless
\* someone has signed since.
Restore ==
    /\ writer = "restore"
    /\ lastHash' = IF lastHash = Signature(batch[Len(batch)]) THEN batchPrev ELSE lastHash
    /\ lost' = (lost \/ lastStamp # batch[Len(batch)].stamp)
    /\ BatchDone
    /\ UNCHANGED anchor

-----------------------------------------------------------------------------
(* Retention.                                                               *)

\* effectiveRetentionDays: the shorter of the two that are set.
effectiveRetentionDays ==
    IF AuditDays = 0 THEN LogDays
    ELSE IF LogDays = 0 THEN AuditDays
    ELSE IF AuditDays < LogDays THEN AuditDays ELSE LogDays

Expired == {e \in log : e.day < today - effectiveRetentionDays}

\* The n oldest.
Oldest(es, n) == {e \in es : Cardinality({f \in es : f.stamp < e.stamp}) < n}

RetentionFrame ==
    UNCHANGED <<chain, anchor, mode, logging, called, queue, writing, flushing, history>>

\* retireChunk: read the oldest expired rows and archive them ...
Archive ==
    /\ effectiveRetentionDays > 0 /\ chunk = {} /\ Expired # {}
    /\ chunk' = Oldest(Expired, Chunk)
    /\ archived' = archived \cup chunk'
    /\ RetentionFrame
    /\ UNCHANGED <<log, retired, today>>

\* Whatever had expired was deleted.
DeleteExpired ==
    /\ chunk # {}
    /\ log' = log \ Expired
    /\ retired' = retired \cup Expired
    /\ chunk' = {}
    /\ RetentionFrame
    /\ UNCHANGED <<archived, today>>

\* ... and delete exactly those.
deleteEntries ==
    /\ chunk # {}
    /\ log' = log \ chunk
    /\ retired' = retired \cup chunk
    /\ chunk' = {}
    /\ RetentionFrame
    /\ UNCHANGED <<archived, today>>

\* Retention counts days: an insert that began has ended when one passes.
DayPasses ==
    /\ today < MaxDay
    /\ batch = <<>> /\ \A l \in Loggers : pending[l] = None
    /\ today' = today + 1
    /\ RetentionFrame
    /\ UNCHANGED <<log, chunk, archived, retired>>

-----------------------------------------------------------------------------
\* UpdateConfig: auditing or signing is switched.
UpdateConfig ==
    /\ Reconfigures
    /\ mode' \in {"signed", "unsigned", "off"} \ {mode}
    /\ UNCHANGED <<log, chain, anchor, logging, called, queue, writing, flushing,
                   retention, history>>

\* A crash, and Init with loadLastHash: the newest row is the last hash and the
\* tail anchor.
Restart ==
    /\ Crashes
    /\ lastHash' = IF log = {} THEN NoHash ELSE Signature(Newest(log))
    /\ anchor' = IF log = {} THEN None ELSE Newest(log)
    /\ pending' = [l \in Loggers |-> None] /\ logged' = [l \in Loggers |-> FALSE]
    /\ queue' = <<>> /\ taken' = <<>> /\ batch' = <<>> /\ batchPrev' = NoHash
    /\ writer' = "select" /\ flush' = "none" /\ owed' = {}
    /\ chunk' = {}
    /\ lost' = (lost \/ \E e \in InFlight, f \in log : e.stamp < f.stamp)
    /\ UNCHANGED <<log, lastStamp, mode, called, archived, retired, today, overlapped>>

Next ==
    \/ \E l \in Loggers : Sign(l) \/ Insert(l) \/ NoteLogged(l)
    \/ \E c \in SystemCalls : logSystem(c)
    \/ Flush \/ AcceptFlush \/ AckFlush \/ FlushReturns
    \/ Fill \/ signSystem \/ DropBatch \/ insertAll \/ NoteBatch \/ Restore
    \/ Archive \/ deleteEntries \/ DayPasses
    \/ UpdateConfig \/ Restart

Spec == Init /\ [][Next]_vars

-----------------------------------------------------------------------------
\* Types.
TypeOK ==
    /\ log \subseteq Entries /\ IsFiniteSet(log)
    /\ lastHash \in Nat /\ lastStamp \in Nat
    /\ anchor \in Entries \cup {None}
    /\ mode \in {"signed", "unsigned", "off"}
    /\ pending \in [Loggers -> Entries \cup {None}]
    /\ logged \in [Loggers -> BOOLEAN]
    /\ called \subseteq SystemCalls
    /\ queue \in Seq(called) /\ Len(queue) <= QueueSize
    /\ taken \in Seq(called) /\ Len(taken) <= BatchSize
    /\ batch \in Seq(Entries) /\ batchPrev \in Nat
    /\ writer \in {"select", "sign", "insert", "note", "restore"}
    /\ flush \in {"none", "asked", "served", "acked"} /\ owed \subseteq called
    /\ chunk \subseteq log /\ archived \subseteq Entries /\ retired \subseteq Entries
    /\ today \in Nat
    /\ lost \in BOOLEAN /\ overlapped \in BOOLEAN

Quiet == writer \in {"select", "sign"} /\ \A l \in Loggers : pending[l] = None

\* What the row before e in the order VerifyRange reads them is.
Before(e) == {f \in log : f.stamp < e.stamp}

Follows(e) == Before(e) # {} => e.prev = Signature(Newest(Before(e)))

\* Whatever was switched, retired or restarted, and in whatever order writers
\* store: unless the chain went on from an entry that was never stored, each
\* stored entry carries the signature of the one stored before it, and the next
\* will.  "Every entry, signed or not, is the predecessor of the next".
ChainIntact ==
    Quiet /\ ~lost => /\ \A e \in log : Follows(e)
                      /\ log # {} => lastHash = Signature(Newest(log))

\* "The chain is in the order they are stored": as long as no two entries waited
\* to be stored at once, there is no moment at which a stored entry's predecessor
\* is missing and a verification would call it removed, crashes and failed
\* batches included.
StoredInOrder ==
    ~lost /\ ~overlapped =>
        \A e \in log : e.prev = NoHash \/ \E f \in log \cup retired : f.stamp = e.prev

\* checkTail: an anchor that should be in the log is missing from it.
TailMissing ==
    /\ anchor # None
    /\ ~(AuditDays > 0 /\ anchor.day < today - AuditDays)
    /\ anchor \notin log

\* "An anchor older than the retention period is not looked for: retention may
\* have deleted it, and that is not tampering": nobody tampers here, so the tail
\* is never reported missing.
TailNeverMissing == ~TailMissing

\* "A row is never removed unless it is in the archive written just before",
\* with entries of earlier days being stored while retention runs.
ArchivedFirst == retired \subseteq archived

\* "Flush waits until every system entry queued before it is stored": when it is
\* answered none of those is queued or in the writer's hands.
FlushDelivers == flush = "acked" => owed \cap Queued = {}
=============================================================================
