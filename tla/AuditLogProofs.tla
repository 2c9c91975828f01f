--------------------------- MODULE AuditLogProofs ---------------------------
(* What is proved of the audit log, for any number of requests and system   *)
(* calls, any sizes and retention, and whatever fails, restarts or is       *)
(* switched: the stored chain is intact, stored entries find their          *)
(* predecessors, the tail is not missed, rows are archived before they are  *)
(* deleted and Flush delivers.                                              *)
EXTENDS AuditLog, FiniteSetTheorems, TLAPS

USE ZenonT(20), SMTT(60)

-----------------------------------------------------------------------------
(* The inductive invariant.                                                 *)

\* The entries that have a place in the chain, stored or about to be.
Live == log \cup InFlight

\* A request has signed its entry and not stored it.
Waits(l) == pending[l] # None /\ ~logged[l]

\* Where the writer is tells what it holds.
WriterOK ==
    /\ writer = "select" => taken = <<>>
    /\ writer # "select" => taken # <<>>
    /\ writer \in {"select", "sign"} => batch = <<>>
    /\ writer \notin {"select", "sign"} => batch # <<>>

\* A batch has consecutive stamps; until it is stored nobody else has its
\* entries, and batchPrev is what the first of them names.
BatchOK ==
    /\ \A i \in 1..Len(batch) : batch[i].stamp = batch[1].stamp + (i - 1)
    /\ writer \in {"insert", "restore"} =>
          /\ batchPrev = batch[1].prev
          /\ \A i \in 1..Len(batch) :
                batch[i] \notin log /\ \A l \in Loggers : Waits(l) => pending[l] # batch[i]

\* What the anchor may move to is stored, or was and has been retired.
Noted ==
    /\ anchor # None => anchor \in log \cup retired
    /\ \A l \in Loggers : logged[l] => pending[l] \in log \cup retired
    /\ writer = "note" => Range(batch) \subseteq log \cup retired

\* Only rows past their time are retired.
Outlived ==
    \A e \in chunk \cup retired :
        effectiveRetentionDays > 0 /\ e.day < today - effectiveRetentionDays

\* What retention has read or deleted is in the archive.
Saved == chunk \cup retired \subseteq archived

\* Stamps are unique and grow with the days; what waits to be stored is of today.
Ordered ==
    /\ \A e \in Live : e.stamp <= lastStamp /\ e.day <= today
    /\ \A e, f \in Live : e.stamp = f.stamp => e = f
    /\ \A e, f \in Live : e.stamp < f.stamp => e.day <= f.day
    /\ \A e \in InFlight : e.day = today

\* Retention takes from the old end, also of what is stored while it runs.
OldEnd ==
    \A e \in chunk, f \in Live : f.stamp < e.stamp => f \in chunk

\* f is the last of es before e.
Precedes(f, e, es) ==
    f.stamp < e.stamp /\ \A g \in es : ~(f.stamp < g.stamp /\ g.stamp < e.stamp)

Top(f, es) == \A g \in es : g.stamp <= f.stamp

\* Each entry with a place in the chain names the one before it, and the next
\* will name the newest.
Linked ==
    ~lost => /\ \A e, f \in Live : Precedes(f, e, Live) => e.prev = Signature(f)
             /\ \A f \in Live : Top(f, Live) => lastHash = Signature(f)

\* A hash that a verification finds.
Found(h, es) == h = NoHash \/ \E f \in es : f.stamp = h

RowsFound == \A e \in log : Found(e.prev, log \cup retired)

LastFound == Found(lastHash, log \cup retired \cup InFlight)

RequestAlone ==
    \A l \in Loggers : Waits(l) =>
        /\ Found(pending[l].prev, log \cup retired)
        /\ writer \notin {"insert", "restore"}
        /\ \A k \in Loggers : Waits(k) => k = l

BatchInTurn ==
    writer \in {"insert", "restore"} =>
        /\ Found(batchPrev, log \cup retired)
        /\ \A i \in 2..Len(batch) :
              batch[i].prev = NoHash \/ batch[i].prev = batch[i - 1].stamp

\* While no two entries have waited at once, whatever waits names a stored entry
\* or one of its own batch.
InTurn == ~lost /\ ~overlapped => RowsFound /\ LastFound /\ RequestAlone /\ BatchInTurn

Inv ==
    /\ TypeOK /\ WriterOK /\ BatchOK /\ Noted /\ Outlived /\ Saved
    /\ Ordered /\ OldEnd /\ Linked /\ InTurn /\ FlushDelivers

-----------------------------------------------------------------------------
(* Facts about sequences and sets of entries.                               *)

LEMMA SetOfSeq ==
    ASSUME NEW S, NEW q \in Seq(S)
    PROVE  /\ Range(q) = {q[i] : i \in 1..Len(q)} /\ Range(q) \subseteq S
           /\ IsFiniteSet(Range(q))
           /\ q = <<>> <=> Len(q) = 0
           /\ q # <<>> => Len(q) >= 1 /\ q[Len(q)] \in Range(q)
<1>1. Range(q) = {q[i] : i \in 1..Len(q)} /\ Range(q) \subseteq S /\ Len(q) \in Nat
    BY SMTT(60) DEF Range
<1>2. q \in Surjection(1..Len(q), Range(q))
    BY SMTT(60), <1>1 DEF Surjection
<1>3. IsFiniteSet(Range(q))
    BY SMTT(60), <1>1, <1>2, FS_Surjection, FS_Interval
<1>4. q = <<>> <=> Len(q) = 0
    BY SMTT(60)
<1>5. q # <<>> => Len(q) >= 1
    BY SMTT(60), <1>1, <1>4
<1>6. q # <<>> => q[Len(q)] \in Range(q)
    BY SMTT(60), <1>1, <1>5
<1> QED BY <1>1, <1>3, <1>4, <1>5, <1>6

LEMMA SetOfNone == Range(<<>>) = {}
BY SMTT(60) DEF Range

\* Among finitely many entries one is the newest, and stamps tell which.
LEMMA NewestExists ==
    ASSUME NEW es \in SUBSET Entries, IsFiniteSet(es), es # {}
    PROVE  Newest(es) \in es /\ Top(Newest(es), es)
<1> DEFINE Over(x) == {y \in es : x.stamp < y.stamp}
           T == {Over(x) : x \in es}
<1>1. T \subseteq FiniteSubsetsOf(es) /\ T # {}
  <2>1. FiniteSubsetsOf(es) = SUBSET es
      BY FS_FiniteSubsetsOfFinite
  <2>2. T \in SUBSET (SUBSET es)
      OBVIOUS
  <2>3. PICK x \in es : TRUE
      OBVIOUS
  <2>4. Over(x) \in T
      OBVIOUS
  <2> HIDE DEF T
  <2> QED BY <2>1, <2>2, <2>4
<1>2. IsWellFoundedOn(StrictSubsetOrdering(es), FiniteSubsetsOf(es))
    BY FS_StrictSubsetOrderingWellFounded
<1> HIDE DEF T
<1>3. PICK u \in T : \A v \in T : <<v, u>> \notin StrictSubsetOrdering(es)
    BY <1>1, <1>2, WFMin
<1> USE DEF T
<1>4. PICK x \in es : u = Over(x)
    OBVIOUS
<1>0. \A y \in es : y.stamp \in Nat
    BY DEF Entries
<1>5. ASSUME NEW y \in es, x.stamp < y.stamp PROVE FALSE
  <2>1. Over(y) \subseteq Over(x)
      BY SMTT(60), <1>0, <1>5
  <2>2. y \in Over(x) /\ y \notin Over(y)
      BY SMTT(60), <1>0, <1>5
  <2>3. <<Over(y), Over(x)>> \in StrictSubsetOrdering(es)
      BY <2>1, <2>2 DEF StrictSubsetOrdering
  <2> QED BY <1>3, <1>4, <2>3
<1>6. \A f \in es : f.stamp <= x.stamp
    BY SMTT(60), <1>0, <1>5
<1> QED BY <1>6 DEF Newest, Top

\* What is signed under mu continues the chain.
LEMMA ChainedOK ==
    ASSUME TypeOK, NEW n \in Nat
    PROVE  /\ Chained(n) \in Seq(Entries) /\ Len(Chained(n)) = n
           /\ \A i \in 1..n :
                 /\ Chained(n)[i] \in Entries
                 /\ Chained(n)[i].stamp = lastStamp + i
                 /\ Chained(n)[i].day = today
                 /\ Signature(Chained(n)[i]) = IF mode = "signed" THEN lastStamp + i ELSE NoHash
                 /\ Chained(n)[i].prev = IF i = 1 THEN lastHash
                                        ELSE IF mode = "signed" THEN lastStamp + i - 1
                                        ELSE NoHash
<1>0. lastStamp \in Nat /\ lastHash \in Nat /\ today \in Nat
    BY DEF TypeOK
<1>1. \A i \in 1..n : Chained(n)[i] \in Entries
    BY SMTT(60), <1>0 DEF Chained, Entries, NoHash
<1>2. Chained(n) \in [1..n -> Entries]
    BY <1>1 DEF Chained
<1>3. Chained(n) \in Seq(Entries) /\ Len(Chained(n)) = n
    BY SMTT(60), <1>2
<1>4. \A i \in 1..n :
          /\ Chained(n)[i].stamp = lastStamp + i /\ Chained(n)[i].day = today
          /\ Chained(n)[i].signed = (mode = "signed")
          /\ Chained(n)[i].prev = IF i = 1 THEN lastHash
                                 ELSE IF mode = "signed" THEN lastStamp + i - 1 ELSE NoHash
    BY SMTT(60), <1>0 DEF Chained
<1> QED BY <1>1, <1>3, <1>4 DEF Signature

-----------------------------------------------------------------------------
(* Types.                                                                   *)

LEMMA TypeInit == Init => TypeOK
<1> SUFFICES ASSUME Init PROVE TypeOK
    OBVIOUS
<1>1. \A S : <<>> \in Seq(S) /\ Len(<<>>) = 0
    BY SMTT(60)
<1>2. IsFiniteSet(log)
    BY FS_EmptySet DEF Init
<1>3. 0 <= QueueSize /\ 0 <= BatchSize
    BY SMTT(60), SizesAssumption
<1>4. NoHash \in Nat /\ 0 \in Nat
    BY SMTT(60) DEF NoHash
<1> QED BY <1>1, <1>2, <1>3, <1>4 DEF Init, TypeOK

\* noteStored moves the anchor to an entry or leaves it.
LEMMA NoteType ==
    ASSUME NEW e, noteStored(e) PROVE anchor' = e \/ anchor' = anchor
BY DEF noteStored

LEMMA TypeNext == TypeOK /\ WriterOK /\ [Next]_vars => TypeOK'
<1> SUFFICES ASSUME TypeOK, WriterOK, [Next]_vars PROVE TypeOK'
    OBVIOUS
<1>1. ASSUME NEW l \in Loggers, Sign(l) PROVE TypeOK'
  <2>1. 1 \in Nat /\ 1 \in 1..1
      BY SMTT(60)
  <2>2. Chained(1)[1] \in Entries
      BY <2>1, ChainedOK
  <2>3. lastHash' \in Nat /\ lastStamp' \in Nat
      BY SMTT(60), <1>1 DEF Sign, Advance, NoHash, TypeOK
  <2>4. pending' \in [Loggers -> Entries \cup {None}]
      BY <1>1, <2>2 DEF Sign, TypeOK
  <2>5. overlapped' \in BOOLEAN
      BY <1>1 DEF Sign
  <2> QED BY <1>1, <2>3, <2>4, <2>5 DEF Sign, writing, flushing, retention, TypeOK
<1>2. ASSUME NEW l \in Loggers, Insert(l) PROVE TypeOK'
  <2>1. PICK ok \in Outcomes :
           /\ log' = IF ok THEN log \cup {pending[l]} ELSE log
           /\ logged' = [logged EXCEPT ![l] = ok]
           /\ pending' = IF ok THEN pending ELSE [pending EXCEPT ![l] = None]
           /\ lost' = (lost \/ ~ok)
      BY <1>2 DEF Insert
  <2>2. ok \in BOOLEAN /\ pending[l] \in Entries
      BY <1>2 DEF Outcomes, Insert, TypeOK
  <2>3. IsFiniteSet(log \cup {pending[l]})
      BY FS_AddElement DEF TypeOK
  <2>4. log' \subseteq Entries /\ IsFiniteSet(log') /\ log \subseteq log'
      BY <2>1, <2>2, <2>3 DEF TypeOK
  <2>5. logged' \in [Loggers -> BOOLEAN] /\ pending' \in [Loggers -> Entries \cup {None}]
      BY <2>1, <2>2 DEF TypeOK
  <2>6. chunk' \subseteq log' /\ lost' \in BOOLEAN
      BY <1>2, <2>1, <2>4 DEF Insert, retention, TypeOK
  <2> QED BY <1>2, <2>4, <2>5, <2>6 DEF Insert, chain, writing, flushing, retention, TypeOK
<1>3. ASSUME NEW l \in Loggers, NoteLogged(l) PROVE TypeOK'
  <2>1. anchor' \in Entries \cup {None}
      BY <1>3, NoteType DEF NoteLogged, TypeOK
  <2>2. logged' \in [Loggers -> BOOLEAN] /\ pending' \in [Loggers -> Entries \cup {None}]
      BY <1>3 DEF NoteLogged, TypeOK
  <2> QED BY <1>3, <2>1, <2>2 DEF NoteLogged, chain, writing, flushing, retention, history,
          TypeOK
<1>4. ASSUME NEW c \in SystemCalls, logSystem(c) PROVE TypeOK'
  <2>1. called' = called \cup {c} /\ called' \subseteq SystemCalls
      BY <1>4 DEF logSystem, TypeOK
  <2>2. taken \in Seq(called') /\ queue \in Seq(called')
      BY SMTT(60), <2>1 DEF TypeOK
  <2>3. queue' \in Seq(called') /\ Len(queue') <= QueueSize
    <3>1. CASE Len(queue) < QueueSize
      <4>1. queue' = Append(queue, c)
          BY <1>4, <3>1 DEF logSystem
      <4> QED BY SMTT(60), <2>1, <2>2, <3>1, <4>1, SizesAssumption
    <3>2. CASE ~(Len(queue) < QueueSize)
        BY <1>4, <2>2, <3>2 DEF logSystem, TypeOK
    <3> QED BY <3>1, <3>2
  <2> QED BY <1>4, <2>1, <2>2, <2>3 DEF logSystem, chain, logging, writing, flushing,
          retention, history, TypeOK
<1>5. ASSUME Flush \/ AcceptFlush \/ AckFlush \/ FlushReturns PROVE TypeOK'
  <2>1. Queued \subseteq called
      BY SetOfSeq DEF Queued, TypeOK
  <2>2. flush' \in {"none", "asked", "served", "acked"} /\ owed' \subseteq called
      BY <1>5, <2>1 DEF Flush, AcceptFlush, AckFlush, FlushReturns, TypeOK
  <2>3. FlushFrame
      BY <1>5 DEF Flush, AcceptFlush, AckFlush, FlushReturns
  <2> QED BY <2>2, <2>3 DEF FlushFrame, chain, logging, writing, retention, history, TypeOK
<1>6. ASSUME Fill PROVE TypeOK'
  <2> DEFINE n == IF Len(queue) < BatchSize THEN Len(queue) ELSE BatchSize
  <2>1. n \in Nat /\ n <= Len(queue) /\ n <= BatchSize /\ Len(queue) \in Nat
      BY SMTT(60), SizesAssumption DEF TypeOK
  <2>2. taken' = SubSeq(queue, 1, n) /\ queue' = SubSeq(queue, n + 1, Len(queue))
      BY <1>6 DEF Fill
  <2> HIDE DEF n
  <2>3. taken' \in Seq(called) /\ Len(taken') <= BatchSize
      BY SMTT(60), <2>1, <2>2 DEF TypeOK
  <2>4. queue' \in Seq(called) /\ Len(queue') <= QueueSize
      BY SMTT(60), <2>1, <2>2, SizesAssumption DEF TypeOK
  <2> QED BY <1>6, <2>3, <2>4 DEF Fill, WriterFrame, chain, logging, flushing, retention,
          history, TypeOK
<1>7. ASSUME signSystem PROVE TypeOK'
  <2>1. Len(taken) \in Nat
      BY SMTT(60) DEF TypeOK
  <2>2. batch' \in Seq(Entries)
      BY <1>7, <2>1, ChainedOK DEF signSystem
  <2>3. lastHash' \in Nat /\ lastStamp' \in Nat /\ batchPrev' \in Nat
      BY SMTT(60), <1>7, <2>1 DEF signSystem, Advance, NoHash, TypeOK
  <2>4. overlapped' \in BOOLEAN
      BY <1>7 DEF signSystem
  <2> QED BY <1>7, <2>2, <2>3, <2>4 DEF signSystem, WriterFrame, logging, flushing,
          retention, TypeOK
<1>8. ASSUME insertAll PROVE TypeOK'
  <2>1. Range(batch) \subseteq Entries /\ IsFiniteSet(Range(batch))
      BY SetOfSeq DEF TypeOK
  <2>2. IsFiniteSet(log \cup Range(batch))
      BY <2>1, FS_Union DEF TypeOK
  <2>3. log' \subseteq Entries /\ IsFiniteSet(log') /\ chunk' \subseteq log'
      BY <1>8, <2>1, <2>2 DEF insertAll, WriterFrame, retention, TypeOK
  <2>4. writer' \in {"note", "restore"}
      BY <1>8 DEF insertAll
  <2> QED BY <1>8, <2>3, <2>4 DEF insertAll, WriterFrame, chain, logging, flushing,
          retention, history, TypeOK
<1>9. ASSUME DropBatch \/ NoteBatch \/ Restore PROVE TypeOK'
  <2>1. BatchDone
      BY <1>9 DEF DropBatch, NoteBatch, Restore
  <2>2. taken' \in Seq(called) /\ Len(taken') <= BatchSize /\ batch' \in Seq(Entries)
        /\ batchPrev' \in Nat
      BY SMTT(60), <2>1, SizesAssumption DEF BatchDone, NoHash
  <2>3. anchor' \in Entries \cup {None}
    <3>1. CASE NoteBatch
      <4>1. batch[Len(batch)] \in Entries
          BY <3>1, SetOfSeq DEF NoteBatch, WriterOK, TypeOK
      <4> QED BY <3>1, <4>1, NoteType DEF NoteBatch, TypeOK
    <3> QED BY <1>9, <3>1 DEF DropBatch, Restore, TypeOK
  <2>4. lastHash' \in Nat /\ lost' \in BOOLEAN
      BY <1>9 DEF DropBatch, NoteBatch, Restore, TypeOK
  <2> QED BY <2>1, <2>2, <2>3, <2>4 DEF BatchDone, WriterFrame, logging, flushing, retention,
          TypeOK
<1>10. ASSUME Archive PROVE TypeOK'
  <2>1. chunk' \subseteq log
      BY <1>10 DEF Archive, Oldest, Expired
  <2>2. archived' \subseteq Entries
      BY <1>10, <2>1 DEF Archive, TypeOK
  <2> QED BY <1>10, <2>1, <2>2 DEF Archive, RetentionFrame, chain, logging, writing,
          flushing, history, TypeOK
<1>11. ASSUME deleteEntries PROVE TypeOK'
  <2>1. IsFiniteSet(log \ chunk)
      BY FS_Difference DEF TypeOK
  <2>2. log' \subseteq Entries /\ IsFiniteSet(log') /\ chunk' \subseteq log'
      BY <1>11, <2>1 DEF deleteEntries, TypeOK
  <2>3. retired' \subseteq Entries
      BY <1>11 DEF deleteEntries, TypeOK
  <2> QED BY <1>11, <2>2, <2>3 DEF deleteEntries, RetentionFrame, chain, logging, writing,
          flushing, history, TypeOK
<1>12. ASSUME DayPasses PROVE TypeOK'
  <2>1. today' \in Nat
      BY SMTT(60), <1>12 DEF DayPasses, TypeOK
  <2> QED BY <1>12, <2>1 DEF DayPasses, RetentionFrame, chain, logging, writing, flushing,
          history, TypeOK
<1>13. ASSUME UpdateConfig PROVE TypeOK'
    BY <1>13 DEF UpdateConfig, chain, logging, writing, flushing, retention, history, TypeOK
<1>14. ASSUME Restart PROVE TypeOK'
  <2>1. log # {} => Newest(log) \in Entries
      BY NewestExists DEF TypeOK
  <2>2. lastHash' \in Nat /\ anchor' \in Entries \cup {None}
      BY SMTT(60), <1>14, <2>1 DEF Restart, Signature, NoHash, Entries
  <2>3. pending' \in [Loggers -> Entries \cup {None}] /\ logged' \in [Loggers -> BOOLEAN]
      BY <1>14 DEF Restart
  <2>4. /\ queue' \in Seq(called) /\ Len(queue') <= QueueSize
        /\ taken' \in Seq(called) /\ Len(taken') <= BatchSize
        /\ batch' \in Seq(Entries) /\ batchPrev' \in Nat
      BY SMTT(60), <1>14, SizesAssumption DEF Restart, NoHash
  <2>5. owed' = {} /\ chunk' = {} /\ lost' \in BOOLEAN
      BY <1>14 DEF Restart
  <2> QED BY <1>14, <2>2, <2>3, <2>4, <2>5 DEF Restart, TypeOK
<1>15. ASSUME UNCHANGED vars PROVE TypeOK'
    BY <1>15 DEF vars, chain, logging, writing, flushing, retention, history, TypeOK
<1> QED BY <1>1, <1>2, <1>3, <1>4, <1>5, <1>6, <1>7, <1>8, <1>9, <1>10, <1>11, <1>12,
        <1>13, <1>14, <1>15 DEF Next
-----------------------------------------------------------------------------
(* The writer, the anchor, retention and Flush.                             *)

LEMMA WriterNext == TypeOK /\ WriterOK /\ [Next]_vars => WriterOK'
<1> SUFFICES ASSUME TypeOK, WriterOK, [Next]_vars PROVE WriterOK'
    OBVIOUS
<1>1. ASSUME UNCHANGED <<taken, batch, writer>> PROVE WriterOK'
    BY <1>1 DEF WriterOK
<1>2. ASSUME Fill PROVE WriterOK'
  <2> DEFINE n == IF Len(queue) < BatchSize THEN Len(queue) ELSE BatchSize
  <2>1. n \in Nat \ {0} /\ n <= Len(queue) /\ Len(queue) \in Nat
      BY SMTT(60), <1>2, SizesAssumption DEF Fill, TypeOK
  <2>2. taken' = SubSeq(queue, 1, n)
      BY <1>2 DEF Fill
  <2> HIDE DEF n
  <2>3. Len(taken') = n
      BY SMTT(60), <2>1, <2>2 DEF TypeOK
  <2>4. taken' # <<>>
      BY SMTT(60), <2>1, <2>3
  <2> QED BY <1>2, <2>4 DEF Fill, WriterOK
<1>3. ASSUME signSystem PROVE WriterOK'
  <2>1. Len(taken) \in Nat \ {0}
      BY SMTT(60), <1>3 DEF signSystem, WriterOK, TypeOK
  <2>2. batch' \in Seq(Entries) /\ Len(batch') = Len(taken)
      BY <1>3, <2>1, ChainedOK DEF signSystem
  <2>3. batch' # <<>>
      BY SMTT(60), <2>1, <2>2
  <2> QED BY <1>3, <2>3 DEF signSystem, WriterOK
<1>4. ASSUME insertAll PROVE WriterOK'
    BY <1>4 DEF insertAll, WriterOK
<1>5. ASSUME BatchDone PROVE WriterOK'
    BY <1>5 DEF BatchDone, WriterOK
<1>6. ASSUME Restart PROVE WriterOK'
    BY <1>6 DEF Restart, WriterOK
<1>7. \/ Fill \/ signSystem \/ insertAll \/ BatchDone \/ Restart
      \/ UNCHANGED <<taken, batch, writer>>
    BY DEF Next, Sign, Insert, NoteLogged, logSystem, Flush, AcceptFlush, AckFlush,
       FlushReturns, FlushFrame, DropBatch, NoteBatch, Restore, Archive, deleteEntries,
       DayPasses, RetentionFrame, UpdateConfig, vars, writing
<1> QED BY <1>1, <1>2, <1>3, <1>4, <1>5, <1>6, <1>7

\* Nothing that was stored is forgotten: it is a row, or retired.
LEMMA StoredStays == [Next]_vars => log \cup retired \subseteq log' \cup retired'
<1> SUFFICES ASSUME [Next]_vars PROVE log \cup retired \subseteq log' \cup retired'
    OBVIOUS
<1>1. ASSUME NEW l \in Loggers, Insert(l) PROVE log \subseteq log' /\ retired' = retired
    BY <1>1 DEF Insert, retention
<1>2. ASSUME insertAll PROVE log \subseteq log' /\ retired' = retired
    BY <1>2 DEF insertAll, WriterFrame, retention
<1>3. ASSUME deleteEntries PROVE log \cup retired \subseteq log' \cup retired'
    BY <1>3 DEF deleteEntries
<1>4. \/ \E l \in Loggers : Insert(l)
      \/ insertAll \/ deleteEntries \/ (log' = log /\ retired' = retired)
    BY DEF Next, Sign, NoteLogged, logSystem, Flush, AcceptFlush, AckFlush,
       FlushReturns, FlushFrame, Fill, signSystem, DropBatch, NoteBatch, Restore, BatchDone,
       WriterFrame, Archive, DayPasses, RetentionFrame, UpdateConfig, Restart, vars, retention
<1> QED BY <1>1, <1>2, <1>3, <1>4

LEMMA NotedNext == TypeOK /\ WriterOK /\ Noted /\ [Next]_vars => Noted'
<1> SUFFICES ASSUME TypeOK, WriterOK, Noted, [Next]_vars PROVE Noted'
    OBVIOUS
<1> USE StoredStays
<1>1. ASSUME NEW l \in Loggers, Sign(l) PROVE Noted'
  <2>1. ~logged[l]
      BY <1>1, NoneAssumption DEF Sign, Noted, TypeOK
  <2>2. \A k \in Loggers : logged'[k] => pending'[k] = pending[k]
      BY <1>1, <2>1 DEF Sign, TypeOK
  <2> QED BY <1>1, <2>2 DEF Sign, Noted, writing
<1>2. ASSUME NEW l \in Loggers, Insert(l) PROVE Noted'
  <2>1. PICK ok \in Outcomes :
           /\ log' = IF ok THEN log \cup {pending[l]} ELSE log
           /\ logged' = [logged EXCEPT ![l] = ok]
           /\ pending' = IF ok THEN pending ELSE [pending EXCEPT ![l] = None]
      BY <1>2 DEF Insert
  <2>2. ASSUME NEW k \in Loggers, logged'[k] PROVE pending'[k] \in log' \cup retired'
      BY <2>1, <2>2 DEF Noted, TypeOK
  <2> QED BY <1>2, <2>2 DEF Insert, Noted, writing
<1>3. ASSUME NEW l \in Loggers, NoteLogged(l) PROVE Noted'
  <2>1. \A k \in Loggers : logged'[k] => logged[k] /\ pending'[k] = pending[k]
      BY <1>3 DEF NoteLogged, TypeOK
  <2>2. anchor' = pending[l] \/ anchor' = anchor
      BY <1>3, NoteType DEF NoteLogged
  <2> QED BY <1>3, <2>1, <2>2 DEF NoteLogged, Noted, writing
<1>4. ASSUME insertAll PROVE Noted'
  <2>1. writer' = "note" => Range(batch') \subseteq log'
      BY <1>4 DEF insertAll
  <2> QED BY <1>4, <2>1 DEF insertAll, WriterFrame, logging, Noted
<1>5. ASSUME BatchDone, NoteBatch \/ anchor' = anchor PROVE Noted'
  <2>1. CASE NoteBatch
    <3>1. batch[Len(batch)] \in log \cup retired
        BY <2>1, SetOfSeq DEF NoteBatch, WriterOK, Noted, TypeOK
    <3>2. anchor' = batch[Len(batch)] \/ anchor' = anchor
        BY <2>1, NoteType DEF NoteBatch
    <3> QED BY <1>5, <3>1, <3>2 DEF BatchDone, WriterFrame, logging, Noted
  <2> QED BY <1>5, <2>1 DEF BatchDone, WriterFrame, logging, Noted
<1>6. ASSUME Restart PROVE Noted'
  <2>1. log # {} => Newest(log) \in log
      BY NewestExists DEF TypeOK
  <2> QED BY <1>6, <2>1 DEF Restart, Noted
<1>7. ASSUME UNCHANGED <<anchor, logging, batch>>, writer' = "note" => writer = "note"
      PROVE Noted'
    BY <1>7 DEF Noted, logging
<1>8. \/ \E l \in Loggers : Sign(l) \/ Insert(l) \/ NoteLogged(l)
      \/ insertAll \/ (BatchDone /\ (NoteBatch \/ anchor' = anchor)) \/ Restart
      \/ UNCHANGED <<anchor, logging, batch>> /\ (writer' = "note" => writer = "note")
      \/ signSystem
    BY DEF Next, logSystem, Flush, AcceptFlush, AckFlush, FlushReturns, FlushFrame, Fill,
       DropBatch, NoteBatch, Restore, WriterFrame, Archive, deleteEntries, DayPasses,
       RetentionFrame, UpdateConfig, vars, writing
<1>9. ASSUME signSystem PROVE Noted'
    BY <1>9 DEF signSystem, WriterFrame, logging, Noted
<1> QED BY <1>1, <1>2, <1>3, <1>4, <1>5, <1>6, <1>7, <1>8, <1>9

LEMMA RetiredNext ==
    TypeOK /\ Outlived /\ Saved /\ [Next]_vars => Outlived' /\ Saved'
<1> SUFFICES ASSUME TypeOK, Outlived, Saved, [Next]_vars PROVE Outlived' /\ Saved'
    OBVIOUS
<1>1. ASSUME Archive PROVE Outlived' /\ Saved'
  <2>1. chunk' \subseteq Expired /\ effectiveRetentionDays > 0
      BY <1>1 DEF Archive, Oldest
  <2>2. retired' = retired /\ today' = today /\ archived' = archived \cup chunk'
      BY <1>1 DEF Archive
  <2> QED BY <2>1, <2>2 DEF Outlived, Saved, Expired, effectiveRetentionDays
<1>2. ASSUME deleteEntries PROVE Outlived' /\ Saved'
    BY <1>2 DEF deleteEntries, Outlived, Saved, effectiveRetentionDays
<1>3. ASSUME DayPasses PROVE Outlived' /\ Saved'
  <2>0. effectiveRetentionDays \in Nat
      BY SMTT(60), DaysAssumption DEF effectiveRetentionDays
  <2>1. UNCHANGED <<chunk, retired, archived>> /\ today' = today + 1
      BY <1>3 DEF DayPasses
  <2>2. \A e \in chunk \cup retired : e.day \in Nat
      BY DEF TypeOK, Entries
  <2>3. \A e \in chunk \cup retired : e.day < today' - effectiveRetentionDays
      BY SMTT(60), <2>0, <2>1, <2>2 DEF Outlived, TypeOK
  <2> QED BY <2>1, <2>3 DEF Outlived, Saved, effectiveRetentionDays
<1>4. ASSUME Restart PROVE Outlived' /\ Saved'
    BY <1>4 DEF Restart, Outlived, Saved, effectiveRetentionDays
<1>5. ASSUME UNCHANGED retention PROVE Outlived' /\ Saved'
    BY <1>5 DEF retention, Outlived, Saved, effectiveRetentionDays
<1>6. Archive \/ deleteEntries \/ DayPasses \/ Restart \/ UNCHANGED retention
    BY DEF Next, Sign, Insert, NoteLogged, logSystem, Flush, AcceptFlush, AckFlush,
       FlushReturns, FlushFrame, Fill, signSystem, insertAll, DropBatch, NoteBatch, Restore,
       BatchDone, WriterFrame, UpdateConfig, vars
<1> QED BY <1>1, <1>2, <1>3, <1>4, <1>5, <1>6

LEMMA FlushNext == TypeOK /\ WriterOK /\ FlushDelivers /\ [Next]_vars => FlushDelivers'
<1> SUFFICES ASSUME TypeOK, WriterOK, FlushDelivers, [Next]_vars, flush' = "acked"
             PROVE  owed' \cap Queued' = {}
    BY DEF FlushDelivers
<1>0. \A c \in SystemCalls : c \notin called => c \notin owed
    BY DEF TypeOK
<1>1. ASSUME NEW c \in SystemCalls, logSystem(c) PROVE owed' \cap Queued' = {}
  <2>1. Range(queue') \subseteq Range(queue) \cup {c}
    <3>1. queue \in Seq(called \cup {c})
        BY SMTT(60) DEF TypeOK
    <3>2. queue' = Append(queue, c) \/ queue' = queue
        BY <1>1 DEF logSystem
    <3> QED BY SMTT(60), <3>1, <3>2 DEF Range
  <2>2. taken' = taken /\ owed' = owed /\ flush' = flush /\ c \notin owed
      BY <1>0, <1>1 DEF logSystem, writing, flushing
  <2> QED BY <2>1, <2>2 DEF Queued, FlushDelivers
<1>2. ASSUME AckFlush PROVE owed' \cap Queued' = {}
  <2>1. queue' = <<>> /\ taken' = <<>>
      BY <1>2 DEF AckFlush, FlushFrame, writing, WriterOK
  <2> QED BY <2>1, SetOfNone DEF Queued
<1>3. ASSUME Fill PROVE owed' \cap Queued' = {}
  <2> DEFINE n == IF Len(queue) < BatchSize THEN Len(queue) ELSE BatchSize
  <2>1. n \in Nat /\ n <= Len(queue) /\ Len(queue) \in Nat
      BY SMTT(60), SizesAssumption DEF TypeOK
  <2>2. taken' = SubSeq(queue, 1, n) /\ queue' = SubSeq(queue, n + 1, Len(queue))
      BY <1>3 DEF Fill
  <2> HIDE DEF n
  <2>3. Range(taken') \subseteq Range(queue)
      BY SMTT(60), <2>1, <2>2 DEF Range, TypeOK
  <2>4. Range(queue') \subseteq Range(queue)
      BY SMTT(60), <2>1, <2>2 DEF Range, TypeOK
  <2>5. owed' = owed /\ flush' = flush
      BY <1>3 DEF Fill, WriterFrame, flushing
  <2> QED BY <2>3, <2>4, <2>5 DEF Queued, FlushDelivers
<1>4. ASSUME BatchDone PROVE owed' \cap Queued' = {}
    BY <1>4, SetOfNone DEF BatchDone, WriterFrame, flushing, Queued, FlushDelivers
<1>5. ASSUME UNCHANGED <<queue, taken, flushing>> PROVE owed' \cap Queued' = {}
    BY <1>5 DEF flushing, Queued, FlushDelivers
<1>6. \/ \E c \in SystemCalls : logSystem(c)
      \/ AckFlush \/ Fill \/ BatchDone \/ UNCHANGED <<queue, taken, flushing>>
    BY DEF Next, Sign, Insert, NoteLogged, Flush, AcceptFlush, FlushReturns, signSystem,
       insertAll, DropBatch, NoteBatch, Restore, WriterFrame, Archive, deleteEntries,
       DayPasses, RetentionFrame, UpdateConfig, Restart, vars, writing
<1> QED BY <1>1, <1>2, <1>3, <1>4, <1>5, <1>6
-----------------------------------------------------------------------------
(* The chain.  A step leaves it as it is, extends it by what is signed, or  *)
(* shortens it at one end.                                                  *)

Requests == {pending[l] : l \in {k \in Loggers : Waits(k)}}

Carried == IF writer \in {"insert", "restore"} THEN Range(batch) ELSE {}

LEMMA InFlightIs ==
    InFlight = Requests \cup Carried /\ InFlight' = Requests' \cup Carried'
BY DEF InFlight, Requests, Carried, Waits

LEMMA LiveEntries == TypeOK => Live \subseteq Entries /\ InFlight \subseteq Entries
<1> SUFFICES ASSUME TypeOK PROVE InFlight \subseteq Entries
    BY DEF Live, TypeOK
<1>1. Requests \subseteq Entries
    BY DEF Requests, Waits, TypeOK
<1>2. Range(batch) \subseteq Entries
    BY SetOfSeq DEF TypeOK
<1> QED BY <1>1, <1>2, InFlightIs DEF Carried

ChainInv == Ordered /\ OldEnd /\ Linked

Same ==
    /\ Live' = Live /\ InFlight' \subseteq InFlight
    /\ UNCHANGED <<chain, today, chunk, lost>>

Grown(n) ==
    /\ Live' = Live \cup {Chained(n)[i] : i \in 1..n}
    /\ InFlight' = InFlight \cup {Chained(n)[i] : i \in 1..n}
    /\ Advance(n)
    /\ UNCHANGED <<today, chunk, lost>>

LEMMA SameKept == ChainInv /\ Same => ChainInv'
<1> SUFFICES ASSUME ChainInv, Same PROVE ChainInv'
    OBVIOUS
<1>1. Ordered'
    BY DEF ChainInv, Same, Ordered, chain
<1>2. OldEnd'
    BY DEF ChainInv, Same, OldEnd
<1>3. Linked'
    BY DEF ChainInv, Same, Linked, chain, Precedes, Top, Signature
<1> QED BY <1>1, <1>2, <1>3 DEF ChainInv

LEMMA GrownKept ==
    ASSUME TypeOK, ChainInv, NEW n \in Nat \ {0}, Grown(n) PROVE ChainInv'
<1> DEFINE C(i) == Chained(n)[i]
           fresh == {C(i) : i \in 1..n}
<1>0. lastStamp \in Nat /\ today \in Nat /\ n \in Nat
    BY DEF TypeOK
<1>1. \A e \in Live : e.stamp \in Nat /\ e.day \in Nat
    BY LiveEntries DEF Entries
<1>2. \A i \in 1..n :
         /\ C(i).stamp = lastStamp + i /\ C(i).day = today
         /\ Signature(C(i)) = IF mode = "signed" THEN lastStamp + i ELSE NoHash
         /\ C(i).prev = IF i = 1 THEN lastHash
                        ELSE IF mode = "signed" THEN lastStamp + i - 1 ELSE NoHash
    BY <1>0, ChainedOK
<1>3. /\ Live' = Live \cup fresh /\ InFlight' = InFlight \cup fresh
      /\ lastStamp' = lastStamp + n
      /\ lastHash' = IF mode = "signed" THEN lastStamp + n ELSE NoHash
      /\ UNCHANGED <<today, chunk, lost>>
    BY DEF Grown, Advance
<1>4. \A e \in Live : e.stamp <= lastStamp /\ e.day <= today
    BY DEF ChainInv, Ordered
<1> HIDE DEF C
<1>5. \A e \in fresh : /\ lastStamp < e.stamp /\ e.stamp <= lastStamp + n
                       /\ e.stamp \in Nat /\ e.day = today
    BY SMTT(60), <1>0, <1>2
<1>6. \A e, f \in fresh : e.stamp = f.stamp => e = f
    BY SMTT(60), <1>0, <1>2
<1>7. \A i \in 1..n : C(i) \in fresh
    OBVIOUS
<1> HIDE DEF fresh
<1>8. Ordered'
  <2>1. \A e \in Live' : e.stamp <= lastStamp' /\ e.day <= today'
      BY SMTT(60), <1>0, <1>1, <1>3, <1>4, <1>5
  <2>2. \A e, f \in Live' : e.stamp = f.stamp => e = f
      BY SMTT(60), <1>0, <1>1, <1>3, <1>4, <1>5, <1>6 DEF ChainInv, Ordered
  <2>3. \A e, f \in Live' : e.stamp < f.stamp => e.day <= f.day
      BY SMTT(60), <1>0, <1>1, <1>3, <1>4, <1>5 DEF ChainInv, Ordered
  <2>4. \A e \in InFlight' : e.day = today'
      BY <1>3, <1>5 DEF ChainInv, Ordered
  <2> QED BY <2>1, <2>2, <2>3, <2>4 DEF Ordered
<1>9. OldEnd'
  <2>1. ASSUME NEW e \in chunk, NEW f \in Live', f.stamp < e.stamp PROVE f \in chunk
    <3>1. e \in Live
        BY DEF TypeOK, Live
    <3>2. f \notin fresh
        BY SMTT(60), <1>0, <1>1, <1>4, <1>5, <2>1, <3>1
    <3> QED BY <1>3, <2>1, <3>2 DEF ChainInv, OldEnd
  <2> QED BY <1>3, <2>1 DEF OldEnd
<1>10. Linked'
  <2> SUFFICES ASSUME ~lost
               PROVE  /\ \A e, f \in Live' : Precedes(f, e, Live') => e.prev = Signature(f)
                      /\ \A f \in Live' : Top(f, Live') => lastHash' = Signature(f)
      BY <1>3 DEF Linked, Signature, Precedes, Top
  <2>1. ASSUME NEW e \in Live', NEW f \in Live', Precedes(f, e, Live')
        PROVE  e.prev = Signature(f)
    <3>0. f.stamp < e.stamp
        BY <2>1 DEF Precedes
    <3>1. CASE e \in Live
      <4>1. f \in Live
          BY SMTT(60), <1>0, <1>1, <1>3, <1>4, <1>5, <3>0, <3>1
      <4>2. Precedes(f, e, Live)
          BY <1>3, <2>1 DEF Precedes
      <4> QED BY <3>1, <4>1, <4>2 DEF ChainInv, Linked
    <3>2. CASE e \in fresh
      <4>1. PICK i \in 1..n : e = C(i)
          BY <3>2 DEF fresh
      <4>2. i # 1 => i - 1 \in 1..n /\ C(i - 1) \in Live' /\ C(i - 1).stamp = lastStamp + (i - 1)
        <5>1. i # 1 => i - 1 \in 1..n
            BY SMTT(60), <1>0
        <5> QED BY <1>2, <1>3, <1>7, <5>1
      <4>3. i # 1 => ~(f.stamp < C(i - 1).stamp)
        <5>1. i # 1 => C(i - 1).stamp < e.stamp
            BY SMTT(60), <1>0, <1>2, <4>1, <4>2
        <5> QED BY <2>1, <4>2, <5>1 DEF Precedes
      <4>4. CASE f \in Live
        <5>1. i = 1
            BY SMTT(60), <1>0, <1>1, <1>4, <4>2, <4>3, <4>4
        <5>2. Top(f, Live)
          <6>1. \A g \in Live : g.stamp < e.stamp
              BY SMTT(60), <1>0, <1>1, <1>4, <1>5, <3>2
          <6>2. \A g \in Live : ~(f.stamp < g.stamp)
              BY <1>3, <2>1, <6>1 DEF Precedes
          <6> QED BY SMTT(60), <1>1, <4>4, <6>2 DEF Top
        <5> QED BY <1>2, <4>1, <4>4, <5>1, <5>2 DEF ChainInv, Linked
      <4>5. CASE f \in fresh
        <5>1. PICK j \in 1..n : f = C(j)
            BY <4>5 DEF fresh
        <5>2. j = i - 1 /\ i # 1
            BY SMTT(60), <1>0, <1>2, <3>0, <4>1, <4>2, <4>3, <5>1
        <5>3. Signature(f) = IF mode = "signed" THEN lastStamp + j ELSE NoHash
            BY <1>2, <5>1
        <5>4. e.prev = IF mode = "signed" THEN lastStamp + i - 1 ELSE NoHash
            BY <1>2, <4>1, <5>2
        <5>5. lastStamp + i - 1 = lastStamp + j
            BY SMTT(60), <1>0, <5>2
        <5> QED BY <5>3, <5>4, <5>5
      <4> QED BY <1>3, <4>4, <4>5
    <3> QED BY <1>3, <3>1, <3>2
  <2>2. ASSUME NEW f \in Live', Top(f, Live') PROVE lastHash' = Signature(f)
    <3>1. n \in 1..n /\ C(n) \in Live'
      <4>1. n \in 1..n
          BY SMTT(60)
      <4> QED BY <1>3, <1>7, <4>1
    <3>2. C(n).stamp <= f.stamp /\ C(n).stamp = lastStamp + n
        BY <1>2, <2>2, <3>1 DEF Top
    <3>3. f \in fresh
        BY SMTT(60), <1>0, <1>1, <1>3, <1>4, <3>2
    <3>4. f.stamp = C(n).stamp /\ C(n) \in fresh
        BY SMTT(60), <1>0, <1>5, <1>7, <3>1, <3>2, <3>3
    <3>5. f = C(n)
        BY <1>6, <3>3, <3>4
    <3> QED BY <1>2, <1>3, <3>1, <3>5
  <2> QED BY <2>1, <2>2
<1> QED BY <1>8, <1>9, <1>10 DEF ChainInv
\* Where entries only leave, order and the old end stay.
LEMMA FewerOrdered ==
    ASSUME Ordered, OldEnd, Live' \subseteq Live, InFlight' \subseteq InFlight,
           UNCHANGED <<lastStamp, today>>, chunk' = chunk \/ chunk' = {}
    PROVE  Ordered' /\ OldEnd'
<1>1. Ordered'
    BY DEF Ordered
<1>2. OldEnd'
    BY DEF OldEnd
<1> QED BY <1>1, <1>2

\* A batch that waits to be stored.
LEMMA WaitingBatch ==
    ASSUME TypeOK, WriterOK, writer \in {"insert", "restore"}
    PROVE  /\ batch # <<>> /\ Len(batch) \in Nat \ {0}
           /\ 1 \in 1..Len(batch) /\ Len(batch) \in 1..Len(batch)
           /\ \A i \in 1..Len(batch) : batch[i] \in InFlight /\ batch[i] \in Entries
           /\ Range(batch) = {batch[i] : i \in 1..Len(batch)}
           /\ Range(batch) \subseteq InFlight
<1>1. batch # <<>>
    BY DEF WriterOK
<1>2. Len(batch) \in Nat \ {0} /\ 1 \in 1..Len(batch) /\ Len(batch) \in 1..Len(batch)
    BY SMTT(60), <1>1 DEF TypeOK
<1>3. Range(batch) = {batch[i] : i \in 1..Len(batch)} /\ Range(batch) \subseteq Entries
    BY <1>1, SetOfSeq DEF TypeOK
<1>4. Range(batch) \subseteq InFlight
    BY InFlightIs DEF Carried
<1> QED BY <1>1, <1>2, <1>3, <1>4

\* What signing and storing do to the chain.
LEMMA SignGrows ==
    ASSUME TypeOK, Noted, NEW l \in Loggers, Sign(l)
    PROVE  /\ Grown(1) /\ Carried' = Carried /\ ~Waits(l) /\ Waits(l)'
           /\ pending'[l] = Chained(1)[1]
           /\ \A k \in Loggers : k # l => pending'[k] = pending[k] /\ Waits(k)' = Waits(k)
<1>1. 1 \in Nat /\ 1..1 = {1}
    BY SMTT(60)
<1>2. Chained(1)[1] \in Entries
    BY <1>1, ChainedOK
<1>3. ~logged[l] /\ logged' = logged
    BY NoneAssumption DEF Sign, Noted, TypeOK
<1>4. ~Waits(l) /\ Waits(l)' /\ pending'[l] = Chained(1)[1]
    BY <1>2, <1>3, NoneAssumption DEF Sign, Waits, TypeOK
<1>5. \A k \in Loggers : k # l => pending'[k] = pending[k] /\ Waits(k)' = Waits(k)
    BY <1>3 DEF Sign, Waits, TypeOK
<1>6. Requests' = Requests \cup {Chained(1)[1]}
    BY <1>4, <1>5 DEF Requests
<1>7. Carried' = Carried
    BY DEF Sign, writing, Carried
<1>8. {Chained(1)[i] : i \in 1..1} = {Chained(1)[1]}
    BY <1>1
<1>9. InFlight' = InFlight \cup {Chained(1)[1]} /\ log' = log
    BY <1>6, <1>7, InFlightIs DEF Sign
<1>10. Grown(1)
    BY <1>8, <1>9 DEF Grown, Live, Sign, retention
<1> QED BY <1>4, <1>5, <1>7, <1>10

LEMMA BatchGrows ==
    ASSUME TypeOK, WriterOK, signSystem
    PROVE  /\ Grown(Len(taken)) /\ Requests' = Requests /\ Len(taken) \in Nat \ {0}
           /\ batch' = Chained(Len(taken)) /\ Len(batch') = Len(taken)
<1>1. Len(taken) \in Nat \ {0} /\ Len(taken) \in Nat
    BY SMTT(60) DEF signSystem, WriterOK, TypeOK
<1>2. batch' = Chained(Len(taken)) /\ batch' \in Seq(Entries) /\ Len(batch') = Len(taken)
    BY <1>1, ChainedOK DEF signSystem
<1>3. Carried' = {Chained(Len(taken))[i] : i \in 1..Len(taken)} /\ Carried = {}
    BY SMTT(60), <1>2, SetOfSeq DEF signSystem, Carried
<1>4. Requests' = Requests
    BY DEF signSystem, WriterFrame, logging, Requests, Waits
<1>5. InFlight' = InFlight \cup {Chained(Len(taken))[i] : i \in 1..Len(taken)} /\ log' = log
    BY <1>3, <1>4, InFlightIs DEF signSystem
<1>6. Grown(Len(taken))
    BY <1>5 DEF Grown, Live, signSystem, WriterFrame, retention
<1> QED BY <1>1, <1>2, <1>4, <1>6

LEMMA InsertStores ==
    ASSUME TypeOK, NEW l \in Loggers, Insert(l)
    PROVE  /\ Waits(l) /\ Carried' = Carried
           /\ \A k \in Loggers : Waits(k)' => Waits(k) /\ pending'[k] = pending[k]
           /\ InFlight' \subseteq InFlight /\ Live' \subseteq Live
           /\ log' \subseteq log \cup {pending[l]}
           /\ Same \/ lost'
<1>1. PICK ok \in Outcomes :
         /\ log' = IF ok THEN log \cup {pending[l]} ELSE log
         /\ logged' = [logged EXCEPT ![l] = ok]
         /\ pending' = IF ok THEN pending ELSE [pending EXCEPT ![l] = None]
         /\ lost' = (lost \/ ~ok)
    BY DEF Insert
<1>2. Waits(l) /\ ok \in BOOLEAN
    BY DEF Insert, Waits, Outcomes
<1>3. Carried' = Carried
    BY DEF Insert, writing, Carried
<1>4. \A k \in Loggers : Waits(k)' => Waits(k) /\ pending'[k] = pending[k]
    BY <1>1, <1>2 DEF Waits, TypeOK
<1>5. Requests' \subseteq Requests /\ pending[l] \in Requests
    BY <1>2, <1>4 DEF Requests
<1>6. log' \subseteq log \cup {pending[l]} /\ InFlight' \subseteq InFlight /\ Live' \subseteq Live
    BY <1>1, <1>3, <1>5, InFlightIs DEF Live
<1>7. Same \/ lost'
  <2>1. CASE ok
    <3>1. \A k \in Loggers : k # l => Waits(k)' = Waits(k)
        BY <1>1, <2>1 DEF Waits, TypeOK
    <3>2. Requests \subseteq Requests' \cup {pending[l]} /\ pending' = pending
        BY <1>1, <2>1, <3>1 DEF Requests
    <3>3. Live \subseteq Live'
        BY <1>1, <1>3, <2>1, <3>2, InFlightIs DEF Live
    <3>4. lost' = lost
        BY <1>1, <2>1 DEF TypeOK
    <3> QED BY <1>6, <3>3, <3>4 DEF Same, Insert, retention
  <2> QED BY <1>1, <1>2, <2>1
<1> QED BY <1>2, <1>3, <1>4, <1>6, <1>7

LEMMA BatchStores ==
    ASSUME insertAll
    PROVE  /\ Same /\ UNCHANGED <<batch, batchPrev, logging, overlapped, retired>>
           /\ log' \subseteq log \cup Range(batch)
           /\ (writer' = "note" /\ log' = log \cup Range(batch))
              \/ (writer' = "restore" /\ log' = log)
<1>1. /\ log' \subseteq log \cup Range(batch)
      /\ (writer' = "note" /\ log' = log \cup Range(batch))
         \/ (writer' = "restore" /\ log' = log)
      /\ UNCHANGED <<batch, batchPrev, logging, overlapped, retired>>
    BY DEF insertAll, WriterFrame, history, retention
<1>2. Requests' = Requests /\ Carried = Range(batch)
    BY <1>1 DEF Requests, Waits, logging, Carried, insertAll
<1>3. Live' = Live /\ InFlight' \subseteq InFlight
    BY <1>1, <1>2, InFlightIs DEF Carried, Live
<1> QED BY <1>1, <1>3 DEF Same, insertAll, WriterFrame, history, retention

\* Steps that touch neither the rows nor what waits to be stored.
Aside ==
    /\ UNCHANGED <<log, chain, today, chunk, retired, history>>
    /\ InFlight' = InFlight /\ Carried' = Carried
    /\ \A l \in Loggers : Waits(l)' => Waits(l) /\ pending'[l] = pending[l]
    /\ writer' \in {"insert", "restore"} => writer \in {"insert", "restore"}
    /\ (UNCHANGED <<batch, batchPrev>>) \/ (batch' = <<>> /\ writer' = "select")

LEMMA StandAside ==
    ASSUME TypeOK, Noted,
           \/ \E l \in Loggers : NoteLogged(l)
           \/ \E c \in SystemCalls : logSystem(c)
           \/ Flush \/ AcceptFlush \/ AckFlush \/ FlushReturns
           \/ Fill \/ DropBatch \/ NoteBatch \/ UpdateConfig \/ UNCHANGED vars
    PROVE  Aside
<1>1. ASSUME NEW l \in Loggers, NoteLogged(l) PROVE Aside
  <2>1. \A k \in Loggers : Waits(k)' = Waits(k) /\ (Waits(k) => pending'[k] = pending[k])
      BY <1>1 DEF NoteLogged, Waits, TypeOK
  <2>2. Requests' = Requests
      BY <2>1 DEF Requests
  <2>3. Carried' = Carried
      BY <1>1 DEF NoteLogged, writing, Carried
  <2> QED BY <1>1, <2>1, <2>2, <2>3, InFlightIs DEF NoteLogged, Aside, writing, retention
<1>2. ASSUME UNCHANGED <<log, chain, today, chunk, retired, history, logging>>,
             writer' \in {"insert", "restore"} <=> writer \in {"insert", "restore"},
             \/ UNCHANGED <<batch, batchPrev>>
             \/ batch' = <<>> /\ writer' = "select"
      PROVE  Aside
  <2>1. Requests' = Requests /\ \A l \in Loggers : Waits(l)' = Waits(l) /\ pending'[l] = pending[l]
      BY <1>2 DEF Requests, Waits, logging
  <2>2. Carried' = Carried
      BY <1>2 DEF Carried
  <2> QED BY <1>2, <2>1, <2>2, InFlightIs DEF Aside
<1>3. ASSUME DropBatch \/ NoteBatch PROVE Aside
    BY <1>2, <1>3 DEF DropBatch, NoteBatch, BatchDone, WriterFrame, chain, history, retention
<1>4. ASSUME Fill PROVE Aside
    BY <1>2, <1>4 DEF Fill, WriterFrame, retention
<1>5. ASSUME \/ \E c \in SystemCalls : logSystem(c)
             \/ Flush \/ AcceptFlush \/ AckFlush \/ FlushReturns
             \/ UpdateConfig \/ UNCHANGED vars
      PROVE  Aside
    BY <1>2, <1>5 DEF logSystem, Flush, AcceptFlush, AckFlush, FlushReturns, FlushFrame,
       UpdateConfig, vars, writing, retention
<1> QED BY <1>1, <1>3, <1>4, <1>5
\* A failed batch that is still the end of the chain is taken back whole.
LEMMA TakenBack ==
    ASSUME TypeOK, WriterOK, BatchOK, ChainInv, Restore
    PROVE  /\ Requests' = Requests /\ Carried' = {} /\ log' = log
           /\ UNCHANGED <<lastStamp, today, chunk, retired, logging, overlapped>>
           /\ \A e \in Live : e \in Live' \/ \E i \in 1..Len(batch) : e = batch[i]
           /\ \A i \in 1..Len(batch) : batch[i] \in Live /\ batch[i] \notin Live'
           /\ ~lost' => /\ ~lost /\ lastStamp = batch[Len(batch)].stamp
                       /\ lastHash' = batchPrev
<1> USE WaitingBatch
<1>0. writer \in {"insert", "restore"} /\ writer' = "select"
    BY DEF Restore, BatchDone
<1>1. Requests' = Requests /\ Carried' = {} /\ log' = log
    BY <1>0 DEF Restore, BatchDone, WriterFrame, logging, Requests, Waits, Carried
<1>2. UNCHANGED <<lastStamp, today, chunk, retired, logging, overlapped>>
    BY DEF Restore, BatchDone, WriterFrame, retention
<1>3. InFlight = Requests \cup {batch[i] : i \in 1..Len(batch)} /\ InFlight' = Requests
    BY <1>0, <1>1, InFlightIs DEF Carried
<1>4. \A e \in Live : e \in Live' \/ \E i \in 1..Len(batch) : e = batch[i]
    BY <1>1, <1>3 DEF Live
<1>5. \A i \in 1..Len(batch) : batch[i] \in Live /\ batch[i] \notin Live'
    BY <1>0, <1>1, <1>3 DEF Live, BatchOK, Requests
<1>6. ASSUME ~lost'
      PROVE  ~lost /\ lastStamp = batch[Len(batch)].stamp /\ lastHash' = batchPrev
  <2>1. ~lost /\ lastStamp = batch[Len(batch)].stamp
      BY <1>0, <1>6 DEF Restore
  <2>2. batch[Len(batch)] \in Live /\ Top(batch[Len(batch)], Live)
      BY <1>0, <1>5, <2>1 DEF Top, ChainInv, Ordered
  <2>3. lastHash = Signature(batch[Len(batch)])
      BY <2>1, <2>2 DEF ChainInv, Linked
  <2> QED BY <2>1, <2>3 DEF Restore
<1> QED BY <1>1, <1>2, <1>4, <1>5, <1>6

LEMMA ChainNext ==
    TypeOK /\ WriterOK /\ BatchOK /\ Noted /\ Outlived /\ ChainInv /\ [Next]_vars
        => ChainInv'
<1> SUFFICES ASSUME TypeOK, WriterOK, BatchOK, Noted, Outlived, ChainInv, [Next]_vars
             PROVE  ChainInv'
    OBVIOUS
<1>0. /\ \A e \in Live : e.stamp \in Nat /\ e.day \in Nat
      /\ lastStamp \in Nat /\ today \in Nat /\ effectiveRetentionDays \in Nat
  <2>1. effectiveRetentionDays \in Nat
      BY SMTT(60), DaysAssumption DEF effectiveRetentionDays
  <2> QED BY <2>1, LiveEntries DEF Entries, TypeOK
<1>1. ASSUME NEW l \in Loggers, Sign(l) PROVE ChainInv'
  <2>1. 1 \in Nat \ {0}
      BY SMTT(60)
  <2> QED BY <1>1, <2>1, SignGrows, GrownKept
<1>2. ASSUME signSystem PROVE ChainInv'
    BY <1>2, BatchGrows, GrownKept
<1>3. ASSUME NEW l \in Loggers, Insert(l) PROVE ChainInv'
  <2>1. CASE Same
      BY <2>1, SameKept
  <2>2. CASE lost'
    <3>1. InFlight' \subseteq InFlight /\ Live' \subseteq Live
        BY <1>3, InsertStores
    <3>2. UNCHANGED <<lastStamp, today, chunk>>
        BY <1>3 DEF Insert, chain, retention
    <3>3. Ordered' /\ OldEnd'
        BY <3>1, <3>2, FewerOrdered DEF ChainInv
    <3> QED BY <2>2, <3>3 DEF ChainInv, Linked
  <2> QED BY <1>3, <2>1, <2>2, InsertStores
<1>4. ASSUME insertAll PROVE ChainInv'
    BY <1>4, BatchStores, SameKept
<1>5. ASSUME Aside PROVE ChainInv'
  <2>1. Same
      BY <1>5 DEF Aside, Same, Live, history
  <2> QED BY <2>1, SameKept
<1>6. ASSUME Restore PROVE ChainInv'
  <2> DEFINE n == Len(batch)
             Back(e) == \E i \in 1..n : e = batch[i]
  <2>0. n \in Nat \ {0} /\ 1 \in 1..n /\ n \in 1..n /\ batchPrev = batch[1].prev
      BY <1>6, WaitingBatch DEF Restore, BatchOK
  <2>1. /\ UNCHANGED <<lastStamp, today, chunk>>
        /\ \A e \in Live : e \in Live' \/ Back(e)
        /\ \A i \in 1..n : batch[i] \in Live /\ batch[i] \notin Live'
        /\ ~lost' => ~lost /\ lastStamp = batch[n].stamp /\ lastHash' = batchPrev
      BY <1>6, TakenBack
  <2>2. InFlight' \subseteq InFlight /\ Live' \subseteq Live
      BY <1>6, TakenBack, InFlightIs DEF Live
  <2>3. Ordered' /\ OldEnd'
      BY <2>1, <2>2, FewerOrdered DEF ChainInv
  <2>4. ASSUME ~lost' PROVE Linked'
    <3>1. \A i \in 1..n : batch[i].stamp = batch[1].stamp + (i - 1)
        BY DEF BatchOK
    <3>2. batch[1] \in Live /\ batch[1].stamp \in Nat
        BY <1>0, <2>0, <2>1
    <3>3. lastStamp = batch[1].stamp + (n - 1)
        BY <2>0, <2>1, <2>4, <3>1
    <3> HIDE DEF n
    <3>4. ASSUME NEW e \in Live' PROVE e.stamp < batch[1].stamp
      <4>0. e \in Live /\ e.stamp \in Nat /\ e.stamp <= lastStamp
          BY <1>0, <2>2 DEF ChainInv, Ordered
      <4>1. SUFFICES ASSUME e.stamp >= batch[1].stamp PROVE FALSE
          BY SMTT(60), <3>2, <4>0
      <4>2. PICK i \in 1..n : i = e.stamp - batch[1].stamp + 1
          BY SMTT(60), <2>0, <3>2, <3>3, <4>0, <4>1
      <4>3. e.stamp = batch[i].stamp
          BY SMTT(60), <2>0, <3>1, <3>2, <4>0, <4>2
      <4>4. e = batch[i]
          BY <2>1, <4>0, <4>3 DEF ChainInv, Ordered
      <4> QED BY <2>1, <4>4
    <3>5. \A e \in Live : Back(e) => batch[1].stamp <= e.stamp
        BY SMTT(60), <2>0, <3>1, <3>2
    <3> HIDE DEF Back
    <3>6. ASSUME NEW e \in Live', NEW f \in Live', Precedes(f, e, Live')
          PROVE  e.prev = Signature(f)
      <4>1. ASSUME NEW g \in Live, f.stamp < g.stamp, g.stamp < e.stamp PROVE FALSE
        <5>1. e.stamp < batch[1].stamp /\ e.stamp \in Nat /\ g.stamp \in Nat
            BY <1>0, <2>2, <3>4
        <5>2. ~Back(g)
            BY SMTT(60), <3>2, <3>5, <4>1, <5>1
        <5> QED BY <2>1, <3>6, <4>1, <5>2 DEF Precedes
      <4>2. Precedes(f, e, Live)
          BY <3>6, <4>1 DEF Precedes
      <4> QED BY <2>1, <2>2, <2>4, <4>2 DEF ChainInv, Linked
    <3>7. ASSUME NEW f \in Live', Top(f, Live') PROVE lastHash' = Signature(f)
      <4>1. ASSUME NEW g \in Live, f.stamp < g.stamp, g.stamp < batch[1].stamp PROVE FALSE
        <5>0. f.stamp \in Nat /\ g.stamp \in Nat
            BY <1>0, <2>2
        <5>1. ~Back(g)
            BY SMTT(60), <3>2, <3>5, <4>1, <5>0
        <5>2. g.stamp <= f.stamp
            BY <2>1, <3>7, <5>1 DEF Top
        <5> QED BY SMTT(60), <4>1, <5>0, <5>2
      <4>2. Precedes(f, batch[1], Live)
          BY <3>4, <4>1 DEF Precedes
      <4>3. batch[1].prev = Signature(f)
          BY <2>1, <2>2, <2>4, <3>2, <4>2 DEF ChainInv, Linked
      <4> QED BY <2>0, <2>1, <2>4, <4>3
    <3> QED BY <3>6, <3>7 DEF Linked, Precedes, Top, Signature
  <2> QED BY <2>3, <2>4 DEF ChainInv, Linked
<1>7. ASSUME Archive PROVE ChainInv'
  <2>1. /\ UNCHANGED <<log, pending, logged, batch, writer, lastHash, lastStamp, today, lost>>
        /\ chunk' = Oldest(Expired, Chunk) /\ effectiveRetentionDays > 0
      BY <1>7 DEF Archive, RetentionFrame, chain, logging, writing, history
  <2>2. InFlight' = InFlight /\ Live' = Live
      BY <2>1 DEF InFlight, Live
  <2>3. Ordered' /\ Linked'
      BY <2>1, <2>2 DEF ChainInv, Ordered, Linked, Precedes, Top, Signature
  <2>4. ASSUME NEW e \in chunk', NEW f \in Live, f.stamp < e.stamp PROVE f \in chunk'
    <3>1. e \in Expired /\ Cardinality({g \in Expired : g.stamp < e.stamp}) < Chunk
        BY <2>1 DEF Oldest
    <3>2. e \in log /\ e \in Live /\ e.day < today - effectiveRetentionDays
        BY <3>1 DEF Expired, Live
    <3>3. f.day <= e.day
        BY <2>4, <3>2 DEF ChainInv, Ordered
    <3>4. f.day < today - effectiveRetentionDays /\ f.day # today
        BY SMTT(60), <1>0, <2>1, <3>2, <3>3
    <3>5. f \in Expired
        BY <3>4 DEF ChainInv, Ordered, Live, Expired
    <3> DEFINE B(x) == {g \in Expired : g.stamp < x.stamp}
    <3>6. B(f) \subseteq B(e)
        BY SMTT(60), <1>0, <2>4, <3>2 DEF Expired, Live
    <3>7. IsFiniteSet(B(e))
        BY FS_Subset DEF TypeOK, Expired
    <3>8. Cardinality(B(f)) <= Cardinality(B(e)) /\ Cardinality(B(e)) \in Nat
          /\ Cardinality(B(f)) \in Nat
        BY <3>6, <3>7, FS_Subset, FS_CardinalityType
    <3>9. Cardinality(B(f)) < Chunk
        BY SMTT(60), <3>1, <3>8, SizesAssumption
    <3> QED BY <2>1, <3>5, <3>9 DEF Oldest
  <2> QED BY <2>2, <2>3, <2>4 DEF ChainInv, OldEnd
<1>8. ASSUME deleteEntries PROVE ChainInv'
  <2>1. /\ UNCHANGED <<pending, logged, batch, writer, lastHash, lastStamp, today, lost>>
        /\ log' = log \ chunk /\ chunk' = {}
      BY <1>8 DEF deleteEntries, RetentionFrame, chain, logging, writing, history
  <2>2. InFlight' = InFlight
      BY <2>1 DEF InFlight
  <2>3. InFlight \cap chunk = {}
    <3>1. \A e \in chunk : e.day # today
      <4>1. \A e \in chunk : e \in Live
          BY DEF Live, TypeOK
      <4> QED BY SMTT(60), <1>0, <4>1 DEF Outlived
    <3> QED BY <3>1 DEF ChainInv, Ordered
  <2>4. Live' = Live \ chunk
      BY <2>1, <2>2, <2>3 DEF Live
  <2>5. Ordered' /\ OldEnd'
      BY <2>1, <2>2, <2>4, FewerOrdered DEF ChainInv
  <2>6. \A f \in Live', g \in chunk : ~(f.stamp < g.stamp)
      BY <2>4 DEF ChainInv, OldEnd
  <2>7. \A e, f \in Live' : Precedes(f, e, Live') => Precedes(f, e, Live)
      BY <2>4, <2>6 DEF Precedes
  <2>8. ASSUME NEW f \in Live', Top(f, Live') PROVE Top(f, Live)
    <3>1. \A g \in chunk : g.stamp <= f.stamp
      <4>1. \A g \in chunk : g \in Live
          BY DEF Live, TypeOK
      <4> QED BY SMTT(60), <1>0, <2>4, <2>6, <4>1
    <3> QED BY <2>4, <2>8, <3>1 DEF Top
  <2>9. Linked'
    <3> SUFFICES ASSUME ~lost
                 PROVE  /\ \A e, f \in Live' : Precedes(f, e, Live') => e.prev = Signature(f)
                        /\ \A f \in Live' : Top(f, Live') => lastHash' = Signature(f)
        BY <2>1 DEF Linked, Signature, Precedes, Top
    <3> QED BY <2>1, <2>4, <2>7, <2>8 DEF ChainInv, Linked
  <2> QED BY <2>5, <2>9 DEF ChainInv
<1>9. ASSUME DayPasses PROVE ChainInv'
  <2>1. /\ UNCHANGED <<log, pending, logged, batch, writer, lastHash, lastStamp, lost, chunk>>
        /\ today' = today + 1 /\ batch = <<>> /\ \A l \in Loggers : pending[l] = None
      BY <1>9 DEF DayPasses, RetentionFrame, chain, logging, writing, history
  <2>2. InFlight = {} /\ InFlight' = {}
      BY <2>1, SetOfNone DEF InFlight
  <2>3. Live' = Live
      BY <2>1, <2>2 DEF Live
  <2>4. \A e \in Live : e.day <= today'
      BY SMTT(60), <1>0, <2>1 DEF ChainInv, Ordered
  <2>5. Ordered' /\ OldEnd' /\ Linked'
      BY <2>1, <2>2, <2>3, <2>4 DEF ChainInv, Ordered, OldEnd, Linked, Precedes, Top, Signature
  <2> QED BY <2>5 DEF ChainInv
<1>10. ASSUME Restart PROVE ChainInv'
  <2>1. /\ UNCHANGED <<log, lastStamp, today>> /\ chunk' = {} /\ writer' = "select"
        /\ pending' = [l \in Loggers |-> None]
        /\ lost' = (lost \/ \E e \in InFlight, f \in log : e.stamp < f.stamp)
        /\ log # {} => lastHash' = Signature(Newest(log))
      BY <1>10 DEF Restart
  <2>2. InFlight' = {} /\ Live' = log /\ Live' \subseteq Live
      BY <2>1 DEF InFlight, Live
  <2>3. Ordered' /\ OldEnd'
      BY <2>1, <2>2, FewerOrdered DEF ChainInv
  <2>4. ASSUME ~lost' PROVE Linked'
    <3>1. ~lost /\ \A e \in InFlight, f \in log : ~(e.stamp < f.stamp)
        BY <2>1, <2>4
    <3>2. \A e, f \in log : Precedes(f, e, log) => Precedes(f, e, Live)
        BY <3>1 DEF Precedes, Live
    <3>3. ASSUME NEW f \in log, Top(f, log) PROVE lastHash' = Signature(f)
      <4>1. Newest(log) \in log /\ Top(Newest(log), log)
          BY NewestExists DEF TypeOK
      <4>2. Newest(log).stamp <= f.stamp /\ f.stamp <= Newest(log).stamp
          BY <3>3, <4>1 DEF Top
      <4>3. Newest(log).stamp = f.stamp
          BY SMTT(60), <1>0, <4>1, <4>2 DEF Live
      <4>4. Newest(log) = f
          BY <4>1, <4>3 DEF Live, ChainInv, Ordered
      <4> QED BY <2>1, <4>4
    <3>4. \A e, f \in log : Precedes(f, e, log) => e.prev = Signature(f)
        BY <3>1, <3>2 DEF ChainInv, Linked, Live
    <3> QED BY <2>2, <3>3, <3>4 DEF Linked, Precedes, Top, Signature
  <2> QED BY <2>3, <2>4 DEF ChainInv, Linked
<1> QED BY <1>1, <1>2, <1>3, <1>4, <1>5, <1>6, <1>7, <1>8, <1>9, <1>10, StandAside DEF Next
-----------------------------------------------------------------------------
(* The batch, and entries stored in turn.                                   *)

LEMMA BatchKept ==
    ASSUME BatchOK, UNCHANGED <<batch, batchPrev>>, log' \subseteq log,
           writer' \in {"insert", "restore"} => writer \in {"insert", "restore"},
           \A l \in Loggers : Waits(l)' => Waits(l) /\ pending'[l] = pending[l]
    PROVE  BatchOK'
BY DEF BatchOK

LEMMA BatchGone ==
    ASSUME batch' = <<>>, writer' = "select" PROVE BatchOK'
<1>1. Len(batch') = 0 /\ 1..0 = {}
    BY SMTT(60)
<1> QED BY <1>1 DEF BatchOK

LEMMA BatchNext ==
    TypeOK /\ WriterOK /\ BatchOK /\ Noted /\ ChainInv /\ [Next]_vars => BatchOK'
<1> SUFFICES ASSUME TypeOK, WriterOK, BatchOK, Noted, ChainInv, [Next]_vars
             PROVE  BatchOK'
    OBVIOUS
<1>0. lastStamp \in Nat /\ \A e \in Live : e.stamp \in Nat /\ e.stamp <= lastStamp
    BY LiveEntries DEF Entries, TypeOK, ChainInv, Ordered
<1>1. ASSUME NEW l \in Loggers, Sign(l) PROVE BatchOK'
  <2>1. UNCHANGED <<batch, batchPrev, writer, log>>
      BY <1>1 DEF Sign, writing
  <2>2. pending'[l].stamp = lastStamp + 1
    <3>1. 1 \in Nat /\ 1 \in 1..1
        BY SMTT(60)
    <3> QED BY <1>1, <3>1, SignGrows, ChainedOK
  <2>3. ASSUME writer \in {"insert", "restore"}, NEW i \in 1..Len(batch), NEW k \in Loggers,
               Waits(k)'
        PROVE  pending'[k] # batch[i]
    <3>1. CASE k = l
      <4>1. batch[i].stamp \in Nat /\ batch[i].stamp <= lastStamp
          BY <1>0, <2>3, WaitingBatch DEF Live
      <4> QED BY SMTT(60), <1>0, <2>2, <3>1, <4>1
    <3>2. CASE k # l
        BY <1>1, <2>3, <3>2, SignGrows DEF BatchOK
    <3> QED BY <3>1, <3>2
  <2> QED BY <2>1, <2>3 DEF BatchOK
<1>2. ASSUME NEW l \in Loggers, Insert(l) PROVE BatchOK'
  <2>1. UNCHANGED <<batch, batchPrev, writer>>
      BY <1>2 DEF Insert, writing
  <2>2. /\ Waits(l) /\ log' \subseteq log \cup {pending[l]}
        /\ \A k \in Loggers : Waits(k)' => Waits(k) /\ pending'[k] = pending[k]
      BY <1>2, InsertStores
  <2> QED BY <2>1, <2>2 DEF BatchOK
<1>3. ASSUME signSystem PROVE BatchOK'
  <2> DEFINE n == Len(taken)
  <2>1. /\ batch' = Chained(n) /\ Len(batch') = n /\ n \in Nat \ {0}
        /\ UNCHANGED <<log, logging>> /\ batchPrev' = lastHash
      BY <1>3, BatchGrows DEF signSystem, WriterFrame
  <2>2. 1 \in 1..n /\ n \in Nat
      BY SMTT(60), <2>1
  <2>3. /\ \A i \in 1..n : batch'[i].stamp = lastStamp + i
        /\ batch'[1].prev = lastHash
      BY <2>1, <2>2, ChainedOK
  <2> HIDE DEF n
  <2>4. \A i \in 1..n : batch'[i].stamp = batch'[1].stamp + (i - 1)
      BY SMTT(60), <1>0, <2>1, <2>2, <2>3
  <2>5. \A i \in 1..n : ~(batch'[i].stamp <= lastStamp)
      BY SMTT(60), <1>0, <2>1, <2>3
  <2>6. \A l \in Loggers : Waits(l)' => pending'[l] \in Live
      BY <2>1, InFlightIs DEF logging, Waits, Requests, Live
  <2>7. \A i \in 1..n : batch'[i] \notin Live
      BY <1>0, <2>5
  <2> QED BY <2>1, <2>3, <2>4, <2>6, <2>7 DEF BatchOK, Live
<1>4. ASSUME insertAll PROVE BatchOK'
  <2>1. UNCHANGED <<batch, batchPrev, logging>> /\ writer = "insert"
        /\ (writer' = "note" \/ log' = log)
      BY <1>4, BatchStores DEF insertAll
  <2>2. writer' = "note" => writer' \notin {"insert", "restore"}
      OBVIOUS
  <2> QED BY <2>1, <2>2 DEF BatchOK, logging, Waits
<1>5. ASSUME Aside PROVE BatchOK'
    BY <1>5, BatchKept, BatchGone DEF Aside
<1>6. ASSUME Restore PROVE BatchOK'
    BY <1>6, BatchGone DEF Restore, BatchDone
<1>7. ASSUME Restart PROVE BatchOK'
    BY <1>7, BatchGone DEF Restart
<1>8. ASSUME Archive \/ deleteEntries \/ DayPasses PROVE BatchOK'
  <2>1. UNCHANGED <<batch, batchPrev, writer, pending, logged>> /\ log' \subseteq log
      BY <1>8 DEF Archive, deleteEntries, DayPasses, RetentionFrame, logging, writing
  <2> QED BY <2>1, BatchKept DEF Waits
<1> QED BY <1>1, <1>2, <1>3, <1>4, <1>5, <1>6, <1>7, <1>8, StandAside DEF Next

LEMMA FoundMore ==
    ASSUME NEW es, NEW fs, es \subseteq fs, NEW h, Found(h, es) PROVE Found(h, fs)
BY DEF Found

\* Who signs alone stores in turn.
LEMMA TurnKept ==
    ASSUME RowsFound, RequestAlone, BatchInTurn,
           log \cup retired \subseteq log' \cup retired',
           \A e \in log' : e \in log \/ Found(e.prev, log' \cup retired'),
           \A l \in Loggers : Waits(l)' => Waits(l) /\ pending'[l] = pending[l],
           writer' \in {"insert", "restore"} =>
               writer \in {"insert", "restore"} /\ UNCHANGED <<batch, batchPrev>>
    PROVE  RowsFound' /\ RequestAlone' /\ BatchInTurn'
<1>1. \A h : Found(h, log \cup retired) => Found(h, log' \cup retired')
    BY FoundMore
<1>2. RowsFound'
    BY <1>1 DEF RowsFound
<1>3. RequestAlone'
    BY <1>1 DEF RequestAlone
<1>4. BatchInTurn'
    BY <1>1 DEF BatchInTurn
<1> QED BY <1>2, <1>3, <1>4

LEMMA TurnNext ==
    TypeOK /\ WriterOK /\ BatchOK /\ Noted /\ ChainInv /\ InTurn /\ [Next]_vars => InTurn'
<1> SUFFICES ASSUME TypeOK, WriterOK, BatchOK, Noted, ChainInv, InTurn, [Next]_vars,
                    ~lost', ~overlapped'
             PROVE  RowsFound' /\ LastFound' /\ RequestAlone' /\ BatchInTurn'
    BY DEF InTurn
<1> DEFINE Turn == RowsFound /\ LastFound /\ RequestAlone /\ BatchInTurn
<1>0. log \cup retired \subseteq log' \cup retired'
    BY StoredStays
<1>a. InFlight = {} => writer \notin {"insert", "restore"} /\ \A l \in Loggers : ~Waits(l)
    BY WaitingBatch, InFlightIs DEF Requests
<1>1. ASSUME NEW l \in Loggers, Sign(l) PROVE Turn'
  <2>1. ~lost /\ ~overlapped /\ InFlight = {} /\ UNCHANGED <<log, retired, writer>>
      BY <1>1 DEF Sign, retention, writing
  <2>2. Turn
      BY <2>1 DEF InTurn
  <2>3. Found(lastHash, log \cup retired)
      BY <2>1, <2>2 DEF LastFound
  <2>4. /\ pending'[l].prev = lastHash /\ pending'[l].stamp = lastStamp + 1
        /\ pending'[l] \in InFlight'
    <3>1. 1 \in Nat /\ 1 \in 1..1
        BY SMTT(60)
    <3> QED BY <1>1, <3>1, SignGrows, ChainedOK, InFlightIs DEF Requests
  <2>5. RowsFound'
      BY <2>1, <2>2 DEF RowsFound
  <2>6. LastFound'
      BY <1>1, <2>4 DEF Sign, Advance, LastFound, Found
  <2>7. RequestAlone'
      BY <1>1, <1>a, <2>1, <2>3, <2>4, SignGrows DEF RequestAlone
  <2>8. BatchInTurn'
      BY <1>a, <2>1 DEF BatchInTurn
  <2> QED BY <2>5, <2>6, <2>7, <2>8
<1>2. ASSUME signSystem PROVE Turn'
  <2> DEFINE n == Len(taken)
  <2>1. /\ ~lost /\ ~overlapped /\ InFlight = {} /\ UNCHANGED <<log, retired, logging>>
        /\ batchPrev' = lastHash
      BY <1>2 DEF signSystem, WriterFrame, retention
  <2>2. Turn
      BY <2>1 DEF InTurn
  <2>3. Found(lastHash, log \cup retired)
      BY <2>1, <2>2 DEF LastFound
  <2>4. /\ batch' = Chained(n) /\ Len(batch') = n /\ n \in Nat \ {0}
        /\ \A i \in 1..n : batch'[i] \in InFlight'
      BY <1>2, BatchGrows DEF Grown
  <2>5. n \in Nat /\ n \in 1..n
      BY SMTT(60), <2>4
  <2>6. \A i \in 1..n :
           /\ batch'[i].stamp = lastStamp + i
           /\ i # 1 => batch'[i].prev = IF mode = "signed" THEN lastStamp + i - 1 ELSE NoHash
      BY <2>4, <2>5, ChainedOK
  <2> HIDE DEF n
  <2>7. RowsFound'
      BY <2>1, <2>2 DEF RowsFound
  <2>8. LastFound'
    <3>1. lastHash' = NoHash \/ lastHash' = batch'[n].stamp
        BY <1>2, <2>5, <2>6 DEF signSystem, Advance, n
    <3> QED BY <2>4, <2>5, <3>1 DEF LastFound, Found
  <2>9. RequestAlone'
      BY <1>a, <2>1 DEF RequestAlone, Waits, logging
  <2>10. BatchInTurn'
    <3>1. ASSUME NEW i \in 2..n
          PROVE  batch'[i].prev = NoHash \/ batch'[i].prev = batch'[i - 1].stamp
      <4>1. i \in 1..n /\ i # 1 /\ i - 1 \in 1..n /\ lastStamp + i - 1 = lastStamp + (i - 1)
          BY SMTT(60), <2>5 DEF TypeOK
      <4> QED BY <2>6, <4>1
    <3> QED BY <2>1, <2>3, <2>4, <3>1 DEF BatchInTurn
  <2> QED BY <2>7, <2>8, <2>9, <2>10
<1>3. ASSUME NEW l \in Loggers, Insert(l) PROVE Turn'
  <2>1. /\ Same /\ Waits(l) /\ log' \subseteq log \cup {pending[l]}
        /\ \A k \in Loggers : Waits(k)' => Waits(k) /\ pending'[k] = pending[k]
        /\ UNCHANGED <<retired, overlapped, batch, batchPrev, writer>>
      BY <1>3, InsertStores DEF Insert, retention, writing
  <2>2. Turn
      BY <2>1 DEF InTurn, Same
  <2>3. LastFound'
    <3>1. log \cup retired \cup InFlight \subseteq log' \cup retired' \cup InFlight'
        BY <1>0, <2>1 DEF Same, Live
    <3>2. Found(lastHash', log \cup retired \cup InFlight)
        BY <2>1, <2>2 DEF Same, chain, LastFound
    <3> QED BY <3>1, <3>2, FoundMore DEF LastFound
  <2>4. \A e \in log' : e \in log \/ Found(e.prev, log' \cup retired')
    <3>1. Found(pending[l].prev, log' \cup retired')
        BY <1>0, <2>1, <2>2, FoundMore DEF RequestAlone
    <3> QED BY <2>1, <3>1
  <2>5. RowsFound' /\ RequestAlone' /\ BatchInTurn'
      BY <1>0, <2>1, <2>2, <2>4, TurnKept
  <2> QED BY <2>3, <2>5
<1>4. ASSUME insertAll PROVE Turn'
  <2>1. /\ Same /\ UNCHANGED <<batch, batchPrev, logging, overlapped, retired>>
        /\ (writer' = "note" /\ log' = log \cup Range(batch))
           \/ (writer' = "restore" /\ log' = log)
      BY <1>4, BatchStores
  <2>2. Turn /\ writer \in {"insert", "restore"}
      BY <1>4, <2>1 DEF InTurn, Same, insertAll
  <2>3. LastFound'
    <3>1. log \cup retired \cup InFlight \subseteq log' \cup retired' \cup InFlight'
        BY <1>0, <2>1 DEF Same, Live
    <3>2. Found(lastHash', log \cup retired \cup InFlight)
        BY <2>1, <2>2 DEF Same, chain, LastFound
    <3> QED BY <3>1, <3>2, FoundMore DEF LastFound
  <2>4. \A e \in log' : e \in log \/ Found(e.prev, log' \cup retired')
    <3>1. ASSUME Range(batch) \subseteq log', NEW i \in 1..Len(batch)
          PROVE  Found(batch[i].prev, log' \cup retired')
      <4>1. CASE i = 1
          BY <1>0, <2>2, <4>1, FoundMore DEF BatchInTurn, BatchOK
      <4>2. CASE i # 1
        <5>1. i \in 2..Len(batch) /\ i - 1 \in 1..Len(batch)
            BY SMTT(60), <4>2 DEF TypeOK
        <5>2. batch[i - 1] \in log'
            BY <2>2, <3>1, <5>1, WaitingBatch
        <5> QED BY <2>2, <5>1, <5>2 DEF BatchInTurn, Found
      <4> QED BY <4>1, <4>2
    <3>2. \A e \in Range(batch) : \E i \in 1..Len(batch) : e = batch[i]
        BY <2>2, WaitingBatch
    <3> QED BY <2>1, <3>1, <3>2
  <2>5. \A l \in Loggers : Waits(l)' => Waits(l) /\ pending'[l] = pending[l]
      BY <2>1 DEF logging, Waits
  <2>6. RowsFound' /\ RequestAlone' /\ BatchInTurn'
      BY <1>0, <2>1, <2>2, <2>4, <2>5, TurnKept
  <2> QED BY <2>3, <2>6
<1>5. ASSUME Aside PROVE Turn'
  <2>1. UNCHANGED <<log, retired, lastHash, lost, overlapped>> /\ InFlight' = InFlight
      BY <1>5 DEF Aside, chain, history
  <2>2. Turn
      BY <2>1 DEF InTurn
  <2>3. LastFound'
      BY <2>1, <2>2 DEF LastFound
  <2>4. RowsFound' /\ RequestAlone' /\ BatchInTurn'
      BY <1>5, <2>1, <2>2, TurnKept DEF Aside
  <2> QED BY <2>3, <2>4
<1>6. ASSUME Restore PROVE Turn'
  <2>1. /\ UNCHANGED <<log, retired, logging, overlapped>> /\ ~lost /\ lastHash' = batchPrev
      BY <1>6, TakenBack
  <2>2. Turn /\ writer \in {"insert", "restore"} /\ writer' = "select"
      BY SMTT(60), <1>6, <2>1 DEF InTurn, Restore, BatchDone
  <2>3. LastFound'
    <3>1. Found(lastHash', log \cup retired)
        BY <2>1, <2>2 DEF BatchInTurn
    <3> QED BY <2>1, <3>1 DEF LastFound, Found
  <2>4. \A l \in Loggers : Waits(l)' => Waits(l) /\ pending'[l] = pending[l]
      BY <2>1 DEF logging, Waits
  <2>5. RowsFound' /\ RequestAlone' /\ BatchInTurn'
      BY <1>0, <2>1, <2>2, <2>4, TurnKept
  <2> QED BY <2>3, <2>5
<1>7. ASSUME Archive \/ deleteEntries \/ DayPasses PROVE Turn'
  <2>1. UNCHANGED <<batch, batchPrev, writer, pending, logged, lastHash, lost, overlapped>>
        /\ log' \subseteq log
      BY <1>7 DEF Archive, deleteEntries, DayPasses, RetentionFrame, logging, writing, chain,
         history
  <2>2. Turn
      BY <2>1 DEF InTurn
  <2>3. InFlight' = InFlight
      BY <2>1 DEF InFlight
  <2>4. LastFound'
    <3>1. log \cup retired \cup InFlight \subseteq log' \cup retired' \cup InFlight'
        BY <1>0, <2>3
    <3> QED BY <2>1, <2>2, <3>1, FoundMore DEF LastFound
  <2>5. \A l \in Loggers : Waits(l)' => Waits(l) /\ pending'[l] = pending[l]
      BY <2>1 DEF Waits
  <2>6. RowsFound' /\ RequestAlone' /\ BatchInTurn'
      BY <1>0, <2>1, <2>2, <2>5, TurnKept
  <2> QED BY <2>4, <2>6
<1>8. ASSUME Restart PROVE Turn'
  <2>1. /\ UNCHANGED <<log, retired, overlapped>> /\ ~lost /\ writer' = "select"
        /\ \A l \in Loggers : pending'[l] = None
        /\ lastHash' = IF log = {} THEN NoHash ELSE Signature(Newest(log))
      BY <1>8 DEF Restart
  <2>2. Turn
      BY <2>1 DEF InTurn
  <2>3. LastFound'
    <3>1. log # {} => Newest(log) \in log
        BY NewestExists DEF TypeOK
    <3> QED BY <2>1, <3>1 DEF LastFound, Found, Signature
  <2>4. \A l \in Loggers : Waits(l)' => Waits(l) /\ pending'[l] = pending[l]
      BY <2>1 DEF Waits
  <2>5. RowsFound' /\ RequestAlone' /\ BatchInTurn'
      BY <1>0, <2>1, <2>2, <2>4, TurnKept
  <2> QED BY <2>3, <2>5
<1> QED BY <1>1, <1>2, <1>3, <1>4, <1>5, <1>6, <1>7, <1>8, StandAside DEF Next
-----------------------------------------------------------------------------
(* The theorems.                                                            *)

LEMMA InvInit == Init => Inv
<1> SUFFICES ASSUME Init PROVE Inv
    OBVIOUS
<1>1. TypeOK
    BY TypeInit
<1>2. Len(<<>>) = 0 /\ 1..0 = {}
    BY SMTT(60)
<1>3. InFlight = {} /\ Live = {} /\ \A l \in Loggers : ~Waits(l)
    BY DEF Init, InFlight, Live, Waits
<1>4. WriterOK /\ Noted /\ Outlived /\ Saved /\ FlushDelivers
    BY DEF Init, WriterOK, Noted, Outlived, Saved, FlushDelivers
<1>5. BatchOK
    BY <1>2 DEF Init, BatchOK
<1>6. Ordered /\ OldEnd /\ Linked
    BY <1>3 DEF Init, Ordered, OldEnd, Linked
<1>7. InTurn
    BY <1>3 DEF Init, InTurn, RowsFound, LastFound, Found, RequestAlone, BatchInTurn
<1> QED BY <1>1, <1>4, <1>5, <1>6, <1>7 DEF Inv

LEMMA InvNext == Inv /\ [Next]_vars => Inv'
BY TypeNext, WriterNext, BatchNext, NotedNext, RetiredNext, ChainNext, TurnNext, FlushNext
   DEF Inv, ChainInv

LEMMA InvAlways == Spec => []Inv
<1>1. Init => Inv
    BY InvInit
<1>2. Inv /\ [Next]_vars => Inv'
    BY InvNext
<1> QED BY <1>1, <1>2, PTL DEF Spec

\* Every variable keeps its type: the queue and the batch their sizes, what
\* retention has read the rows it still finds.
THEOREM TypeCorrect == Spec => []TypeOK
<1>1. Inv => TypeOK
    BY DEF Inv
<1> QED BY <1>1, InvAlways, PTL

\* When nothing is being written, each stored entry carries the signature of the
\* one stored before it and the next will, unless the chain went on from an entry
\* that was never stored: for any number of requests racing the writer, with
\* failed inserts, restarts, retention and switches of signing in between.
THEOREM ChainAlwaysIntact == Spec => []ChainIntact
<1>1. Inv => ChainIntact
  <2> SUFFICES ASSUME Inv, Quiet, ~lost
               PROVE  /\ \A e \in log : Follows(e)
                      /\ log # {} => lastHash = Signature(Newest(log))
      BY DEF ChainIntact
  <2>0. TypeOK /\ Linked
      BY DEF Inv
  <2>1. InFlight = {}
      BY DEF Quiet, InFlight
  <2>2. Live = log
      BY <2>1 DEF Live
  <2>3. ASSUME NEW e \in log, Before(e) # {} PROVE e.prev = Signature(Newest(Before(e)))
    <3> DEFINE f == Newest(Before(e))
    <3>1. Before(e) \subseteq Entries /\ IsFiniteSet(Before(e))
        BY <2>0, FS_Subset DEF Before, TypeOK
    <3>2. f \in Before(e) /\ Top(f, Before(e))
        BY <2>3, <3>1, NewestExists
    <3> HIDE DEF f
    <3>3. f \in log /\ f.stamp < e.stamp
        BY <3>2 DEF Before
    <3>4. ASSUME NEW g \in log, f.stamp < g.stamp, g.stamp < e.stamp PROVE FALSE
      <4>1. g.stamp <= f.stamp
          BY <3>2, <3>4 DEF Before, Top
      <4>2. g.stamp \in Nat /\ f.stamp \in Nat
          BY <2>0, <3>3 DEF TypeOK, Entries
      <4> QED BY SMTT(60), <3>4, <4>1, <4>2
    <3>5. Precedes(f, e, log)
        BY <3>3, <3>4 DEF Precedes
    <3> QED BY <2>0, <2>2, <3>3, <3>5 DEF Linked, f
  <2>4. ASSUME log # {} PROVE lastHash = Signature(Newest(log))
    <3>1. Newest(log) \in log /\ Top(Newest(log), log)
        BY <2>0, <2>4, NewestExists DEF TypeOK
    <3> QED BY <2>0, <2>2, <3>1 DEF Linked
  <2> QED BY <2>3, <2>4 DEF Follows
<1> QED BY <1>1, InvAlways, PTL

\* As long as no two entries waited to be stored at once, a stored entry's
\* predecessor is stored too or was retired, at every moment: VerifyRange never
\* finds a removal that is only a delay.
THEOREM AlwaysStoredInOrder == Spec => []StoredInOrder
<1>1. Inv => StoredInOrder
    BY DEF Inv, InTurn, RowsFound, Found, StoredInOrder
<1> QED BY <1>1, InvAlways, PTL

\* Where audit.retention_days is the retention in effect, checkTail never reports
\* the tail missing: the anchor was stored, and if retention has deleted it, it is
\* too old to be looked for.  With a shorter log.audit_log_retention_days the two
\* disagree, as checkTail reads audit.retention_days alone.
THEOREM TailNeverMissed ==
    ASSUME LogDays = 0 \/ (AuditDays > 0 /\ AuditDays <= LogDays)
    PROVE  Spec => []TailNeverMissing
<1>1. Inv => TailNeverMissing
  <2> SUFFICES ASSUME Inv, anchor # None, anchor \notin log
               PROVE  AuditDays > 0 /\ anchor.day < today - AuditDays
      BY DEF TailNeverMissing, TailMissing
  <2>1. anchor \in retired
      BY DEF Inv, Noted
  <2>2. effectiveRetentionDays > 0 /\ anchor.day < today - effectiveRetentionDays
      BY <2>1 DEF Inv, Outlived
  <2>3. effectiveRetentionDays > 0 => effectiveRetentionDays = AuditDays
      BY SMTT(60), DaysAssumption DEF effectiveRetentionDays
  <2> QED BY <2>2, <2>3
<1> QED BY <1>1, InvAlways, PTL

\* A row retention deleted is in the archive: retireChunk deletes exactly what it
\* has archived, whatever was stored in between.
THEOREM AlwaysArchivedFirst == Spec => []ArchivedFirst
<1>1. Inv => ArchivedFirst
    BY DEF Inv, Saved, ArchivedFirst
<1> QED BY <1>1, InvAlways, PTL

\* When Flush is answered, no system entry that was queued before it is still
\* queued or in the writer's hands, for any queue and batch size.
THEOREM FlushAlwaysDelivers == Spec => []FlushDelivers
<1>1. Inv => FlushDelivers
    BY DEF Inv
<1> QED BY <1>1, InvAlways, PTL
=============================================================================
