--------------------- MODULE FilesystemBlobStorageProofs ---------------------
(***************************************************************************)
(* Proofs about the filesystem adapter, for any number of concurrent calls,*)
(* any contents and any set of hazards.                                    *)
(***************************************************************************)
EXTENDS FilesystemBlobStorage, SequenceTheorems, TLAPS

\* While it is written, the scratch file is what the digest has consumed, less
\* the chunk between digest.update and the write.
SpoolInv(r) ==
    /\ pc[r] \in {"idle", "tmpdir", "mkstemp"} => data[r] = <<>> /\ hashed[r] = <<>>
    /\ pc[r] \in {"spool", "fsync"} => data[r] = hashed[r]
    /\ pc[r] = "write" => hashed[r] = Append(data[r], hashed[r][Len(hashed[r])])

\* From the fsync to the rename the scratch file is durable and its key settled.
TargetInv(r) ==
    pc[r] \in {"lstat", "shard", "stat", "rename", "discard", "orphan_rename"} =>
        /\ synced[r]
        /\ data[r] = hashed[r]
        /\ key[r] = Sha256[hashed[r]]
        /\ pc[r] = "orphan_rename" => outcome[r] = "Cancelled"

\* An inode in the tree, or on its way back into it, is durable, has the bytes
\* its path names, and its writer has returned without an error.
PublishedInv(d) ==
    \A f \in {tree[d], disk[d]} \cap Request :
        /\ pc[f] = "done"
        /\ synced[f]
        /\ Sha256[data[f]] = d
        /\ outcome[f] \in {"stored", "Cancelled"}

\* A put() that found its content stored has found the same bytes.
DuplicateInv(r) ==
    pc[r] = "discard" => /\ seen[r] \in Request
                         /\ pc[seen[r]] = "done"
                         /\ synced[seen[r]]
                         /\ data[seen[r]] = data[r]

ReportInv(r) ==
    /\ pc[r] = "rename" => size[r] = Len(data[r])
    /\ outcome[r] = "stored" => /\ pc[r] = "done"
                                /\ key[r] = Sha256[hashed[r]]
                                /\ size[r] = Len(hashed[r])

\* What get() has yielded is the beginning of c, and all of it once it returns.
Yielded(r, c) ==
    /\ Sha256[c] = key[r]
    /\ Len(sent[r]) <= Len(c)
    /\ \A i \in 1..Len(sent[r]) : sent[r][i] = c[i]
    /\ outcome[r] = "streamed" => sent[r] = c

\* An open handle keeps a durable inode of the right content, in the tree or not.
StreamInv(r) ==
    /\ outcome[r] = "streamed" => pc[r] = "done"
    /\ sent[r] # <<>> => pc[r] \in {"stream", "done", "dead"}
    /\ pc[r] = "stream" => /\ seen[r] \in Request
                           /\ pc[seen[r]] = "done"
                           /\ synced[seen[r]]
                           /\ Yielded(r, data[seen[r]])
    /\ sent[r] # <<>> \/ outcome[r] = "streamed" => \E c \in Content : Yielded(r, c)

IInv ==
    /\ TypeOK
    /\ \A r \in Request : /\ SpoolInv(r) /\ TargetInv(r) /\ DuplicateInv(r)
                          /\ ReportInv(r) /\ StreamInv(r)
    /\ \A d \in Digest : PublishedInv(d)

-----------------------------------------------------------------------------
\* Contents are the sequences of at most MaxChunks chunks.
LEMMA ContentIsSeq ==
    ASSUME NEW c \in Content
    PROVE  c \in Seq(Chunk) /\ Len(c) \in 0..MaxChunks
BY BoundAssumption DEF Content, BoundedSeq, SeqOf

\* ... and conversely.
LEMMA SeqIsContent ==
    ASSUME NEW c \in Seq(Chunk), Len(c) <= MaxChunks
    PROVE  c \in Content
<1>1. Len(c) \in 0..MaxChunks /\ c \in [1..Len(c) -> Chunk]
  BY LenProperties, BoundAssumption
<1> QED
  BY <1>1 DEF Content, BoundedSeq, SeqOf

\* Appending a chunk to a content with room for it, as the source does.
LEMMA ContentAppend ==
    ASSUME NEW c \in Content, Len(c) < MaxChunks, NEW e \in Chunk
    PROVE  /\ Append(c, e) \in Content
           /\ Append(c, e)[Len(Append(c, e))] = e
<1>1. c \in Seq(Chunk) /\ Len(c) \in Nat
  BY ContentIsSeq
<1>2. /\ Append(c, e) \in Seq(Chunk)
      /\ Len(Append(c, e)) = Len(c) + 1
      /\ Append(c, e)[Len(c) + 1] = e
  BY <1>1, AppendProperties
<1>3. Len(Append(c, e)) <= MaxChunks /\ Append(c, e)[Len(Append(c, e))] = e
  BY <1>1, <1>2, BoundAssumption
<1>4. Append(c, e) \in Content
  BY <1>2, <1>3, SeqIsContent, Zenon
<1> QED
  BY <1>3, <1>4

\* A power loss keeps a prefix of an unsynced file.
LEMMA ContentPrefix ==
    ASSUME NEW c \in Content, NEW n \in 0..MaxChunks, n < Len(c)
    PROVE  SubSeq(c, 1, n) \in Content
<1>1. c \in Seq(Chunk) /\ Len(c) \in Nat
  BY ContentIsSeq
<1>2. \A i \in 1..n : c[i] \in Chunk
  BY <1>1, ElementOfSeq, BoundAssumption
<1>3. SubSeq(c, 1, n) \in Seq(Chunk) /\ Len(SubSeq(c, 1, n)) = IF 1 <= n THEN n - 1 + 1 ELSE 0
  BY <1>2, SubSeqProperties
<1>4. Len(SubSeq(c, 1, n)) <= MaxChunks
  BY <1>3, BoundAssumption
<1> QED
  BY <1>3, <1>4, SeqIsContent, Zenon

\* The empty stream is a content.
LEMMA ContentEmpty == <<>> \in Content /\ Len(<<>>) = 0
<1>1. <<>> \in Seq(Chunk) /\ Len(<<>>) = 0
  BY EmptySeq
<1>2. Len(<<>>) <= MaxChunks
  BY <1>1, BoundAssumption
<1> QED
  BY <1>1, <1>2, SeqIsContent, Zenon

-----------------------------------------------------------------------------
\* The empty store satisfies the inductive invariant.
LEMMA InitIInv == Init => IInv
<1> SUFFICES ASSUME Init PROVE IInv
  OBVIOUS
<1>1. TypeOK
  BY ContentEmpty, BoundAssumption DEF Init, TypeOK, Entry, Outcome
<1>2. ASSUME NEW r \in Request
      PROVE  /\ SpoolInv(r) /\ TargetInv(r) /\ DuplicateInv(r)
             /\ ReportInv(r) /\ StreamInv(r)
  BY DEF Init, SpoolInv, TargetInv, DuplicateInv, ReportInv, StreamInv
<1>3. ASSUME NEW d \in Digest PROVE PublishedInv(d)
  BY EntryAssumption DEF Init, PublishedInv
<1> QED
  BY <1>1, <1>2, <1>3 DEF IInv

\* Every step keeps the types; WriteChunk, ReadChunk and DiscardDuplicate need
\* the inductive invariant for it.
LEMMA TypeStep == IInv /\ [Next]_vars => TypeOK'
<1> SUFFICES ASSUME IInv, [Next]_vars PROVE TypeOK'
  OBVIOUS
<1> USE DEF TypeOK, Goto, Return, fsVars, Spooling, Mutating, Harmless, Orphan,
            Finished, Outcome
<1>t. TypeOK
  BY DEF IInv
<1>k. ASSUME NEW r \in Request, pc[r] \in {"lstat", "rename", "orphan_rename"}
      PROVE  key[r] \in Digest
  BY <1>t, <1>k, HashAssumption DEF IInv, TargetInv
<1>e. ASSUME NEW k PROVE EntryAt(k) \in Entry
  BY <1>t DEF EntryAt, Entry
<1>l. ASSUME NEW f \in Request PROVE Len(data[f]) \in 0..MaxChunks
  BY <1>t, ContentIsSeq
<1>1. ASSUME NEW r \in Request, MakeTmpDirectory(r) PROVE TypeOK'
  BY <1>t, <1>1 DEF MakeTmpDirectory
<1>2. ASSUME NEW r \in Request, Mkstemp(r) PROVE TypeOK'
  BY <1>t, <1>2 DEF Mkstemp
<1>3. ASSUME NEW r \in Request, SourceEnds(r) PROVE TypeOK'
  BY <1>t, <1>3 DEF SourceEnds
<1>4. ASSUME NEW r \in Request, SourceFails(r) PROVE TypeOK'
  BY <1>t, <1>4 DEF SourceFails, RaiseInSpool
<1>5. ASSUME NEW r \in Request, Fsync(r) PROVE TypeOK'
  BY <1>t, <1>5, HashAssumption DEF Fsync, MakeDurable, Key
<1>6. ASSUME NEW r \in Request, Cleanup(r) PROVE TypeOK'
  BY <1>t, <1>6 DEF Cleanup
<1>7. ASSUME NEW r \in Request, LstatTarget(r) PROVE TypeOK'
  BY <1>t, <1>7, <1>k, ZenonT(90) DEF LstatTarget, Entry
<1>8. ASSUME NEW r \in Request, MakeShardDirectory(r) PROVE TypeOK'
  BY <1>t, <1>8 DEF MakeShardDirectory
<1>9. ASSUME NEW r \in Request, LstatScratch(r) PROVE TypeOK'
  BY <1>t, <1>9, <1>l DEF LstatScratch, StSize
<1>10. ASSUME NEW r \in Request, OpenBlob(r) PROVE TypeOK'
  BY <1>t, <1>10, <1>e DEF OpenBlob
<1>11. ASSUME NEW r \in Request, ExistsBlob(r) PROVE TypeOK'
  BY <1>t, <1>11 DEF ExistsBlob
<1>12. ASSUME NEW r \in Request, Fault(r) PROVE TypeOK'
  BY <1>t, <1>12 DEF Fault, RaiseInSpool
<1>13. ASSUME NEW r \in Request, OrphanRun(r) PROVE TypeOK'
  BY <1>t, <1>13, <1>k, ZenonT(90) DEF OrphanRun, Publish, UnlinkEntry, Entry, EntryAt
<1>14. ASSUME NEW r \in Request, OrphanDrop(r) PROVE TypeOK'
  BY <1>t, <1>14 DEF OrphanDrop
<1>15. ASSUME NEW r \in Request, HashChunk(r) PROVE TypeOK'
  <2>1. PICK c \in Chunk : hashed' = [hashed EXCEPT ![r] = Append(@, c)]
    BY <1>15 DEF HashChunk
  <2>2. Append(hashed[r], c) \in Content
    BY <1>t, <1>15, ContentAppend DEF HashChunk
  <2> QED
    BY <1>t, <1>15, <2>1, <2>2 DEF HashChunk
<1>16. ASSUME NEW r \in Request, WriteChunk(r) PROVE TypeOK'
  <2>1. Append(data[r], hashed[r][Len(hashed[r])]) = hashed[r]
    BY <1>16 DEF WriteChunk, IInv, SpoolInv
  <2> QED
    BY <1>t, <1>16, <2>1 DEF WriteChunk
<1>17. ASSUME NEW r \in Request, DiscardDuplicate(r) PROVE TypeOK'
  <2>1. seen[r] \in Request
    BY <1>17 DEF DiscardDuplicate, IInv, DuplicateInv
  <2> QED
    BY <1>t, <1>l, <1>17, <2>1 DEF DiscardDuplicate, StSize
<1>18. ASSUME NEW r \in Request, ReadChunk(r) PROVE TypeOK'
  <2>1. seen[r] \in Request
    BY <1>18 DEF ReadChunk, IInv, StreamInv
  <2>2. CASE Len(sent[r]) < Len(data[seen[r]])
    <3>1. data[seen[r]] \in Seq(Chunk) /\ Len(data[seen[r]]) \in 0..MaxChunks
      BY <1>t, <2>1, ContentIsSeq
    <3>a. sent[r] \in Content
      BY <1>t
    <3>2. Len(sent[r]) \in Nat /\ sent[r] \in Content
      BY <3>a, ContentIsSeq
    <3>3. Len(sent[r]) + 1 \in 1..Len(data[seen[r]]) /\ Len(sent[r]) < MaxChunks
      BY <2>2, <3>1, <3>2, BoundAssumption
    <3>4. Append(sent[r], data[seen[r]][Len(sent[r]) + 1]) \in Content
      BY <3>1, <3>2, <3>3, ElementOfSeq, ContentAppend
    <3>5. /\ sent' = [sent EXCEPT ![r] = Append(@, data[seen[r]][Len(sent[r]) + 1])]
          /\ UNCHANGED <<pc, outcome>>
      BY <1>18, <2>2, <3>1, <3>2 DEF ReadChunk, Handle
    <3> QED
      BY <1>t, <1>18, <3>4, <3>5 DEF ReadChunk
  <2>3. CASE ~(Len(sent[r]) < Len(data[seen[r]]))
    BY <1>t, <1>18, <2>3 DEF ReadChunk, Handle
  <2> QED
    BY <2>2, <2>3
<1>19. ASSUME NEW r \in Request, NEW o \in Op, NEW k \in Key \cup {NoKey}, Begin(r, o, k)
       PROVE  TypeOK'
  <2>1. FirstStep[o] \in Mutating \cup Harmless
    BY DEF Op, FirstStep
  <2> QED
    BY <1>t, <1>19, <2>1 DEF Begin
<1>20. ASSUME NEW r \in Request, Rename(r) PROVE TypeOK'
  <2>1. CASE Publish(r)
    <3>1. /\ tree' \in [Digest -> Entry] /\ scratch' \subseteq Request
          /\ latest' \in [Digest -> Request \cup {"absent"}]
          /\ UNCHANGED <<disk, data, synced>>
      BY <1>t, <2>1, <1>k, <1>20 DEF Rename, Publish, Entry
    <3>2. PICK o \in Outcome : /\ pc' = [pc EXCEPT ![r] = "done"]
                               /\ outcome' = [outcome EXCEPT ![r] = o]
      BY <1>20 DEF Rename
    <3> QED
      BY <1>t, <1>20, <3>1, <3>2 DEF Rename
  <2>2. CASE UNCHANGED fsVars
    BY <1>t, <1>20, <2>2 DEF Rename
  <2> QED
    BY <1>20, <2>1, <2>2 DEF Rename
<1>21. ASSUME NEW r \in Request, SizeBlob(r) PROVE TypeOK'
  <2>1. CASE EntryAt(key[r]) \in Request
    <3>1. StSize(tree[key[r]]) \in 0..MaxChunks
      BY <2>1, <1>l, EntryAssumption DEF EntryAt, StSize
    <3>2. /\ size' = [size EXCEPT ![r] = StSize(tree[key[r]])]
          /\ pc' = [pc EXCEPT ![r] = "done"]
          /\ outcome' = [outcome EXCEPT ![r] = "sized"]
          /\ UNCHANGED <<fsVars, op, key, hashed, seen, sent>>
      BY <1>21, <2>1 DEF SizeBlob
    <3> QED
      BY <1>t, <3>1, <3>2
  <2>2. CASE EntryAt(key[r]) \notin Request
    BY <1>t, <1>21, <2>2 DEF SizeBlob
  <2> QED
    BY <2>1, <2>2
<1>22. ASSUME NEW r \in Request, UnlinkBlob(r) PROVE TypeOK'
  <2>1. CASE UnlinkEntry(r)
    <3>1. /\ tree' \in [Digest -> Entry] /\ seen' \in [Request -> Entry]
          /\ UNCHANGED <<disk, scratch, data, synced, latest>>
      BY <1>t, <2>1 DEF UnlinkEntry, EntryAt, Entry
    <3>2. PICK o \in Outcome : /\ pc' = [pc EXCEPT ![r] = "done"]
                               /\ outcome' = [outcome EXCEPT ![r] = o]
      BY <1>22 DEF UnlinkBlob, UnlinkError
    <3>3. UNCHANGED <<op, key, hashed, sent, size>>
      BY <1>22 DEF UnlinkBlob
    <3> QED
      BY <1>t, <3>1, <3>2, <3>3
  <2>2. CASE UNCHANGED <<fsVars, seen>>
    BY <1>t, <1>22, <2>2 DEF UnlinkBlob, UnlinkError
  <2> QED
    BY <1>22, <2>1, <2>2 DEF UnlinkBlob
<1>23. ASSUME NEW r \in Request, Cancel(r) PROVE TypeOK'
  <2>1. ASSUME pc[r] \in Mutating PROVE OrphanOf(pc[r]) \in Orphan
    BY <2>1 DEF OrphanOf
  <2>2. PICK l \in Orphan \cup {"cleanup", "done"} : pc' = [pc EXCEPT ![r] = l]
    BY <1>23, <2>1 DEF Cancel, RaiseInSpool
  <2>3. /\ outcome' = [outcome EXCEPT ![r] = "Cancelled"]
        /\ UNCHANGED <<fsVars, op, key, hashed, seen, sent, size>>
    BY <1>23 DEF Cancel, RaiseInSpool
  <2> QED
    BY <1>t, <2>2, <2>3
<1>24. ASSUME NEW d \in Digest, NEW e \in Foreign, Plant(d, e) PROVE TypeOK'
  BY <1>t, <1>24 DEF Plant, callVars, Entry
<1>25. ASSUME NEW d \in Digest, Writeback(d) PROVE TypeOK'
  BY <1>t, <1>25 DEF Writeback, callVars
<1>26. ASSUME Die
       PROVE  /\ pc' \in [Request -> {"idle"} \cup Orphan \cup Finished]
              /\ outcome' \in [Request -> Outcome]
  BY <1>t, <1>26 DEF Die, InFlight
<1>27. CASE Kill
  BY <1>t, <1>27, <1>26 DEF Kill
<1>28. CASE PowerLoss
  <2>1. PICK kept \in 0..MaxChunks :
           data' = [r \in Request |-> IF synced[r] \/ Len(data[r]) <= kept
                                      THEN data[r] ELSE SubSeq(data[r], 1, kept)]
    BY <1>28 DEF PowerLoss
  <2>2. ASSUME NEW r \in Request, ~(Len(data[r]) <= kept)
        PROVE  SubSeq(data[r], 1, kept) \in Content
    <3>1. data[r] \in Content /\ kept < Len(data[r])
      <4>1. data[r] \in Content /\ Len(data[r]) \in 0..MaxChunks
        BY <1>t, <1>l
      <4> QED
        BY <2>2, <4>1, BoundAssumption
    <3> QED
      BY <3>1, ContentPrefix
  <2>3. data' \in [Request -> Content]
    BY <1>t, <2>1, <2>2
  <2>4. scratch' \subseteq Request
    BY <1>28 DEF PowerLoss
  <2> QED
    BY <1>t, <1>28, <1>26, <2>3, <2>4 DEF PowerLoss
<1>29. CASE UNCHANGED vars
  BY <1>t, <1>29 DEF vars, callVars
<1> QED
  BY <1>1, <1>2, <1>3, <1>4, <1>5, <1>6, <1>7, <1>8, <1>9, <1>10, <1>11, <1>12, <1>13,
     <1>14, <1>15, <1>16, <1>17, <1>18, <1>19, <1>20, <1>21, <1>22, <1>23, <1>24, <1>25,
     <1>26, <1>27, <1>28, <1>29
     DEF Next, CallPut, CallWithKey, Syscall, CallerStep, Interference, Environment,
         Quiescent, Op

-----------------------------------------------------------------------------
\* The steps of one call.
RequestStep(r) ==
    \/ CallPut(r)
    \/ \E o \in Op, k \in Key : CallWithKey(r, o, k)
    \/ Syscall(r) \/ CallerStep(r) \/ Interference(r)

\* Nothing about call q, nor about the inode it created, changes.
Same(q) ==
    /\ data'[q] = data[q] /\ synced'[q] = synced[q] /\ key'[q] = key[q]
    /\ pc'[q] = pc[q] /\ hashed'[q] = hashed[q] /\ seen'[q] = seen[q]
    /\ sent'[q] = sent[q] /\ size'[q] = size[q] /\ outcome'[q] = outcome[q]

\* A call that is not over steps, and touches only its own locals and inode.
LEMMA LocalStep ==
    ASSUME TypeOK, NEW r \in Request, RequestStep(r)
    PROVE  /\ pc[r] \notin Finished
           /\ \A q \in Request \ {r} : Same(q)
<1> USE DEF TypeOK, Goto, Return, fsVars, Same, Finished
<1>1. CASE MakeTmpDirectory(r)
  BY <1>1 DEF MakeTmpDirectory
<1>2. CASE Mkstemp(r)
  BY <1>2 DEF Mkstemp
<1>3. CASE HashChunk(r)
  BY <1>3 DEF HashChunk
<1>4. CASE WriteChunk(r)
  BY <1>4 DEF WriteChunk
<1>5. CASE SourceEnds(r)
  BY <1>5 DEF SourceEnds
<1>6. CASE SourceFails(r)
  BY <1>6 DEF SourceFails, RaiseInSpool
<1>7. CASE Fsync(r)
  BY <1>7 DEF Fsync, MakeDurable
<1>8. CASE Cleanup(r)
  BY <1>8 DEF Cleanup
<1>9. CASE LstatTarget(r)
  BY <1>9 DEF LstatTarget
<1>10. CASE MakeShardDirectory(r)
  BY <1>10 DEF MakeShardDirectory
<1>11. CASE LstatScratch(r)
  BY <1>11 DEF LstatScratch
<1>12. CASE Rename(r)
  BY <1>12 DEF Rename, Publish
<1>13. CASE DiscardDuplicate(r)
  BY <1>13 DEF DiscardDuplicate
<1>14. CASE OpenBlob(r)
  BY <1>14 DEF OpenBlob
<1>15. CASE ReadChunk(r)
  BY <1>15 DEF ReadChunk
<1>16. CASE ExistsBlob(r)
  BY <1>16 DEF ExistsBlob
<1>17. CASE SizeBlob(r)
  BY <1>17 DEF SizeBlob
<1>18. CASE UnlinkBlob(r)
  BY <1>18 DEF UnlinkBlob, UnlinkEntry
<1>19. CASE Fault(r)
  BY <1>19 DEF Fault, RaiseInSpool, Spooling, Mutating, Harmless, Orphan
<1>20. CASE Cancel(r)
  BY <1>20 DEF Cancel, RaiseInSpool, Spooling, Mutating, Harmless, Orphan
<1>21. CASE OrphanRun(r)
  BY <1>21 DEF OrphanRun, Publish, UnlinkEntry
<1>22. CASE OrphanDrop(r)
  BY <1>22 DEF OrphanDrop, Spooling, Mutating, Harmless, Orphan
<1>23. ASSUME NEW o, NEW k, pc[r] = "idle", Begin(r, o, k)
       PROVE  pc[r] \notin Finished /\ \A q \in Request \ {r} : Same(q)
  BY <1>23 DEF Begin
<1> QED
  BY <1>1, <1>2, <1>3, <1>4, <1>5, <1>6, <1>7, <1>8, <1>9, <1>10, <1>11, <1>12, <1>13,
     <1>14, <1>15, <1>16, <1>17, <1>18, <1>19, <1>20, <1>21, <1>22, <1>23
     DEF RequestStep, CallPut, CallWithKey, Syscall, CallerStep, Interference

\* What a call can do to a content-addressed path: put its own finished scratch
\* file there, or empty it.
LEMMA TreeStep ==
    ASSUME IInv, NEW r \in Request, RequestStep(r), NEW d \in Digest
    PROVE  /\ disk' = disk
           /\ \/ tree'[d] = tree[d]
              \/ tree'[d] = "absent"
              \/ /\ tree'[d] = r
                 /\ pc[r] \in {"rename", "orphan_rename"}
                 /\ key[r] = d
                 /\ pc'[r] = "done"
                 /\ outcome'[r] \in {"stored", "Cancelled"}
                 /\ data'[r] = data[r] /\ synced'[r] = synced[r]
<1> USE DEF TypeOK, Goto, Return, fsVars
<1>t. TypeOK /\ TargetInv(r)
  BY DEF IInv
<1>1. CASE Rename(r)
  BY <1>t, <1>1 DEF Rename, Publish
<1>2. CASE UnlinkBlob(r)
  BY <1>t, <1>2 DEF UnlinkBlob, UnlinkEntry
<1>3. CASE OrphanRun(r)
  BY <1>t, <1>3 DEF OrphanRun, Publish, UnlinkEntry, TargetInv
<1>4. ASSUME NEW o, NEW k, Begin(r, o, k) PROVE tree' = tree /\ disk' = disk
  BY <1>4 DEF Begin
<1>5. CASE CallerStep(r) \/ Fault(r) \/ Cancel(r) \/ OrphanDrop(r)
  BY <1>5 DEF CallerStep, HashChunk, SourceEnds, SourceFails, ReadChunk, Fault, Cancel,
              OrphanDrop
<1>6. CASE MakeTmpDirectory(r) \/ Mkstemp(r) \/ WriteChunk(r) \/ Fsync(r) \/ Cleanup(r)
           \/ LstatTarget(r) \/ MakeShardDirectory(r) \/ LstatScratch(r)
           \/ DiscardDuplicate(r) \/ OpenBlob(r) \/ ExistsBlob(r) \/ SizeBlob(r)
  BY <1>6 DEF MakeTmpDirectory, Mkstemp, WriteChunk, Fsync, Cleanup, LstatTarget,
              MakeShardDirectory, LstatScratch, DiscardDuplicate, OpenBlob, ExistsBlob, SizeBlob
<1> QED
  BY <1>1, <1>2, <1>3, <1>4, <1>5, <1>6
     DEF RequestStep, CallPut, CallWithKey, Syscall, Interference

\* The part of the invariant that is about one call.
OwnInv(r) == /\ SpoolInv(r) /\ TargetInv(r) /\ DuplicateInv(r)
             /\ ReportInv(r) /\ StreamInv(r)

\* A call's own step preserves its own part of the invariant.
LEMMA OwnStep ==
    ASSUME IInv, NEW r \in Request, RequestStep(r)
    PROVE  OwnInv(r)'
<1> USE DEF TypeOK, Goto, Return, fsVars
<1>t. TypeOK /\ OwnInv(r)
  BY DEF IInv, OwnInv
<1> USE DEF OwnInv, SpoolInv, TargetInv, DuplicateInv, ReportInv, StreamInv, Yielded
<1>1. CASE MakeTmpDirectory(r)
  BY <1>t, <1>1 DEF MakeTmpDirectory
<1>2. CASE Mkstemp(r)
  BY <1>t, <1>2 DEF Mkstemp
<1>3. CASE WriteChunk(r)
  BY <1>t, <1>3 DEF WriteChunk
<1>4. CASE SourceEnds(r)
  BY <1>t, <1>4 DEF SourceEnds
<1>5. CASE SourceFails(r)
  BY <1>t, <1>5 DEF SourceFails, RaiseInSpool
<1>6. CASE Fsync(r)
  BY <1>t, <1>6 DEF Fsync, MakeDurable
<1>7. CASE Cleanup(r)
  BY <1>t, <1>7 DEF Cleanup
<1>8. CASE MakeShardDirectory(r)
  BY <1>t, <1>8 DEF MakeShardDirectory
<1>9. CASE LstatScratch(r)
  BY <1>t, <1>9 DEF LstatScratch, StSize
<1>10. CASE Rename(r)
  BY <1>t, <1>10, ZenonT(90) DEF Rename, Publish
<1>11. CASE ExistsBlob(r)
  BY <1>t, <1>11 DEF ExistsBlob
<1>12. CASE SizeBlob(r)
  BY <1>t, <1>12, ZenonT(90) DEF SizeBlob
<1>13. CASE UnlinkBlob(r)
  BY <1>t, <1>13, ZenonT(90) DEF UnlinkBlob, UnlinkEntry, UnlinkError
<1>14. CASE Fault(r)
  BY <1>t, <1>14, ZenonT(90) DEF Fault, RaiseInSpool, Spooling, Mutating, Harmless, Orphan
<1>15. CASE OrphanRun(r)
  BY <1>t, <1>15 DEF OrphanRun, Publish, UnlinkEntry
<1>16. CASE OrphanDrop(r)
  BY <1>t, <1>16 DEF OrphanDrop, Spooling, Mutating, Harmless, Orphan
<1>17. CASE HashChunk(r)
  BY <1>t, <1>17 DEF HashChunk
<1>18. CASE DiscardDuplicate(r)
  BY <1>t, <1>18 DEF DiscardDuplicate, StSize
<1>19. CASE Cancel(r)
  <2>1. /\ pc'[r] \in Orphan \cup {"cleanup", "done"}
        /\ pc'[r] = "orphan_rename" => pc[r] = "rename"
    BY <1>t, <1>19, ZenonT(90) DEF Cancel, RaiseInSpool, OrphanOf, Spooling, Mutating, Harmless, Orphan
  <2>2. /\ outcome' = [outcome EXCEPT ![r] = "Cancelled"]
        /\ pc[r] \in Spooling \cup Mutating \cup Harmless
        /\ UNCHANGED <<fsVars, op, key, hashed, seen, sent, size>>
    BY <1>19 DEF Cancel, RaiseInSpool
  <2>3. sent[r] = <<>> \/ pc[r] = "stream"
    BY <1>t, <2>2 DEF Spooling, Mutating, Harmless
  <2>4. pc[r] = "stream" => pc'[r] = "done"
    BY <1>t, <1>19 DEF Cancel, Spooling, Mutating
  <2> QED
    BY <1>t, <2>1, <2>2, <2>3, <2>4 DEF Orphan
<1>20. CASE LstatTarget(r)
  <2>1. /\ pc[r] = "lstat"
        /\ synced[r] /\ data[r] = hashed[r] /\ key[r] = Sha256[data[r]]
        /\ key[r] \in Digest
    BY <1>t, <1>20, HashAssumption DEF LstatTarget
  <2>2. CASE tree[key[r]] \in Request
    <3>1. /\ pc[tree[key[r]]] = "done"
          /\ synced[tree[key[r]]]
          /\ Sha256[data[tree[key[r]]]] = key[r]
      <4>1. PublishedInv(key[r])
        BY <2>1 DEF IInv
      <4> QED
        BY <2>2, <4>1 DEF PublishedInv
    <3>2. data[tree[key[r]]] = data[r]
      BY <1>t, <2>1, <2>2, <3>1, HashAssumption
    <3> QED
      BY <1>t, <1>20, <2>1, <2>2, <3>1, <3>2, EntryAssumption, ZenonT(90) DEF LstatTarget
  <2>3. CASE tree[key[r]] \notin Request
    <3>1. /\ pc'[r] \in {"shard", "done"}
          /\ outcome'[r] \in {outcome[r], "StorageException"}
          /\ UNCHANGED <<fsVars, op, key, hashed, sent, size>>
      BY <1>t, <1>20, <2>3 DEF LstatTarget
    <3> QED
      BY <1>t, <2>1, <3>1
  <2> QED
    BY <2>2, <2>3
<1>21. CASE OpenBlob(r)
  <2>1. pc[r] = "open" /\ sent[r] = <<>> /\ outcome[r] \notin {"stored", "streamed"}
    BY <1>t, <1>21 DEF OpenBlob
  <2>2. CASE EntryAt(key[r]) \in Request
    <3>1. key[r] \in Digest /\ EntryAt(key[r]) = tree[key[r]] /\ tree[key[r]] \in Request
      BY <2>2, EntryAssumption DEF EntryAt
    <3>2. /\ pc[tree[key[r]]] = "done"
          /\ synced[tree[key[r]]]
          /\ Sha256[data[tree[key[r]]]] = key[r]
      <4>1. PublishedInv(key[r])
        BY <3>1 DEF IInv
      <4> QED
        BY <3>1, <4>1 DEF PublishedInv
    <3>a. tree[key[r]] # r
      BY <2>1, <3>2
    <3>b. data[tree[key[r]]] \in Content
      BY <1>t, <2>2, <3>1
    <3>3. Len(data[tree[key[r]]]) \in Nat
      BY <3>b, ContentIsSeq
    <3>4. /\ seen'[r] = tree[key[r]]
          /\ pc' = [pc EXCEPT ![r] = "stream"]
          /\ UNCHANGED <<fsVars, op, key, hashed, sent, size, outcome>>
      BY <1>t, <1>21, <2>2, <3>1 DEF OpenBlob
    <3> QED
      BY <1>t, <2>1, <2>2, <3>1, <3>2, <3>a, <3>3, <3>4, ContentEmpty
  <2>3. CASE EntryAt(key[r]) \notin Request
    BY <1>t, <1>21, <2>1, <2>3, ZenonT(90) DEF OpenBlob
  <2> QED
    BY <2>2, <2>3
<1>22. CASE ReadChunk(r)
  <2>1. /\ pc[r] = "stream" /\ seen[r] \in Request /\ pc[seen[r]] = "done" /\ synced[seen[r]]
        /\ Sha256[data[seen[r]]] = key[r] /\ outcome[r] \notin {"stored", "streamed"}
        /\ Len(sent[r]) <= Len(data[seen[r]])
        /\ \A i \in 1..Len(sent[r]) : sent[r][i] = data[seen[r]][i]
    BY <1>t, <1>22 DEF ReadChunk
  <2>2. /\ sent[r] \in Seq(Chunk) /\ Len(sent[r]) \in Nat
        /\ data[seen[r]] \in Seq(Chunk) /\ Len(data[seen[r]]) \in Nat
        /\ data[seen[r]] \in Content
    <3>1. sent[r] \in Content /\ data[seen[r]] \in Content
      BY <1>t, <2>1
    <3> QED
      BY <3>1, ContentIsSeq
  <2>3. CASE Len(sent[r]) < Len(data[seen[r]])
    <3> DEFINE c == data[seen[r]][Len(sent[r]) + 1]
    <3>1. /\ sent'[r] = Append(sent[r], c)
          /\ UNCHANGED <<pc, outcome, fsVars, op, key, hashed, seen, size>>
      BY <1>t, <1>22, <2>2, <2>3 DEF ReadChunk, Handle
    <3>2. c \in Chunk
      BY <2>2, <2>3, ElementOfSeq
    <3>3. /\ Len(sent'[r]) = Len(sent[r]) + 1
          /\ \A i \in 1..Len(sent[r]) : sent'[r][i] = sent[r][i]
          /\ sent'[r][Len(sent[r]) + 1] = c
      BY <2>2, <3>1, <3>2, AppendProperties
    <3>4. Len(sent'[r]) <= Len(data[seen[r]])
      BY <2>2, <2>3, <3>3
    <3>5. \A i \in 1..Len(sent'[r]) : sent'[r][i] = data[seen[r]][i]
      BY <2>1, <2>2, <3>3, SMTT(60)
    <3>6. Yielded(r, data[seen[r]])'
      BY <2>1, <3>1, <3>4, <3>5
    <3> QED
      BY <1>t, <2>1, <2>2, <3>1, <3>6
  <2>4. CASE ~(Len(sent[r]) < Len(data[seen[r]]))
    <3>1. Len(sent[r]) = Len(data[seen[r]])
      BY <2>1, <2>2, <2>4
    <3>2. sent[r] = data[seen[r]]
      BY <2>1, <2>2, <3>1, SeqEqual
    <3>3. /\ pc'[r] = "done" /\ outcome'[r] = "streamed"
          /\ UNCHANGED <<sent, fsVars, op, key, hashed, seen, size>>
      BY <1>t, <1>22, <2>2, <2>4 DEF ReadChunk, Handle
    <3>4. Yielded(r, data[seen[r]])'
      BY <2>1, <2>2, <3>2, <3>3
    <3> QED
      BY <1>t, <2>1, <2>2, <3>3, <3>4
  <2> QED
    BY <2>3, <2>4
<1>23. ASSUME NEW o \in Op, NEW k, pc[r] = "idle", Begin(r, o, k) PROVE OwnInv(r)'
  <2>1. pc'[r] \in {"tmpdir", "open", "exists", "size", "unlink"} /\ outcome'[r] = "none"
    BY <1>t, <1>23 DEF Begin, Op, FirstStep
  <2>2. data'[r] = <<>> /\ hashed'[r] = <<>> /\ sent'[r] = <<>>
    BY <1>t, <1>23 DEF Begin
  <2> QED
    BY <2>1, <2>2
<1> QED
  BY <1>1, <1>2, <1>3, <1>4, <1>5, <1>6, <1>7, <1>8, <1>9, <1>10, <1>11, <1>12, <1>13,
     <1>14, <1>15, <1>16, <1>17, <1>18, <1>19, <1>20, <1>21, <1>22, <1>23
     DEF RequestStep, CallPut, CallWithKey, Syscall, CallerStep, Interference, Op

\* A step of one call preserves the whole invariant.
LEMMA RequestStepIInv ==
    ASSUME IInv, NEW r \in Request, RequestStep(r), TypeOK'
    PROVE  IInv'
<1>t. TypeOK
  BY DEF IInv
<1>1. pc[r] \notin Finished /\ \A q \in Request \ {r} : Same(q)
  BY <1>t, LocalStep
<1>2. ASSUME NEW f \in Request, pc[f] = "done" PROVE Same(f)
  BY <1>1, <1>2 DEF Finished
<1>3. OwnInv(r)'
  BY OwnStep
<1>4. ASSUME NEW q \in Request \ {r} PROVE OwnInv(q)'
  <2>1. OwnInv(q) /\ Same(q)
    BY <1>1 DEF IInv, OwnInv
  <2>2. (SpoolInv(q) /\ TargetInv(q) /\ ReportInv(q))'
    BY <2>1 DEF OwnInv, Same, SpoolInv, TargetInv, ReportInv
  <2>3. DuplicateInv(q)'
    BY <1>2, <2>1 DEF OwnInv, Same, DuplicateInv
  <2>4. StreamInv(q)'
    <3>1. \A c : Yielded(q, c) <=> Yielded(q, c)'
      BY <2>1 DEF Same, Yielded
    <3>2. pc[q] = "stream" => Same(seen[q]) /\ seen'[q] = seen[q]
      BY <1>2, <2>1 DEF OwnInv, Same, StreamInv
    <3> QED
      BY <2>1, <3>1, <3>2 DEF OwnInv, Same, StreamInv
  <2> QED
    BY <2>2, <2>3, <2>4 DEF OwnInv
<1>5. ASSUME NEW d \in Digest PROVE PublishedInv(d)'
  <2> SUFFICES ASSUME NEW f \in {tree'[d], disk'[d]} \cap Request
               PROVE  /\ pc'[f] = "done" /\ synced'[f] /\ Sha256[data'[f]] = d
                      /\ outcome'[f] \in {"stored", "Cancelled"}
    BY DEF PublishedInv
  <2>1. CASE f \in {tree[d], disk[d]}
    <3>1. /\ pc[f] = "done" /\ synced[f] /\ Sha256[data[f]] = d
          /\ outcome[f] \in {"stored", "Cancelled"}
      BY <2>1 DEF IInv, PublishedInv
    <3> QED
      BY <1>2, <3>1 DEF Same
  <2>2. CASE f \notin {tree[d], disk[d]}
    <3>1. /\ f = r /\ pc[r] \in {"rename", "orphan_rename"} /\ key[r] = d
          /\ pc'[r] = "done" /\ outcome'[r] \in {"stored", "Cancelled"}
          /\ data'[r] = data[r] /\ synced'[r] = synced[r]
      <4>1. f # "absent" /\ f \in {tree'[d], disk'[d]}
        BY EntryAssumption
      <4>2. disk'[d] = disk[d]
        BY TreeStep
      <4>3. f = tree'[d] /\ f # tree[d]
        BY <2>2, <4>1, <4>2
      <4> QED
        BY <4>1, <4>3, TreeStep, ZenonT(60)
    <3>2. synced[r] /\ Sha256[data[r]] = d
      BY <3>1 DEF IInv, TargetInv
    <3> QED
      BY <3>1, <3>2
  <2> QED
    BY <2>1, <2>2
<1> QED
  BY <1>3, <1>4, <1>5 DEF IInv, OwnInv

\* After a crash every call is over or has not begun.
LEMMA DieOwnInv ==
    ASSUME IInv, Die, UNCHANGED <<synced, op, key, hashed, seen, sent, size>>,
           NEW r \in Request,
           pc[r] = "idle" => data'[r] = data[r]
    PROVE  OwnInv(r)'
<1>t. TypeOK /\ OwnInv(r)
  BY DEF IInv, OwnInv
<1>1. /\ pc'[r] \in {"idle", "done", "dead"}
      /\ pc'[r] = "idle" => pc[r] = "idle"
      /\ outcome'[r] \in {"none", outcome[r]}
      /\ outcome'[r] = outcome[r] \/ pc'[r] = "dead"
      /\ pc[r] = "done" => pc'[r] = "done"
  BY <1>t DEF Die, InFlight, Orphan, Finished, TypeOK, Spooling, Mutating, Harmless
<1>2. (SpoolInv(r) /\ TargetInv(r) /\ DuplicateInv(r) /\ ReportInv(r))'
  BY <1>t, <1>1 DEF OwnInv, SpoolInv, TargetInv, DuplicateInv, ReportInv
<1>3. StreamInv(r)'
  <2>1. \A c : Yielded(r, c) => Yielded(r, c)'
    BY <1>1 DEF Yielded
  <2> QED
    BY <1>t, <1>1, <2>1 DEF OwnInv, StreamInv
<1> QED
  BY <1>2, <1>3 DEF OwnInv

\* What a crash leaves of a finished call.
LEMMA DieDone ==
    ASSUME Die, NEW f \in Request, pc[f] = "done"
    PROVE  pc'[f] = "done" /\ outcome'[f] = outcome[f]
BY DEF Die, InFlight, Finished, Orphan

\* Every step of the specification preserves the inductive invariant.
LEMMA StepIInv == IInv /\ [Next]_vars => IInv'
<1> SUFFICES ASSUME IInv, [Next]_vars PROVE IInv'
  OBVIOUS
<1>t. TypeOK /\ TypeOK'
  BY TypeStep DEF IInv
<1>1. ASSUME NEW r \in Request, RequestStep(r) PROVE IInv'
  BY <1>t, <1>1, RequestStepIInv
<1>2. ASSUME UNCHANGED <<data, synced, callVars>>,
             \A d \in Digest : {tree'[d], disk'[d]} \cap Request \subseteq {tree[d], disk[d]}
      PROVE  IInv'
  <2>1. ASSUME NEW r \in Request PROVE OwnInv(r)'
    BY <1>2, ZenonT(90) DEF IInv, OwnInv, callVars, SpoolInv, TargetInv, DuplicateInv, ReportInv,
                StreamInv, Yielded
  <2>2. ASSUME NEW d \in Digest PROVE PublishedInv(d)'
    BY <1>2 DEF IInv, PublishedInv, callVars
  <2> QED
    BY <1>t, <2>1, <2>2 DEF IInv, OwnInv
<1>3. ASSUME NEW d \in Digest, NEW e \in Foreign, Plant(d, e) PROVE IInv'
  <2>1. \A d2 \in Digest : {tree'[d2], disk'[d2]} \cap Request \subseteq {tree[d2], disk[d2]}
    BY <1>t, <1>3, EntryAssumption DEF Plant, TypeOK
  <2> QED
    BY <1>2, <1>3, <2>1 DEF Plant
<1>4. ASSUME NEW d \in Digest, Writeback(d) PROVE IInv'
  <2>1. \A d2 \in Digest : {tree'[d2], disk'[d2]} \cap Request \subseteq {tree[d2], disk[d2]}
    BY <1>t, <1>4 DEF Writeback, TypeOK
  <2> QED
    BY <1>2, <1>4, <2>1 DEF Writeback
<1>5. CASE Kill
  <2>1. ASSUME NEW r \in Request PROVE OwnInv(r)'
    BY <1>5, DieOwnInv DEF Kill, fsVars
  <2>2. ASSUME NEW d \in Digest PROVE PublishedInv(d)'
    BY <1>5, DieDone DEF Kill, fsVars, IInv, PublishedInv
  <2> QED
    BY <1>t, <2>1, <2>2 DEF IInv, OwnInv
<1>6. CASE PowerLoss
  <2>1. PICK kept \in 0..MaxChunks :
           data' = [r \in Request |-> IF synced[r] \/ Len(data[r]) <= kept
                                      THEN data[r] ELSE SubSeq(data[r], 1, kept)]
    BY <1>6 DEF PowerLoss
  <2>2. ASSUME NEW r \in Request, pc[r] = "idle" PROVE data'[r] = data[r]
    <3>1. data[r] = <<>>
      BY <2>2 DEF IInv, SpoolInv
    <3>2. Len(data[r]) <= kept
      BY <3>1, ContentEmpty
    <3> QED
      BY <2>1, <3>2
  <2>3. ASSUME NEW r \in Request PROVE OwnInv(r)'
    BY <1>6, <2>2, DieOwnInv DEF PowerLoss
  <2>4. ASSUME NEW d \in Digest PROVE PublishedInv(d)'
    BY <1>6, <2>1, DieDone DEF PowerLoss, IInv, PublishedInv
  <2> QED
    BY <1>t, <2>3, <2>4 DEF IInv, OwnInv
<1>7. CASE UNCHANGED vars
  BY <1>2, <1>7 DEF vars, fsVars
<1> QED
  BY <1>1, <1>3, <1>4, <1>5, <1>6, <1>7 DEF Next, RequestStep, Environment, Quiescent

\* The inductive invariant implies the properties the model checker checks.
LEMMA IInvImplies ==
    ASSUME IInv
    PROVE  /\ TypeOK /\ ContentAddressed /\ StreamFaithful
           /\ PutReportsWhatItConsumed /\ FailedPutPublishesNothing
<1>t. TypeOK
  BY DEF IInv
<1>1. ContentAddressed
  BY DEF IInv, PublishedInv, ContentAddressed
<1>2. PutReportsWhatItConsumed
  BY DEF IInv, ReportInv, PutReportsWhatItConsumed
<1>3. FailedPutPublishesNothing
  BY DEF IInv, PublishedInv, FailedPutPublishesNothing
<1>4. StreamFaithful
  <2> SUFFICES ASSUME NEW r \in Request,
                      pc[r] = "stream" \/ sent[r] # <<>> \/ outcome[r] = "streamed"
               PROVE  \E c \in Content : /\ Sha256[c] = key[r]
                                         /\ IsPrefix(sent[r], c)
                                         /\ outcome[r] = "streamed" => sent[r] = c
    BY DEF StreamFaithful
  <2>1. PICK c \in Content : Yielded(r, c)
    <3>1. CASE pc[r] = "stream"
      BY <1>t, <3>1 DEF IInv, StreamInv, TypeOK
    <3>2. CASE pc[r] # "stream"
      BY <3>2 DEF IInv, StreamInv
    <3> QED
      BY <3>1, <3>2
  <2>2. /\ sent[r] \in Seq(Chunk) /\ Len(sent[r]) \in Nat
        /\ c \in Seq(Chunk) /\ Len(c) \in Nat
    <3>1. sent[r] \in Content
      BY <1>t DEF TypeOK
    <3> QED
      BY <3>1, ContentIsSeq
  <2>3. IsPrefix(sent[r], c)
    <3>1. \A i \in 1..Len(sent[r]) : sent[r][i] \in Chunk /\ c[i] \in Chunk
      BY <2>1, <2>2, ElementOfSeq DEF Yielded
    <3>2. SubSeq(sent[r], 1, Len(sent[r])) = SubSeq(c, 1, Len(sent[r]))
      <4> DEFINE s == SubSeq(sent[r], 1, Len(sent[r]))
                 u == SubSeq(c, 1, Len(sent[r]))
      <4>1. /\ s \in Seq(Chunk)
            /\ Len(s) = IF 1 <= Len(sent[r]) THEN Len(sent[r]) - 1 + 1 ELSE 0
            /\ \A i \in 1..Len(sent[r]) - 1 + 1 : s[i] = sent[r][1 + i - 1]
        BY <2>2, <3>1, SubSeqProperties
      <4>2. /\ u \in Seq(Chunk)
            /\ Len(u) = IF 1 <= Len(sent[r]) THEN Len(sent[r]) - 1 + 1 ELSE 0
            /\ \A i \in 1..Len(sent[r]) - 1 + 1 : u[i] = c[1 + i - 1]
        BY <2>2, <3>1, SubSeqProperties
      <4> HIDE DEF s, u
      <4>3. Len(s) = Len(u) /\ \A i \in 1..Len(s) : s[i] = u[i]
        BY <2>1, <2>2, <4>1, <4>2 DEF Yielded
      <4>4. s = u
        BY <4>1, <4>2, <4>3, SeqEqual
      <4> QED
        BY <4>4 DEF s, u
    <3> QED
      BY <2>1, <2>2, <3>2 DEF IsPrefix, Yielded
  <2> QED
    BY <2>1, <2>3 DEF Yielded
<1> QED
  BY <1>t, <1>1, <1>2, <1>3, <1>4

-----------------------------------------------------------------------------
\* The adapter's variables keep their types under every interleaving and hazard.
THEOREM Typing == Spec => []TypeOK
BY InitIInv, StepIInv, IInvImplies, PTL DEF Spec

\* What is at a content-addressed path, now or after a power loss, hashes to
\* the digest of the path (put: fsync before rename, no writer afterwards).
THEOREM ContentAddressing == Spec => []ContentAddressed
BY InitIInv, StepIInv, IInvImplies, PTL DEF Spec

\* get() yields a prefix of the content of its key, and all of it when it ends.
THEOREM FaithfulStreams == Spec => []StreamFaithful
BY InitIInv, StepIInv, IInvImplies, PTL DEF Spec

\* put() reports the key and the size of the stream it consumed.
THEOREM HonestReports == Spec => []PutReportsWhatItConsumed
BY InitIInv, StepIInv, IInvImplies, PTL DEF Spec

\* put() that raises has published nothing and will not (rename comes last).
THEOREM NoEffectOfFailedPut == Spec => []FailedPutPublishesNothing
BY InitIInv, StepIInv, IInvImplies, PTL DEF Spec

-----------------------------------------------------------------------------
(* What the adapter leaves behind: scratch files, blobs that were stored and *)
(* files that were deleted.  A power loss may undo a rename or an unlink     *)
(* that was answered already, so these theorems assume there is none; every  *)
(* other hazard is included.                                                 *)

NoPowerLoss == "power" \notin Hazards

\* The awaits of put(): before its key is known, and after.
Unnamed  == {"tmpdir", "mkstemp", "cleanup", "orphan_mkstemp"} \cup Spooling
Named    == {"lstat", "shard", "stat", "rename", "discard", "orphan_rename"}
PutSteps == Unnamed \cup Named \cup {"orphan_discard"}
Deleting == {"unlink", "orphan_unlink"}

\* How far a call has come says which method it runs, whether its key is known, whether a
\* lookup of it has found something, and whether it has an outcome.
CallInv(r) ==
    /\ pc[r] = "idle" <=> op[r] = "none"
    /\ pc[r] \in PutSteps => op[r] = "put"
    /\ pc[r] \in {"open", "stream"} => op[r] = "get"
    /\ pc[r] \in {"exists", "size"} => op[r] = pc[r]
    /\ pc[r] \in Deleting => op[r] = "delete"
    /\ pc[r] = "idle" \/ pc[r] \in Unnamed => key[r] = NoKey
    /\ op[r] \notin {"put", "none"} => key[r] \in Key
    /\ pc[r] \in {"idle"} \cup Unnamed \cup Deleting \cup (Named \ {"discard"})
         => seen[r] = "absent"
    /\ pc[r] \in Orphan => outcome[r] = "Cancelled"
    /\ pc[r] = "cleanup" => outcome[r] \in {"OSError", "SourceError", "Cancelled"}
    /\ pc[r] \notin Orphan \cup {"cleanup", "done"} => outcome[r] = "none"
    /\ outcome[r] = "deleted" => seen[r] # "absent"

\* A scratch file belongs to a put() that has made it and not yet given it up.
ScratchInv(r) ==
    r \in scratch =>
        /\ pc[r] \in {"dead", "done", "cleanup", "orphan_discard"} \cup Spooling \cup Named
        /\ pc[r] = "done" => outcome[r] \in {"StorageException", "OSError", "Cancelled"}

\* What a delete() has removed is gone for good, and it alone removed it.
VictimInv(r) ==
    op[r] = "delete" /\ seen[r] \in Request =>
        /\ pc[seen[r]] = "done"
        /\ \A d \in Digest : tree[d] # seen[r]
        /\ \A q \in Request \ {r} : op[q] = "delete" => seen[q] # seen[r]

\* The file at a path is the one the last rename put there; when that one is gone, a
\* delete() has removed it.
LatestInv(d) ==
    /\ tree[d] \in Request => latest[d] = tree[d]
    /\ latest[d] \in Request => \/ tree[d] = latest[d]
                                \/ \E q \in Request : op[q] = "delete" /\ seen[q] = latest[d]

\* What a put() has found stored, or has stored, some rename has published.
Settled(r) == pc[r] = "discard" \/ outcome[r] = "stored"

ConservedInv(r) == Settled(r) => key[r] \in Digest /\ latest[key[r]] \in Request

CallsInv   == IInv /\ \A r \in Request : CallInv(r)
HistoryInv ==
    /\ \A r \in Request : ScratchInv(r) /\ VictimInv(r) /\ ConservedInv(r)
    /\ \A d \in Digest : LatestInv(d)

-----------------------------------------------------------------------------
(* The calls, under every hazard *)

\* A call leaves the method and the outcome of every other call alone.
LEMMA OpLocal ==
    ASSUME TypeOK, NEW r \in Request, RequestStep(r)
    PROVE  \A q \in Request \ {r} : op'[q] = op[q]
<1>1. ASSUME NEW o, NEW k, Begin(r, o, k) PROVE \A q \in Request \ {r} : op'[q] = op[q]
  BY <1>1 DEF Begin, TypeOK
<1>2. CASE Syscall(r)
  BY <1>2 DEF Syscall, MakeTmpDirectory, Mkstemp, WriteChunk, Fsync, Cleanup, LstatTarget,
     MakeShardDirectory, LstatScratch, Rename, DiscardDuplicate, OpenBlob, ExistsBlob, SizeBlob,
     UnlinkBlob
<1>3. CASE CallerStep(r) \/ Interference(r)
  BY <1>3 DEF CallerStep, HashChunk, SourceEnds, SourceFails, ReadChunk, Interference, Fault,
     Cancel, OrphanRun, OrphanDrop
<1> QED
  BY <1>1, <1>2, <1>3 DEF RequestStep, CallPut, CallWithKey

\* A call's own step keeps what its progress says of it.
LEMMA OwnCall ==
    ASSUME CallsInv, NEW r \in Request, RequestStep(r)
    PROVE  CallInv(r)'
<1>t. TypeOK /\ CallInv(r) /\ TargetInv(r)
  BY DEF CallsInv, IInv
<1> USE DEF TypeOK, Goto, Return, fsVars, CallInv, PutSteps, Unnamed, Named, Deleting, Spooling,
            Orphan
<1>1. CASE MakeTmpDirectory(r)
  BY <1>t, <1>1 DEF MakeTmpDirectory
<1>2. CASE Mkstemp(r)
  BY <1>t, <1>2 DEF Mkstemp
<1>3. CASE HashChunk(r)
  BY <1>t, <1>3 DEF HashChunk
<1>4. CASE WriteChunk(r)
  BY <1>t, <1>4 DEF WriteChunk
<1>5. CASE SourceEnds(r)
  BY <1>t, <1>5 DEF SourceEnds
<1>6. CASE SourceFails(r)
  BY <1>t, <1>6 DEF SourceFails, RaiseInSpool
<1>7. CASE Fsync(r)
  BY <1>t, <1>7 DEF Fsync
<1>8. CASE Cleanup(r)
  BY <1>t, <1>8 DEF Cleanup
<1>9. CASE LstatTarget(r)
  BY <1>t, <1>9 DEF LstatTarget
<1>10. CASE MakeShardDirectory(r)
  BY <1>t, <1>10 DEF MakeShardDirectory
<1>11. CASE LstatScratch(r)
  BY <1>t, <1>11 DEF LstatScratch
<1>12. CASE Rename(r)
  BY <1>t, <1>12 DEF Rename
<1>13. CASE DiscardDuplicate(r)
  BY <1>t, <1>13 DEF DiscardDuplicate
<1>14. CASE OpenBlob(r)
  BY <1>t, <1>14 DEF OpenBlob
<1>15. CASE ReadChunk(r)
  BY <1>t, <1>15 DEF ReadChunk
<1>16. CASE ExistsBlob(r)
  BY <1>t, <1>16 DEF ExistsBlob
<1>17. CASE SizeBlob(r)
  BY <1>t, <1>17 DEF SizeBlob
<1>18. CASE UnlinkBlob(r)
  BY <1>t, <1>18 DEF UnlinkBlob, UnlinkEntry, UnlinkError, EntryAt
<1>19. CASE Fault(r)
  BY <1>t, <1>19 DEF Fault, RaiseInSpool, Mutating, Harmless
<1>20. CASE Cancel(r)
  BY <1>t, <1>20 DEF Cancel, RaiseInSpool, OrphanOf, Mutating, Harmless
<1>21. CASE OrphanRun(r)
  BY <1>t, <1>21 DEF OrphanRun, UnlinkEntry
<1>22. CASE OrphanDrop(r)
  BY <1>t, <1>22 DEF OrphanDrop
<1>23. ASSUME NEW o \in Op, NEW k \in Key \cup {NoKey}, o # "put" => k \in Key,
              o = "put" => k = NoKey, pc[r] = "idle", Begin(r, o, k)
       PROVE  CallInv(r)'
  BY <1>t, <1>23 DEF Begin, Op, FirstStep
<1>24. CASE CallPut(r)
  BY <1>23, <1>24 DEF CallPut, Op
<1>25. ASSUME NEW o \in Op, NEW k \in Key, CallWithKey(r, o, k) PROVE CallInv(r)'
  BY <1>23, <1>25 DEF CallWithKey
<1> QED
  BY <1>1, <1>2, <1>3, <1>4, <1>5, <1>6, <1>7, <1>8, <1>9, <1>10, <1>11, <1>12, <1>13,
     <1>14, <1>15, <1>16, <1>17, <1>18, <1>19, <1>20, <1>21, <1>22, <1>24, <1>25
     DEF RequestStep, Syscall, CallerStep, Interference

\* It holds initially, ...
LEMMA InitCalls == Init => CallsInv
<1> SUFFICES ASSUME Init PROVE CallsInv
  OBVIOUS
<1>1. IInv
  BY InitIInv
<1>2. ASSUME NEW r \in Request PROVE CallInv(r)
  BY DEF Init, CallInv, PutSteps, Unnamed, Named, Deleting, Spooling, Orphan
<1> QED
  BY <1>1, <1>2 DEF CallsInv

\* ... and a step of any kind keeps it.
LEMMA StepCalls == CallsInv /\ [Next]_vars => CallsInv'
<1> SUFFICES ASSUME CallsInv, [Next]_vars PROVE CallsInv'
  OBVIOUS
<1>t. TypeOK /\ \A r \in Request : CallInv(r)
  BY DEF CallsInv, IInv
<1>i. IInv'
  BY StepIInv DEF CallsInv
<1>1. ASSUME NEW r \in Request, RequestStep(r) PROVE CallsInv'
  <2>1. CallInv(r)'
    BY <1>1, OwnCall
  <2>2. ASSUME NEW q \in Request \ {r} PROVE CallInv(q)'
    <3>1. Same(q) /\ op'[q] = op[q]
      BY <1>t, <1>1, LocalStep, OpLocal
    <3>2. CallInv(q)
      BY <1>t
    <3> QED
      BY <3>1, <3>2 DEF Same, CallInv
  <2> QED
    BY <1>i, <2>1, <2>2 DEF CallsInv
<1>2. ASSUME UNCHANGED callVars PROVE CallsInv'
  <2>1. ASSUME NEW q \in Request PROVE CallInv(q)'
    BY <1>t, <1>2 DEF callVars, CallInv
  <2> QED
    BY <1>i, <2>1 DEF CallsInv
<1>3. ASSUME Die, UNCHANGED <<op, key, seen>> PROVE CallsInv'
  <2>1. ASSUME NEW q \in Request PROVE CallInv(q)'
    <3>1. /\ pc'[q] \in {"idle", "done", "dead"}
          /\ pc'[q] = "idle" <=> pc[q] = "idle"
          /\ outcome'[q] \in {"none", outcome[q]}
          /\ pc'[q] # "done" => outcome'[q] = "none"
      BY <1>t, <1>3 DEF Die, InFlight, CallInv, Orphan, Finished, TypeOK, Spooling, Mutating,
         Harmless
    <3>2. CallInv(q) /\ UNCHANGED <<op, key, seen>>
      BY <1>t, <1>3
    <3> QED
      BY <3>1, <3>2 DEF CallInv, PutSteps, Unnamed, Named, Deleting, Spooling, Orphan
  <2> QED
    BY <1>i, <2>1 DEF CallsInv
<1>4. CASE Kill \/ PowerLoss
  BY <1>3, <1>4 DEF Kill, PowerLoss
<1>5. ASSUME NEW d \in Digest, NEW e \in Foreign, Plant(d, e) PROVE CallsInv'
  BY <1>2, <1>5 DEF Plant
<1>6. ASSUME NEW d \in Digest, Writeback(d) PROVE CallsInv'
  BY <1>2, <1>6 DEF Writeback
<1>7. CASE UNCHANGED vars
  BY <1>2, <1>7 DEF vars
<1> QED
  BY <1>1, <1>4, <1>5, <1>6, <1>7 DEF Next, RequestStep, Environment, Quiescent

-----------------------------------------------------------------------------
(* What one step of a call does to the names *)

\* It touches no name, or its rename takes effect, or its unlink does.
Silent(r) ==
    /\ tree' = tree /\ latest' = latest
    /\ op'[r] = "delete" => seen'[r] = "absent"
    /\ Settled(r)' => /\ key'[r] = key[r]
                      /\ pc[r] = "discard" \/ (key[r] \in Digest /\ tree[key[r]] \in Request)

Publishes(r) ==
    /\ key[r] \in Digest /\ tree' = [tree EXCEPT ![key[r]] = r]
    /\ latest' = [latest EXCEPT ![key[r]] = r]
    /\ op'[r] = "put" /\ key'[r] = key[r]

Removes(r) ==
    /\ key[r] \in Digest /\ tree' = [tree EXCEPT ![key[r]] = "absent"]
    /\ latest' = latest
    /\ tree[key[r]] # "absent"
    /\ op'[r] = "delete" /\ seen'[r] = tree[key[r]]
    /\ ~Settled(r)'

\* Every step of a call is one of the three.
LEMMA NameStep ==
    ASSUME CallsInv, NEW r \in Request, RequestStep(r)
    PROVE  Silent(r) \/ Publishes(r) \/ Removes(r)
<1>t. TypeOK /\ CallInv(r) /\ TargetInv(r) /\ DuplicateInv(r)
  BY DEF CallsInv, IInv
<1>n. pc[r] # "done" /\ outcome[r] \notin {"stored"}
  BY <1>t, LocalStep DEF CallInv, Finished, Orphan
<1> USE DEF TypeOK, Goto, Return, fsVars, Settled
<1>1. CASE Rename(r)
  <2>1. key[r] \in Digest /\ op[r] = "put"
    BY <1>t, <1>1, HashAssumption DEF Rename, TargetInv, CallInv, PutSteps, Named
  <2>2. CASE Publish(r) /\ Return(r, "stored")
    BY <1>t, <1>1, <2>1, <2>2 DEF Rename, Publish, Publishes
  <2>3. CASE UNCHANGED fsVars /\ Return(r, "OSError")
    BY <1>t, <1>1, <2>1, <2>3 DEF Rename, Silent
  <2> QED
    BY <1>1, <2>2, <2>3 DEF Rename
<1>2. CASE UnlinkBlob(r)
  <2>1. op[r] = "delete" /\ seen[r] = "absent"
    BY <1>t, <1>2 DEF UnlinkBlob, CallInv, Deleting
  <2>2. CASE UnlinkEntry(r) /\ Return(r, "deleted")
    BY <1>t, <1>2, <2>1, <2>2 DEF UnlinkBlob, UnlinkEntry, EntryAt, Removes
  <2>3. CASE UNCHANGED <<fsVars, seen>> /\ Return(r, UnlinkError(EntryAt(key[r])))
    BY <1>t, <1>2, <2>1, <2>3 DEF UnlinkBlob, UnlinkError, Silent
  <2> QED
    BY <1>2, <2>2, <2>3 DEF UnlinkBlob
<1>3. CASE OrphanRun(r)
  <2>1. outcome'[r] = "Cancelled" /\ pc'[r] = "done" /\ UNCHANGED <<op, key>>
    BY <1>t, <1>3 DEF OrphanRun, CallInv, Orphan
  <2>2. CASE pc[r] = "orphan_rename"
    <3>1. key[r] \in Digest /\ op[r] = "put"
      BY <1>t, <2>2, HashAssumption DEF TargetInv, CallInv, PutSteps, Named
    <3> QED
      BY <1>t, <1>3, <2>1, <2>2, <3>1 DEF OrphanRun, Publish, Publishes
  <2>3. CASE pc[r] = "orphan_unlink"
    <3>1. op[r] = "delete"
      BY <1>t, <2>3 DEF CallInv, Deleting
    <3> QED
      BY <1>t, <1>3, <2>1, <2>3, <3>1 DEF OrphanRun, UnlinkEntry, EntryAt, Removes
  <2>4. CASE pc[r] \in {"orphan_mkstemp", "orphan_discard"}
    <3>1. op[r] = "put"
      BY <1>t, <2>4 DEF CallInv, PutSteps, Unnamed
    <3> QED
      BY <1>t, <1>3, <2>1, <2>4, <3>1 DEF OrphanRun, Silent
  <2> QED
    BY <1>3, <2>2, <2>3, <2>4 DEF OrphanRun
<1>4. CASE DiscardDuplicate(r)
  <2>1. op[r] = "put"
    BY <1>t, <1>4 DEF DiscardDuplicate, CallInv, PutSteps, Named
  <2> QED
    BY <1>t, <1>4, <2>1 DEF DiscardDuplicate, Silent
<1>5. CASE LstatTarget(r) \/ OpenBlob(r)
  <2>1. op[r] \in {"put", "get"} /\ UNCHANGED <<tree, latest, op, key>>
    BY <1>t, <1>5 DEF LstatTarget, OpenBlob, CallInv, PutSteps, Named
  <2>2. outcome'[r] # "stored"
    BY <1>t, <1>n, <1>5 DEF LstatTarget, OpenBlob
  <2>3. pc'[r] = "discard" => key[r] \in Digest /\ tree[key[r]] \in Request
    BY <1>t, <1>5, HashAssumption DEF LstatTarget, OpenBlob, TargetInv
  <2> QED
    BY <2>1, <2>2, <2>3 DEF Silent
<1>6. ASSUME UNCHANGED <<tree, latest, op, seen>>, op[r] = "delete" => pc[r] \in Deleting,
             ~Settled(r)'
      PROVE  Silent(r)
  BY <1>t, <1>6 DEF Silent, CallInv
<1>7. ASSUME NEW o \in Op, NEW k, pc[r] = "idle", Begin(r, o, k) PROVE Silent(r)
  <2>1. seen[r] = "absent" /\ UNCHANGED <<tree, latest, seen>> /\ outcome'[r] = "none"
    BY <1>t, <1>7 DEF Begin, CallInv
  <2>2. pc'[r] # "discard"
    BY <1>t, <1>7 DEF Begin, FirstStep, Op
  <2> QED
    BY <2>1, <2>2 DEF Silent
<1>8. CASE Fault(r) \/ Cancel(r) \/ OrphanDrop(r)
  <2>1. op[r] = "delete" => pc[r] \in Deleting
    BY <1>t, <1>n, <1>8 DEF Fault, Cancel, OrphanDrop, CallInv, PutSteps, Unnamed, Named,
       Deleting, Spooling, Mutating, Harmless, Orphan
  <2>2. UNCHANGED <<tree, latest, op, seen>> /\ ~Settled(r)'
    BY <1>t, <1>n, <1>8 DEF Fault, Cancel, OrphanDrop, RaiseInSpool, OrphanOf, Mutating
  <2> QED
    BY <1>6, <2>1, <2>2
<1>9. CASE CallerStep(r)
  <2>1. op[r] \in {"put", "get"}
    BY <1>t, <1>9 DEF CallerStep, HashChunk, SourceEnds, SourceFails, ReadChunk, CallInv,
       PutSteps, Unnamed, Spooling
  <2>2. UNCHANGED <<tree, latest, op, seen>> /\ ~Settled(r)'
    BY <1>t, <1>n, <1>9 DEF CallerStep, HashChunk, SourceEnds, SourceFails, ReadChunk,
       RaiseInSpool
  <2> QED
    BY <1>6, <2>1, <2>2
<1>10. CASE MakeTmpDirectory(r) \/ Mkstemp(r) \/ WriteChunk(r) \/ Fsync(r) \/ Cleanup(r)
            \/ MakeShardDirectory(r) \/ LstatScratch(r) \/ ExistsBlob(r) \/ SizeBlob(r)
  <2>1. op[r] # "delete"
    BY <1>t, <1>10 DEF MakeTmpDirectory, Mkstemp, WriteChunk, Fsync, Cleanup,
       MakeShardDirectory, LstatScratch, ExistsBlob, SizeBlob, CallInv, PutSteps, Unnamed,
       Named, Spooling
  <2>2. UNCHANGED <<tree, latest, op, seen>> /\ ~Settled(r)'
    BY <1>t, <1>n, <1>10 DEF MakeTmpDirectory, Mkstemp, WriteChunk, Fsync, Cleanup,
       MakeShardDirectory, LstatScratch, ExistsBlob, SizeBlob
  <2> QED
    BY <1>6, <2>1, <2>2
<1> QED
  BY <1>1, <1>2, <1>3, <1>4, <1>5, <1>7, <1>8, <1>9, <1>10
     DEF RequestStep, CallPut, CallWithKey, Syscall, Interference, Op

\* A call makes and removes its own scratch file only, and keeps its part of the invariant.
LEMMA ScratchStep ==
    ASSUME CallsInv, NEW r \in Request, ScratchInv(r), RequestStep(r)
    PROVE  /\ \A q \in Request \ {r} : q \in scratch' => q \in scratch
           /\ ScratchInv(r)'
<1>t. TypeOK /\ CallInv(r)
  BY DEF CallsInv, IInv
<1> USE DEF TypeOK, Goto, Return, fsVars, ScratchInv, Named, Spooling
<1>1. CASE MakeTmpDirectory(r) \/ Mkstemp(r) \/ Cleanup(r) \/ MakeShardDirectory(r)
           \/ LstatScratch(r)
  BY <1>t, <1>1 DEF MakeTmpDirectory, Mkstemp, Cleanup, MakeShardDirectory, LstatScratch
<1>2. CASE HashChunk(r) \/ WriteChunk(r) \/ SourceEnds(r) \/ SourceFails(r) \/ Fsync(r)
  BY <1>t, <1>2 DEF HashChunk, WriteChunk, SourceEnds, SourceFails, RaiseInSpool, Fsync
<1>3. CASE LstatTarget(r) \/ DiscardDuplicate(r)
  BY <1>t, <1>3 DEF LstatTarget, DiscardDuplicate
<1>4. CASE Rename(r)
  BY <1>t, <1>4 DEF Rename, Publish
<1>5. CASE OpenBlob(r) \/ ReadChunk(r) \/ ExistsBlob(r) \/ SizeBlob(r)
  <2>1. r \notin scratch /\ UNCHANGED scratch
    BY <1>t, <1>5 DEF OpenBlob, ReadChunk, ExistsBlob, SizeBlob
  <2> QED
    BY <2>1
<1>6. CASE UnlinkBlob(r)
  <2>1. r \notin scratch /\ UNCHANGED scratch
    BY <1>t, <1>6 DEF UnlinkBlob, UnlinkEntry
  <2> QED
    BY <2>1
<1>7. CASE Fault(r)
  BY <1>t, <1>7 DEF Fault, RaiseInSpool, Mutating, Harmless
<1>8. CASE Cancel(r)
  BY <1>t, <1>8 DEF Cancel, RaiseInSpool, OrphanOf, Mutating, Harmless
<1>9. CASE OrphanRun(r)
  <2>1. outcome'[r] = "Cancelled" /\ pc'[r] = "done"
    BY <1>t, <1>9 DEF OrphanRun, CallInv, Orphan
  <2>2. scratch' \subseteq scratch \cup {r}
    BY <1>t, <1>9 DEF OrphanRun, Publish, UnlinkEntry
  <2> QED
    BY <2>1, <2>2
<1>10. CASE OrphanDrop(r)
  <2>1. outcome'[r] = "Cancelled" /\ pc'[r] = "done" /\ UNCHANGED scratch
    BY <1>t, <1>10 DEF OrphanDrop, CallInv
  <2> QED
    BY <2>1
<1>11. ASSUME NEW o, NEW k, pc[r] = "idle", Begin(r, o, k)
       PROVE  (\A q \in Request \ {r} : q \in scratch' => q \in scratch) /\ ScratchInv(r)'
  <2>1. r \notin scratch /\ UNCHANGED scratch
    BY <1>t, <1>11 DEF Begin
  <2> QED
    BY <2>1
<1> QED
  BY <1>1, <1>2, <1>3, <1>4, <1>5, <1>6, <1>7, <1>8, <1>9, <1>10, <1>11
     DEF RequestStep, CallPut, CallWithKey, Syscall, CallerStep, Interference

-----------------------------------------------------------------------------
(* The histories, without a power loss *)

\* A step of a call keeps them.
LEMMA RequestHistory ==
    ASSUME CallsInv, CallsInv', HistoryInv, NEW r \in Request, RequestStep(r)
    PROVE  HistoryInv'
<1>t. TypeOK /\ IInv /\ \A q \in Request : CallInv(q)
  BY DEF CallsInv, IInv
<1>h. /\ \A q \in Request : ScratchInv(q) /\ VictimInv(q) /\ ConservedInv(q)
      /\ \A d \in Digest : LatestInv(d)
  BY DEF HistoryInv
<1>l. pc[r] \notin Finished /\ \A q \in Request \ {r} : Same(q) /\ op'[q] = op[q]
  BY <1>t, LocalStep, OpLocal
<1>d. op[r] = "delete" => seen[r] = "absent"
  BY <1>t, <1>l DEF CallInv, Finished, Deleting, Unnamed, Named, PutSteps, Orphan, Spooling,
     Mutating, Harmless, TypeOK
<1>a. "absent" \notin Request
  BY EntryAssumption
<1>n. Silent(r) \/ Publishes(r) \/ Removes(r)
  BY NameStep
<1>1. ASSUME NEW q \in Request PROVE ScratchInv(q)'
  <2>1. CASE q = r
    BY <1>h, <2>1, ScratchStep
  <2>2. CASE q # r
    <3>1. Same(q) /\ (q \in scratch' => q \in scratch)
      BY <1>h, <1>l, <2>2, ScratchStep
    <3> QED
      BY <1>h, <3>1 DEF ScratchInv, Same
  <2> QED
    BY <2>1, <2>2
<1>p. ASSUME Removes(r), tree[key[r]] \in Request
      PROVE  /\ pc[tree[key[r]]] = "done"
             /\ \A d \in Digest \ {key[r]} : tree[d] # tree[key[r]]
  <2>1. key[r] \in Digest
    BY <1>p DEF Removes
  <2>2. pc[tree[key[r]]] = "done" /\ Sha256[data[tree[key[r]]]] = key[r]
    BY <1>t, <1>p, <2>1 DEF IInv, PublishedInv
  <2>3. ASSUME NEW d \in Digest, tree[d] = tree[key[r]] PROVE d = key[r]
    <3>1. Sha256[data[tree[d]]] = d
      BY <1>t, <1>p, <2>3 DEF IInv, PublishedInv
    <3> QED
      BY <2>2, <2>3, <3>1
  <2> QED
    BY <2>2, <2>3
<1>2. ASSUME NEW q \in Request PROVE VictimInv(q)'
  <2> SUFFICES ASSUME op'[q] = "delete", seen'[q] \in Request
               PROVE  /\ pc'[seen'[q]] = "done"
                      /\ \A d \in Digest : tree'[d] # seen'[q]
                      /\ \A p \in Request \ {q} : op'[p] = "delete" => seen'[p] # seen'[q]
    BY DEF VictimInv
  <2>1. CASE q = r
    <3>1. Removes(r)
      BY <1>a, <1>n, <2>1 DEF Silent, Publishes
    <3>2. seen'[r] = tree[key[r]] /\ key[r] \in Digest /\ tree[key[r]] \in Request
      BY <2>1, <3>1 DEF Removes
    <3>3. /\ pc[tree[key[r]]] = "done"
          /\ \A d \in Digest \ {key[r]} : tree[d] # tree[key[r]]
      BY <1>p, <3>1, <3>2
    <3>4. pc'[tree[key[r]]] = "done"
      BY <1>l, <3>2, <3>3 DEF Same, Finished
    <3>5. \A d \in Digest : tree'[d] # tree[key[r]]
      BY <1>a, <1>t, <3>1, <3>2, <3>3 DEF Removes, TypeOK
    <3>6. ASSUME NEW p \in Request \ {r}, op'[p] = "delete" PROVE seen'[p] # tree[key[r]]
      <4>1. op[p] = "delete" /\ seen'[p] = seen[p]
        BY <1>l, <3>6 DEF Same
      <4> QED
        BY <1>h, <3>2, <4>1 DEF VictimInv
    <3> QED
      BY <2>1, <3>2, <3>4, <3>5, <3>6
  <2>2. CASE q # r
    <3>1. op[q] = "delete" /\ seen'[q] = seen[q] /\ seen[q] \in Request
      BY <1>l, <2>2 DEF Same
    <3>2. /\ pc[seen[q]] = "done"
          /\ \A d \in Digest : tree[d] # seen[q]
          /\ \A p \in Request \ {q} : op[p] = "delete" => seen[p] # seen[q]
      BY <1>h, <3>1 DEF VictimInv
    <3>3. seen[q] # r
      BY <1>l, <3>2 DEF Finished
    <3>4. pc'[seen[q]] = "done"
      BY <1>l, <3>1, <3>2, <3>3 DEF Same
    <3>5. \A d \in Digest : tree'[d] # seen[q]
      BY <1>a, <1>n, <1>t, <3>1, <3>2, <3>3 DEF Silent, Publishes, Removes, TypeOK
    <3>6. ASSUME NEW p \in Request \ {q}, op'[p] = "delete" PROVE seen'[p] # seen[q]
      <4>1. CASE p = r
        BY <1>a, <1>n, <3>1, <3>2, <3>6, <4>1 DEF Silent, Publishes, Removes
      <4>2. CASE p # r
        BY <1>l, <3>2, <3>6, <4>2 DEF Same
      <4> QED
        BY <4>1, <4>2
    <3> QED
      BY <3>1, <3>4, <3>5, <3>6
  <2> QED
    BY <2>1, <2>2
<1>k. ASSUME NEW d \in Digest, latest[d] \in Request PROVE latest'[d] \in Request
  BY <1>n, <1>t, <1>k DEF Silent, Publishes, Removes, TypeOK
<1>3. ASSUME NEW q \in Request PROVE ConservedInv(q)'
  <2> SUFFICES ASSUME Settled(q)' PROVE key'[q] \in Digest /\ latest'[key'[q]] \in Request
    BY DEF ConservedInv
  <2>1. CASE q = r /\ Publishes(r)
    BY <1>t, <2>1 DEF Publishes, TypeOK
  <2>2. CASE q = r /\ Silent(r)
    <3>1. key'[r] = key[r] /\ (pc[r] = "discard" \/ (key[r] \in Digest /\ tree[key[r]] \in Request))
      BY <2>2 DEF Silent
    <3>2. key[r] \in Digest /\ latest[key[r]] \in Request
      BY <1>h, <3>1 DEF ConservedInv, Settled, LatestInv
    <3> QED
      BY <1>k, <2>2, <3>1, <3>2
  <2>3. CASE q # r
    <3>1. Settled(q) /\ key'[q] = key[q]
      BY <1>l, <2>3 DEF Same, Settled
    <3> QED
      BY <1>h, <1>k, <3>1 DEF ConservedInv
  <2> QED
    BY <1>n, <2>1, <2>2, <2>3 DEF Removes
<1>4. ASSUME NEW d \in Digest PROVE LatestInv(d)'
  <2>1. LatestInv(d)
    BY <1>h
  <2>2. ASSUME NEW w \in Request, op[w] = "delete", seen[w] \in Request
        PROVE  op'[w] = "delete" /\ seen'[w] = seen[w]
    BY <1>a, <1>d, <1>l, <2>2 DEF Same
  <2>3. CASE tree'[d] = tree[d] /\ latest'[d] = latest[d]
    BY <2>1, <2>2, <2>3 DEF LatestInv
  <2>4. CASE Publishes(r) /\ key[r] = d
    BY <1>t, <2>4 DEF Publishes, LatestInv, TypeOK
  <2>5. CASE Removes(r) /\ key[r] = d
    <3>1. tree'[d] = "absent" /\ latest'[d] = latest[d] /\ op'[r] = "delete" /\ seen'[r] = tree[d]
      BY <1>t, <2>5 DEF Removes, TypeOK
    <3> QED
      BY <1>a, <2>1, <2>2, <3>1 DEF LatestInv
  <2>6. CASE Silent(r) \/ key[r] # d
    <3>1. tree'[d] = tree[d] /\ latest'[d] = latest[d]
      BY <1>n, <1>t, <2>6 DEF Silent, Publishes, Removes, TypeOK
    <3> QED
      BY <2>3, <3>1
  <2> QED
    BY <1>n, <2>4, <2>5, <2>6
<1> QED
  BY <1>1, <1>2, <1>3, <1>4 DEF HistoryInv

\* A planted entry takes no blob's place, and a kill ends the calls and leaves the files.
LEMMA StepHistory ==
    ASSUME NoPowerLoss, CallsInv, HistoryInv, [Next]_vars
    PROVE  HistoryInv'
<1>t. TypeOK /\ IInv /\ \A q \in Request : CallInv(q)
  BY DEF CallsInv, IInv
<1>h. /\ \A q \in Request : ScratchInv(q) /\ VictimInv(q) /\ ConservedInv(q)
      /\ \A d \in Digest : LatestInv(d)
  BY DEF HistoryInv
<1>c. CallsInv'
  BY StepCalls
<1>1. ASSUME NEW r \in Request, RequestStep(r) PROVE HistoryInv'
  BY <1>1, <1>c, RequestHistory
<1>2. ASSUME NEW d \in Digest, NEW e \in Foreign, Plant(d, e) PROVE HistoryInv'
  <2>1. UNCHANGED <<scratch, latest, op, key, pc, seen, outcome>>
    BY <1>2 DEF Plant, callVars
  <2>2. \A c \in Digest : tree'[c] = tree[c] \/ (tree[c] = "absent" /\ tree'[c] \notin Request)
    BY <1>t, <1>2, EntryAssumption DEF Plant, TypeOK
  <2>3. ASSUME NEW q \in Request PROVE ScratchInv(q)'
    BY <1>h, <2>1 DEF ScratchInv
  <2>4. ASSUME NEW q \in Request PROVE VictimInv(q)'
    BY <1>h, <2>1, <2>2 DEF VictimInv
  <2>5. ASSUME NEW q \in Request PROVE ConservedInv(q)'
    BY <1>h, <2>1 DEF ConservedInv, Settled
  <2>6. ASSUME NEW c \in Digest PROVE LatestInv(c)'
    BY <1>h, <2>1, <2>2, EntryAssumption DEF LatestInv
  <2> QED
    BY <2>3, <2>4, <2>5, <2>6 DEF HistoryInv
<1>3. CASE Kill
  <2>1. Die /\ UNCHANGED <<tree, scratch, latest, op, key, seen>>
    BY <1>3 DEF Kill, fsVars
  <2>2. ASSUME NEW q \in Request
        PROVE  /\ pc'[q] \in {"idle", "done", "dead"} /\ outcome'[q] \in {"none", outcome[q]}
               /\ pc[q] = "done" => pc'[q] = "done"
               /\ pc[q] \in Orphan \cup {"done"} => outcome'[q] = outcome[q]
               /\ pc'[q] = "done" => pc[q] \in Orphan \cup {"done"}
               /\ pc'[q] = "idle" => pc[q] = "idle"
    BY <1>t, <2>1 DEF Die, InFlight, Orphan, Finished, TypeOK, Spooling, Mutating, Harmless
  <2>3. ASSUME NEW q \in Request PROVE ScratchInv(q)'
    <3>1. ScratchInv(q) /\ CallInv(q)
      BY <1>h, <1>t
    <3>2. q \in scratch => pc[q] # "idle"
      BY <3>1 DEF ScratchInv, Named, Spooling
    <3>3. q \in scratch /\ pc'[q] = "done" =>
            outcome'[q] \in {"StorageException", "OSError", "Cancelled"}
      BY <2>2, <3>1 DEF ScratchInv, CallInv
    <3> QED
      BY <2>1, <2>2, <3>2, <3>3 DEF ScratchInv
  <2>4. ASSUME NEW q \in Request PROVE VictimInv(q)'
    BY <1>h, <2>1, <2>2 DEF VictimInv
  <2>5. ASSUME NEW q \in Request PROVE ConservedInv(q)'
    BY <1>h, <2>1, <2>2 DEF ConservedInv, Settled
  <2>6. ASSUME NEW c \in Digest PROVE LatestInv(c)'
    BY <1>h, <2>1 DEF LatestInv
  <2> QED
    BY <2>3, <2>4, <2>5, <2>6 DEF HistoryInv
<1>4. ~PowerLoss /\ \A d \in Digest : ~Writeback(d)
  BY DEF PowerLoss, Writeback, NoPowerLoss
<1>5. CASE UNCHANGED vars
  <2>1. UNCHANGED <<tree, scratch, latest, op, key, pc, seen, outcome>>
    BY <1>5 DEF vars, fsVars, callVars
  <2> QED
    BY <1>h, <2>1 DEF HistoryInv, ScratchInv, VictimInv, ConservedInv, Settled, LatestInv
<1> QED
  BY <1>1, <1>2, <1>3, <1>4, <1>5 DEF Next, RequestStep, Environment, Quiescent

\* The empty store has no history.
LEMMA InitHistory == Init => HistoryInv
  BY EntryAssumption DEF Init, HistoryInv, ScratchInv, VictimInv, ConservedInv, Settled, LatestInv

\* Both parts hold in every state.
LEMMA Histories == ASSUME NoPowerLoss PROVE Spec => [](CallsInv /\ HistoryInv)
<1>1. Init => CallsInv /\ HistoryInv
  BY InitCalls, InitHistory
<1>2. CallsInv /\ HistoryInv /\ [Next]_vars => (CallsInv /\ HistoryInv)'
  BY StepCalls, StepHistory
<1> QED
  BY <1>1, <1>2, PTL DEF Spec

\* What the two parts entail for the callers.
LEMMA HistoryImplies ==
    ASSUME CallsInv, HistoryInv
    PROVE  ScratchAccounted /\ StoredBlobConserved /\ DeletesNeverShareAVictim
<1>1. ScratchAccounted
  BY DEF HistoryInv, ScratchInv, ScratchAccounted, CallsInv, IInv, TypeOK
<1>2. StoredBlobConserved
  BY DEF HistoryInv, ConservedInv, Settled, LatestInv, StoredBlobConserved
<1>3. ASSUME NEW r \in Request, op[r] = "delete", outcome[r] = "deleted"
      PROVE  /\ seen[r] # "absent"
             /\ \A q \in Request \ {r} :
                   op[q] = "delete" /\ outcome[q] = "deleted" /\ seen[q] \in Request
                       => seen[q] # seen[r]
  <2>1. CallInv(r)
    BY DEF CallsInv
  <2>2. \A q \in Request : VictimInv(q)
    BY DEF HistoryInv
  <2> QED
    BY <1>3, <2>1, <2>2 DEF CallInv, VictimInv
<1> QED
  BY <1>1, <1>2, <1>3 DEF DeletesNeverShareAVictim

-----------------------------------------------------------------------------
(* The theorems *)

\* Whatever fails, is cancelled or is killed, a scratch file stays behind a put() that has
\* returned only when it raised after the spooling or was cancelled (_spool's cleanup).
THEOREM ScratchFiles == ASSUME NoPowerLoss PROVE Spec => []ScratchAccounted
  BY Histories, HistoryImplies, PTL

\* Once a put() has returned, the file the last rename left at its key is there or a
\* delete() removed it: no race of uploads, failures and cancellations loses the blob.
THEOREM Conservation == ASSUME NoPowerLoss PROVE Spec => []StoredBlobConserved
  BY Histories, HistoryImplies, PTL

\* Of the delete() calls that race for one file one reports success (os.unlink is atomic).
THEOREM OneDeleteWins == ASSUME NoPowerLoss PROVE Spec => []DeletesNeverShareAVictim
  BY Histories, HistoryImplies, PTL
=============================================================================
