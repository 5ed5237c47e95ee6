------------------------- MODULE BlobRefinementProofs -------------------------
(***************************************************************************)
(* Proof that the filesystem adapter implements the BlobStorage port, for  *)
(* any number of calls, contents and keys and under every hazard: each of  *)
(* its steps is one step of BlobContract under the mapping of              *)
(* FilesystemRefinesContract, or invisible to the callers.                 *)
(***************************************************************************)
EXTENDS FilesystemRefinesContract, FilesystemBlobStorageProofs

\* What the port's variables are mapped to.
Entries == [d \in Digest |-> EntryOf(tree[d])]
Targets == [r \in Request |-> IF op[r] = "put" THEN NoKey ELSE key[r]]
Stages  == [r \in Request |-> StageOf(pc[r])]
Answers == [r \in Request |-> AnswerOf(r)]

\* The callers see nothing.
Invisible == UNCHANGED <<Entries, op, Targets, Stages, Answers>>

-----------------------------------------------------------------------------
(* The mapping *)

\* The stage of every await.
LEMMA StageValues ==
    /\ StageOf("idle") = "idle" /\ StageOf("dead") = "down"
    /\ \A l \in {"stream", "discard"} : StageOf(l) = "decided"
    /\ \A l \in {"orphan_rename", "orphan_unlink"} : StageOf(l) = "abandoned"
    /\ \A l \in {"done", "orphan_mkstemp", "orphan_discard"} : StageOf(l) = "returned"
    /\ \A l \in {"tmpdir", "mkstemp", "spool", "write", "fsync", "cleanup", "lstat", "shard",
                 "stat", "rename", "open", "exists", "size", "unlink"} : StageOf(l) = "called"
  BY DEF StageOf

\* A call waiting for a syscall or for its stream is pending.
LEMMA PendingStages ==
    \A l \in Spooling \cup Mutating \cup Harmless : StageOf(l) \in {"called", "decided"}
  BY DEF StageOf, Spooling, Mutating, Harmless

\* The answer at every stage, before a step and after it.
LEMMA AnswerValues ==
    ASSUME NEW r
    PROVE  /\ StageOf(pc[r]) \in {"idle", "called", "down"} => AnswerOf(r) = <<"none", NoKey>>
           /\ pc[r] = "stream" => AnswerOf(r) = <<"streamed", key[r]>>
           /\ pc[r] = "discard" => AnswerOf(r) = <<"stored", key[r]>>
           /\ StageOf(pc[r]) \in {"returned", "abandoned"} =>
                AnswerOf(r) = <<outcome[r], IF outcome[r] \in Raised THEN NoKey ELSE key[r]>>
<1>1. StageOf(pc[r]) \in {"idle", "called", "down"} => AnswerOf(r) = <<"none", NoKey>>
  BY StageValues DEF AnswerOf
<1>2. pc[r] = "stream" => AnswerOf(r) = <<"streamed", key[r]>>
  BY StageValues DEF AnswerOf
<1>3. pc[r] = "discard" => AnswerOf(r) = <<"stored", key[r]>>
  BY StageValues DEF AnswerOf
<1>4. StageOf(pc[r]) \in {"returned", "abandoned"} =>
        AnswerOf(r) = <<outcome[r], IF outcome[r] \in Raised THEN NoKey ELSE key[r]>>
  BY StageValues DEF AnswerOf
<1> QED
  BY <1>1, <1>2, <1>3, <1>4

\* ... and after it.
LEMMA AnswerValuesAfter ==
    ASSUME NEW r
    PROVE  /\ StageOf(pc'[r]) \in {"idle", "called", "down"} => AnswerOf(r)' = <<"none", NoKey>>
           /\ pc'[r] = "stream" => AnswerOf(r)' = <<"streamed", key'[r]>>
           /\ pc'[r] = "discard" => AnswerOf(r)' = <<"stored", key'[r]>>
           /\ StageOf(pc'[r]) \in {"returned", "abandoned"} =>
                AnswerOf(r)' = <<outcome'[r], IF outcome'[r] \in Raised THEN NoKey ELSE key'[r]>>
<1>1. StageOf(pc'[r]) \in {"idle", "called", "down"} => AnswerOf(r)' = <<"none", NoKey>>
  BY StageValues DEF AnswerOf
<1>2. pc'[r] = "stream" => AnswerOf(r)' = <<"streamed", key'[r]>>
  BY StageValues DEF AnswerOf
<1>3. pc'[r] = "discard" => AnswerOf(r)' = <<"stored", key'[r]>>
  BY StageValues DEF AnswerOf
<1>4. StageOf(pc'[r]) \in {"returned", "abandoned"} =>
        AnswerOf(r)' = <<outcome'[r], IF outcome'[r] \in Raised THEN NoKey ELSE key'[r]>>
  BY StageValues DEF AnswerOf
<1> QED
  BY <1>1, <1>2, <1>3, <1>4

\* A step of call r moves r only.
LEMMA MappedStep ==
    ASSUME TypeOK, TypeOK', NEW r \in Request, RequestStep(r)
    PROVE  /\ Stages' = [Stages EXCEPT ![r] = StageOf(pc'[r])]
           /\ Answers' = [Answers EXCEPT ![r] = AnswerOf(r)']
           /\ op' = [op EXCEPT ![r] = op'[r]]
           /\ Targets' = [Targets EXCEPT ![r] = IF op'[r] = "put" THEN NoKey ELSE key'[r]]
           /\ Stages[r] = StageOf(pc[r]) /\ Answers[r] = AnswerOf(r)
           /\ Targets[r] = IF op[r] = "put" THEN NoKey ELSE key[r]
<1>1. \A q \in Request \ {r} : Same(q) /\ op'[q] = op[q]
  BY LocalStep, OpLocal
<1>2. \A q \in Request \ {r} : AnswerOf(q)' = AnswerOf(q)
  BY <1>1 DEF AnswerOf, Same
<1>3. Stages' = [Stages EXCEPT ![r] = StageOf(pc'[r])]
  BY <1>1 DEF Stages, Same
<1>4. Answers' = [Answers EXCEPT ![r] = AnswerOf(r)']
  BY <1>2 DEF Answers
<1>5. op' = [op EXCEPT ![r] = op'[r]]
  BY <1>1 DEF TypeOK
<1>6. Targets' = [Targets EXCEPT ![r] = IF op'[r] = "put" THEN NoKey ELSE key'[r]]
  BY <1>1 DEF Targets, Same
<1> QED
  BY <1>3, <1>4, <1>5, <1>6 DEF Stages, Answers, Targets

\* The empty store maps to the port's initial state.
LEMMA InitMapped == Init => Contract!Init
<1> SUFFICES ASSUME Init PROVE Contract!Init
  OBVIOUS
<1>1. \A r \in Request : AnswerOf(r) = <<"none", NoKey>>
  BY StageValues, AnswerValues DEF Init
<1>2. \A d \in Digest : EntryOf(tree[d]) = "absent"
  BY EntryAssumption DEF Init, EntryOf
<1> QED
  BY <1>1, <1>2, StageValues DEF Init, Contract!Init, Contract!NoAnswer

-----------------------------------------------------------------------------
(* The actions of the port, over the mapped state *)

Settles(r, s, a) == /\ Stages'  = [Stages EXCEPT ![r] = s]
                    /\ Answers' = [Answers EXCEPT ![r] = a]
                    /\ UNCHANGED <<op, Targets>>

HeldAt(k) == IF k \in Digest THEN Entries[k] ELSE "absent"

\* A call begins.
LEMMA PortInvoke ==
    ASSUME NEW r \in Request, NEW o, NEW k,
           Stages[r] = "idle",
           op' = [op EXCEPT ![r] = o],
           Targets' = [Targets EXCEPT ![r] = k],
           Stages' = [Stages EXCEPT ![r] = "called"],
           UNCHANGED <<Entries, Answers>>
    PROVE  Contract!Invoke(r, o, k)
  BY DEF Entries, Stages, Answers, Targets, Settles, HeldAt, Contract!Settle,
     Contract!Invoke

\* put() publishes its content ...
LEMMA PortStore ==
    ASSUME NEW r \in Request, NEW d,
           Stages[r] = "called", op[r] = "put",
           Entries' = [Entries EXCEPT ![d] = "blob"],
           Settles(r, "returned", <<"stored", d>>)
    PROVE  Contract!Store(r, d)
  BY DEF Entries, Stages, Answers, Targets, Settles, HeldAt, Contract!Settle,
     Contract!Store

\* ... or finds it stored ...
LEMMA PortAlreadyStored ==
    ASSUME NEW r \in Request, NEW d,
           Stages[r] = "called", op[r] = "put",
           Entries[d] = "blob", UNCHANGED Entries,
           Settles(r, "decided", <<"stored", d>>)
    PROVE  Contract!AlreadyStored(r, d)
  BY DEF Entries, Stages, Answers, Targets, Settles, HeldAt, Contract!Settle,
     Contract!AlreadyStored

\* ... or its place taken.
LEMMA PortRefuseForeign ==
    ASSUME NEW r \in Request, NEW d,
           Stages[r] = "called", op[r] = "put",
           Entries[d] = "foreign", UNCHANGED Entries,
           Settles(r, "returned", <<"StorageException", NoKey>>)
    PROVE  Contract!RefuseForeign(r, d)
  BY DEF Entries, Stages, Answers, Targets, Settles, HeldAt, Contract!Settle,
     Contract!RefuseForeign

\* get() finds the blob.
LEMMA PortOpenStream ==
    ASSUME NEW r \in Request,
           Stages[r] = "called", op[r] = "get",
           HeldAt(Targets[r]) = "blob", UNCHANGED Entries,
           Settles(r, "decided", <<"streamed", Targets[r]>>)
    PROVE  Contract!OpenStream(r)
  BY DEF Entries, Stages, Answers, Targets, Settles, HeldAt, Contract!Settle,
     Contract!OpenStream, Contract!Held

\* exists() and size() find it.
LEMMA PortReport ==
    ASSUME NEW r \in Request,
           Stages[r] = "called", op[r] \in {"exists", "size"},
           HeldAt(Targets[r]) = "blob", UNCHANGED Entries,
           Settles(r, "returned", <<IF op[r] = "size" THEN "sized" ELSE "True", Targets[r]>>)
    PROVE  Contract!Report(r)
  BY DEF Entries, Stages, Answers, Targets, Settles, HeldAt, Contract!Settle,
     Contract!Report, Contract!Held

\* A lookup finds no blob.
LEMMA PortReportAbsence ==
    ASSUME NEW r \in Request,
           Stages[r] = "called", op[r] \in {"get", "exists", "size", "delete"},
           IF op[r] = "delete" THEN HeldAt(Targets[r]) = "absent"
                               ELSE HeldAt(Targets[r]) # "blob",
           UNCHANGED Entries,
           Settles(r, "returned",
                   <<IF op[r] = "exists" THEN "False" ELSE "BlobNotFound", Targets[r]>>)
    PROVE  Contract!ReportAbsence(r)
  BY DEF Entries, Stages, Answers, Targets, Settles, HeldAt, Contract!Settle,
     Contract!ReportAbsence, Contract!Held, Contract!Lookups

\* delete() removes what is there.
LEMMA PortDelete ==
    ASSUME NEW r \in Request,
           Stages[r] = "called", op[r] = "delete",
           HeldAt(Targets[r]) # "absent",
           Entries' = [Entries EXCEPT ![Targets[r]] = "absent"],
           Settles(r, "returned", <<"deleted", Targets[r]>>)
    PROVE  Contract!Delete(r)
  BY DEF Entries, Stages, Answers, Targets, Settles, HeldAt, Contract!Settle,
     Contract!Delete, Contract!Held

\* A decided call returns what it decided.
LEMMA PortFinish ==
    ASSUME NEW r \in Request,
           Stages[r] = "decided",
           Stages' = [Stages EXCEPT ![r] = "returned"],
           UNCHANGED <<Entries, op, Targets, Answers>>
    PROVE  Contract!Finish(r)
  BY DEF Entries, Stages, Answers, Targets, Settles, HeldAt, Contract!Settle,
     Contract!Finish

\* A pending call raises ...
LEMMA PortFail ==
    ASSUME NEW r \in Request, NEW e \in {"OSError", "SourceError"},
           Stages[r] \in {"called", "decided"}, UNCHANGED Entries,
           Settles(r, "returned", <<e, NoKey>>)
    PROVE  Contract!Fail(r)
  BY DEF Entries, Stages, Answers, Targets, Settles, HeldAt, Contract!Settle,
     Contract!Fail, Contract!Pending

\* ... or, for exists(), says no ...
LEMMA PortDeny ==
    ASSUME NEW r \in Request, op[r] = "exists",
           Stages[r] \in {"called", "decided"}, UNCHANGED Entries,
           Settles(r, "returned", <<"False", Targets[r]>>)
    PROVE  Contract!Fail(r)
  BY DEF Entries, Stages, Answers, Targets, Settles, HeldAt, Contract!Settle,
     Contract!Fail, Contract!Pending

\* ... or is cancelled, with or without a thread left behind, ...
LEMMA PortAbandon ==
    ASSUME NEW r \in Request, NEW s,
           Stages[r] \in {"called", "decided"}, UNCHANGED Entries,
           s = "returned" \/ (s = "abandoned" /\ op[r] \in {"put", "delete"}),
           Settles(r, s, <<"Cancelled", NoKey>>)
    PROVE  Contract!Abandon(r)
  BY DEF Entries, Stages, Answers, Targets, Settles, HeldAt, Contract!Settle,
     Contract!Abandon, Contract!Pending

\* ... whose effect comes late or never.
LEMMA PortLateEffect ==
    ASSUME NEW r \in Request,
           Stages[r] = "abandoned",
           Stages' = [Stages EXCEPT ![r] = "returned"],
           \/ op[r] = "put" /\ \E d \in Digest : Entries' = [Entries EXCEPT ![d] = "blob"]
           \/ op[r] = "delete" /\ Entries' = [Entries EXCEPT ![Targets[r]] = "absent"]
           \/ UNCHANGED Entries,
           UNCHANGED <<op, Targets, Answers>>
    PROVE  Contract!LateEffect(r)
  BY DEF Entries, Stages, Answers, Targets, Settles, HeldAt, Contract!Settle,
     Contract!LateEffect

-----------------------------------------------------------------------------
(* Steps of a call *)

PortStep == [Contract!Next]_(Contract!vars)

\* A step nobody sees is a stutter of the port.
LEMMA PortStutter == Invisible => PortStep
  BY DEF Invisible, Entries, Targets, Stages, Answers, PortStep, Contract!vars

\* What is at a path changes for the port as it does in the tree.
LEMMA SameEntries == UNCHANGED tree => UNCHANGED Entries
  BY DEF Entries

LEMMA NewEntry ==
    ASSUME TypeOK, NEW d \in Digest, NEW e \in Entry, tree' = [tree EXCEPT ![d] = e]
    PROVE  Entries' = [Entries EXCEPT ![d] = EntryOf(e)]
  BY DEF Entries, TypeOK

\* What the port says of a path, and what the tree holds there.
LEMMA EntryValues ==
    ASSUME TypeOK
    PROVE  /\ \A d \in Digest : /\ Entries[d] = "absent" <=> tree[d] = "absent"
                                /\ Entries[d] = "blob" <=> tree[d] \in Request
                                /\ Entries[d] = "foreign" <=> tree[d] \in Foreign
           /\ \A k : /\ HeldAt(k) = "absent" <=> EntryAt(k) = "absent"
                     /\ HeldAt(k) = "blob" <=> EntryAt(k) \in Request
<1>1. ASSUME NEW d \in Digest
      PROVE  /\ Entries[d] = "absent" <=> tree[d] = "absent"
             /\ Entries[d] = "blob" <=> tree[d] \in Request
             /\ Entries[d] = "foreign" <=> tree[d] \in Foreign
  BY EntryAssumption DEF Entries, TypeOK, EntryOf, Entry, Foreign
<1>2. ASSUME NEW k
      PROVE  /\ HeldAt(k) = "absent" <=> EntryAt(k) = "absent"
             /\ HeldAt(k) = "blob" <=> EntryAt(k) \in Request
  BY <1>1, EntryAssumption DEF HeldAt, EntryAt
<1> QED
  BY <1>1, <1>2

\* A step of a call under way moves its stage and its answer ...
LEMMA SettleStep ==
    ASSUME TypeOK, TypeOK', NEW r \in Request, RequestStep(r),
           op'[r] = op[r], op[r] = "put" \/ key'[r] = key[r]
    PROVE  Settles(r, StageOf(pc'[r]), AnswerOf(r)')
<1>1. op' = op
  BY MappedStep DEF TypeOK
<1>2. Targets' = Targets
  BY MappedStep DEF Targets
<1> QED
  BY <1>1, <1>2, MappedStep DEF Settles

\* ... and is invisible when it moves neither.
LEMMA InvisibleStep ==
    ASSUME TypeOK, TypeOK', NEW r \in Request, RequestStep(r), UNCHANGED tree,
           op'[r] = op[r], op[r] = "put" \/ key'[r] = key[r],
           StageOf(pc'[r]) = StageOf(pc[r]), AnswerOf(r)' = AnswerOf(r)
    PROVE  PortStep
<1>1. UNCHANGED <<op, Targets>>
  BY SettleStep DEF Settles
<1>2. UNCHANGED Stages
  BY MappedStep DEF Stages
<1>3. UNCHANGED Answers
  BY MappedStep DEF Answers
<1> QED
  BY <1>1, <1>2, <1>3, SameEntries, PortStutter DEF Invisible

\* A method is called.
LEMMA StepCall ==
    ASSUME CallsInv, TypeOK', NEW r \in Request,
           CallPut(r) \/ \E o \in Op, k \in Key : CallWithKey(r, o, k)
    PROVE  PortStep
<1>1. TypeOK /\ CallInv(r) /\ RequestStep(r)
  BY DEF CallsInv, IInv, RequestStep
<1>2. PICK o \in Op, k \in Key \cup {NoKey} : /\ Begin(r, o, k) /\ pc[r] = "idle"
                                              /\ o = "put" => k = NoKey
                                              /\ o # "put" => k \in Key
  BY DEF CallPut, CallWithKey, Op
<1>3. UNCHANGED tree
  BY <1>2 DEF Begin, fsVars
<1>4. pc'[r] \in {"tmpdir", "open", "exists", "size", "unlink"}
  BY <1>1, <1>2 DEF Begin, Goto, FirstStep, TypeOK, Op
<1>5. op'[r] = o /\ key'[r] = k
  BY <1>1, <1>2 DEF Begin, TypeOK
<1>6. AnswerOf(r)' = AnswerOf(r)
  BY <1>2, <1>4, AnswerValues, AnswerValuesAfter, StageValues
<1>7. UNCHANGED Answers
  BY <1>1, <1>6, MappedStep DEF Answers
<1>8. Stages[r] = "idle" /\ StageOf(pc'[r]) = "called"
  BY <1>2, <1>4, StageValues DEF Stages
<1>9. Contract!Invoke(r, o, k)
  BY <1>1, <1>2, <1>3, <1>5, <1>7, <1>8, MappedStep, SameEntries, PortInvoke
<1> QED
  BY <1>2, <1>9 DEF PortStep, Contract!Next, Contract!Lookups, Op

\* put() up to its lookup of the target, and on from there to the rename, is
\* invisible, and so is what makes it give up while it spools.
LEMMA StepSpool ==
    ASSUME CallsInv, TypeOK', NEW r \in Request,
           \/ MakeTmpDirectory(r) \/ Mkstemp(r) \/ HashChunk(r) \/ WriteChunk(r)
           \/ SourceEnds(r) \/ SourceFails(r) \/ Fsync(r) \/ MakeShardDirectory(r)
           \/ LstatScratch(r)
           \/ pc[r] \in Spooling /\ (Fault(r) \/ Cancel(r))
    PROVE  PortStep
<1>1. TypeOK /\ CallInv(r)
  BY DEF CallsInv, IInv
<1>2. RequestStep(r)
  BY DEF RequestStep, Syscall, CallerStep, Interference
<1>3. /\ pc[r] \in {"tmpdir", "mkstemp", "spool", "write", "fsync", "shard", "stat"}
      /\ pc'[r] \in {"mkstemp", "spool", "write", "fsync", "cleanup", "lstat", "stat", "rename"}
      /\ UNCHANGED <<tree, op>>
  BY <1>1 DEF MakeTmpDirectory, Mkstemp, HashChunk, WriteChunk, SourceEnds, SourceFails, Fsync,
     MakeShardDirectory, LstatScratch, Fault, Cancel, RaiseInSpool, Goto, Return, fsVars, TypeOK,
     Spooling, Mutating, Harmless
<1>4. op[r] = "put"
  BY <1>1, <1>3 DEF CallInv, PutSteps, Unnamed, Named, Spooling
<1>5. StageOf(pc'[r]) = "called" /\ StageOf(pc[r]) = "called"
  BY <1>3, StageValues
<1>6. AnswerOf(r)' = AnswerOf(r)
  BY <1>5, AnswerValues, AnswerValuesAfter
<1> QED
  BY <1>1, <1>2, <1>3, <1>4, <1>5, <1>6, InvisibleStep

\* A call that returns or decides settles its stage and its answer.
LEMMA StepSettles ==
    ASSUME CallsInv, TypeOK', NEW r \in Request, RequestStep(r), UNCHANGED <<op, key>>
    PROVE  /\ TypeOK /\ CallInv(r)
           /\ Stages[r] = StageOf(pc[r])
           /\ Targets[r] = IF op[r] = "put" THEN NoKey ELSE key[r]
           /\ pc'[r] = "done" =>
                Settles(r, "returned",
                        <<outcome'[r], IF outcome'[r] \in Raised THEN NoKey ELSE key[r]>>)
           /\ pc'[r] = "stream"  => Settles(r, "decided", <<"streamed", key[r]>>)
           /\ pc'[r] = "discard" => Settles(r, "decided", <<"stored", key[r]>>)
           /\ pc'[r] \in {"orphan_mkstemp", "orphan_discard"} =>
                Settles(r, "returned",
                        <<outcome'[r], IF outcome'[r] \in Raised THEN NoKey ELSE key[r]>>)
           /\ pc'[r] \in {"orphan_rename", "orphan_unlink"} =>
                Settles(r, "abandoned",
                        <<outcome'[r], IF outcome'[r] \in Raised THEN NoKey ELSE key[r]>>)
<1>1. TypeOK /\ CallInv(r)
  BY DEF CallsInv, IInv
<1>2. Settles(r, StageOf(pc'[r]), AnswerOf(r)')
  BY <1>1, SettleStep
<1>3. Stages[r] = StageOf(pc[r]) /\ Targets[r] = IF op[r] = "put" THEN NoKey ELSE key[r]
  BY DEF Stages, Targets
<1> QED
  BY <1>1, <1>2, <1>3, StageValues, AnswerValuesAfter

\* put() gives up, having cleaned up: it raises, or its caller has gone.
LEMMA StepCleanup ==
    ASSUME CallsInv, TypeOK', NEW r \in Request, Cleanup(r)
    PROVE  PortStep
<1>1. RequestStep(r) /\ UNCHANGED <<op, key, tree, outcome>>
  BY DEF RequestStep, Syscall, Cleanup
<1>2. TypeOK /\ CallInv(r)
  BY DEF CallsInv, IInv
<1>3. pc[r] = "cleanup" /\ pc'[r] = "done"
  BY <1>2 DEF Cleanup, Goto, TypeOK
<1>4. outcome'[r] \in {"OSError", "SourceError", "Cancelled"}
  BY <1>1, <1>2, <1>3 DEF CallInv
<1>5. Settles(r, "returned", <<outcome'[r], NoKey>>)
  BY <1>1, <1>3, <1>4, StepSettles DEF Raised
<1>6. UNCHANGED Entries /\ Stages[r] = "called"
  BY <1>1, <1>2, <1>3, StepSettles, SameEntries, StageValues
<1>7. CASE outcome'[r] = "Cancelled"
  <2>1. Contract!Abandon(r)
    BY <1>5, <1>6, <1>7, PortAbandon
  <2> QED
    BY <2>1 DEF PortStep, Contract!Next
<1>8. CASE outcome'[r] \in {"OSError", "SourceError"}
  <2>1. Contract!Fail(r)
    BY <1>5, <1>6, <1>8, PortFail
  <2> QED
    BY <2>1 DEF PortStep, Contract!Next
<1> QED
  BY <1>4, <1>7, <1>8

\* put() looks its target up: it goes on to publish, or that settles the answer.
LEMMA StepLstatTarget ==
    ASSUME CallsInv, TypeOK', NEW r \in Request, LstatTarget(r)
    PROVE  PortStep
<1>1. RequestStep(r) /\ UNCHANGED <<op, key, tree>>
  BY DEF RequestStep, Syscall, LstatTarget, fsVars
<1>2. TypeOK /\ CallInv(r) /\ TargetInv(r)
  BY DEF CallsInv, IInv
<1>3. pc[r] = "lstat" /\ op[r] = "put" /\ key[r] \in Digest
  BY <1>2, HashAssumption DEF LstatTarget, CallInv, PutSteps, Named, TargetInv, TypeOK
<1>4. UNCHANGED Entries /\ Stages[r] = "called"
  BY <1>1, <1>2, <1>3, StepSettles, SameEntries, StageValues
<1>5. CASE tree[key[r]] = "absent" /\ pc'[r] = "shard"
  <2>1. AnswerOf(r)' = AnswerOf(r)
    BY <1>3, <1>5, AnswerValues, AnswerValuesAfter, StageValues
  <2> QED
    BY <2>1, <1>1, <1>2, <1>3, <1>5, StageValues, InvisibleStep
<1>6. CASE tree[key[r]] \in Request /\ pc'[r] = "discard"
  <2>1. Entries[key[r]] = "blob"
    BY <1>2, <1>3, <1>6, EntryValues
  <2>2. Contract!AlreadyStored(r, key[r])
    BY <2>1, <1>1, <1>3, <1>4, <1>6, StepSettles, PortAlreadyStored
  <2> QED
    BY <2>2, <1>3 DEF PortStep, Contract!Next
<1>7. CASE tree[key[r]] \in Foreign /\ pc'[r] = "done" /\ outcome'[r] = "StorageException"
  <2>1. Entries[key[r]] = "foreign"
    BY <1>2, <1>3, <1>7, EntryValues
  <2>2. Contract!RefuseForeign(r, key[r])
    BY <2>1, <1>1, <1>3, <1>4, <1>7, StepSettles, PortRefuseForeign DEF Raised
  <2> QED
    BY <2>2, <1>3 DEF PortStep, Contract!Next
<1> QED
  BY <1>2, <1>5, <1>6, <1>7 DEF LstatTarget, Goto, Return, TypeOK

\* put() publishes, unless a directory is in the way.
LEMMA StepRename ==
    ASSUME CallsInv, TypeOK', NEW r \in Request, Rename(r)
    PROVE  PortStep
<1>1. RequestStep(r) /\ UNCHANGED <<op, key>>
  BY DEF RequestStep, Syscall, Rename
<1>2. TypeOK /\ CallInv(r) /\ TargetInv(r)
  BY DEF CallsInv, IInv
<1>3. pc[r] = "rename" /\ op[r] = "put" /\ key[r] \in Digest
  BY <1>2, HashAssumption DEF Rename, CallInv, PutSteps, Named, TargetInv, TypeOK
<1>4. Stages[r] = "called"
  BY <1>1, <1>3, StepSettles, StageValues
<1>5. CASE /\ tree' = [tree EXCEPT ![key[r]] = r]
           /\ pc'[r] = "done" /\ outcome'[r] = "stored"
  <2>1. EntryOf(r) = "blob" /\ r \in Entry
    BY EntryAssumption DEF EntryOf, Entry
  <2>2. Entries' = [Entries EXCEPT ![key[r]] = "blob"]
    BY <2>1, <1>2, <1>3, <1>5, NewEntry, Zenon
  <2>3. Contract!Store(r, key[r])
    BY <2>2, <1>1, <1>3, <1>4, <1>5, StepSettles, PortStore DEF Raised
  <2> QED
    BY <2>3, <1>3 DEF PortStep, Contract!Next
<1>6. CASE UNCHANGED tree /\ pc'[r] = "done" /\ outcome'[r] = "OSError"
  <2>1. Settles(r, "returned", <<"OSError", NoKey>>)
    BY <1>1, <1>6, StepSettles DEF Raised
  <2>2. Contract!Fail(r)
    BY <2>1, <1>2, <1>4, <1>6, SameEntries, PortFail
  <2> QED
    BY <2>2 DEF PortStep, Contract!Next
<1> QED
  BY <1>2, <1>5, <1>6 DEF Rename, Publish, Return, fsVars, TypeOK

\* put() drops its duplicate: the answer it had settled on is returned.
LEMMA StepDiscard ==
    ASSUME CallsInv, TypeOK', NEW r \in Request, DiscardDuplicate(r)
    PROVE  PortStep
<1>1. RequestStep(r) /\ UNCHANGED <<op, key, tree>>
  BY DEF RequestStep, Syscall, DiscardDuplicate
<1>2. TypeOK
  BY DEF CallsInv, IInv
<1>3. pc[r] = "discard" /\ pc'[r] = "done" /\ outcome'[r] = "stored"
  BY <1>2 DEF DiscardDuplicate, Return, TypeOK
<1>4. AnswerOf(r) = <<"stored", key[r]>> /\ AnswerOf(r)' = <<"stored", key[r]>>
  BY <1>1, <1>3, AnswerValues, AnswerValuesAfter, StageValues DEF Raised
<1>5. UNCHANGED Answers
  BY <1>1, <1>2, <1>4, MappedStep DEF Answers
<1>6. Stages[r] = "decided" /\ Settles(r, "returned", AnswerOf(r)')
  BY <1>1, <1>2, <1>3, SettleStep, MappedStep, StageValues
<1>7. Contract!Finish(r)
  BY <1>1, <1>2, <1>5, <1>6, SameEntries, PortFinish DEF Settles
<1> QED
  BY <1>7 DEF PortStep, Contract!Next

\* get() opens the blob, or finds none.
LEMMA StepOpen ==
    ASSUME CallsInv, TypeOK', NEW r \in Request, OpenBlob(r)
    PROVE  PortStep
<1>1. RequestStep(r) /\ UNCHANGED <<op, key, tree>>
  BY DEF RequestStep, Syscall, OpenBlob, fsVars
<1>2. TypeOK /\ CallInv(r)
  BY DEF CallsInv, IInv
<1>3. pc[r] = "open" /\ op[r] = "get"
  BY <1>2 DEF OpenBlob, CallInv
<1>4. UNCHANGED Entries /\ Stages[r] = "called" /\ Targets[r] = key[r]
  BY <1>1, <1>3, StepSettles, SameEntries, StageValues
<1>5. CASE EntryAt(key[r]) \in Request /\ pc'[r] = "stream"
  <2>1. HeldAt(Targets[r]) = "blob"
    BY <1>2, <1>4, <1>5, EntryValues
  <2>2. Contract!OpenStream(r)
    BY <2>1, <1>1, <1>3, <1>4, <1>5, StepSettles, PortOpenStream
  <2> QED
    BY <2>2 DEF PortStep, Contract!Next
<1>6. CASE EntryAt(key[r]) \notin Request /\ pc'[r] = "done" /\ outcome'[r] = "BlobNotFound"
  <2>1. HeldAt(Targets[r]) # "blob"
    BY <1>2, <1>4, <1>6, EntryValues
  <2>2. Contract!ReportAbsence(r)
    BY <2>1, <1>1, <1>3, <1>4, <1>6, StepSettles, PortReportAbsence DEF Raised
  <2> QED
    BY <2>2 DEF PortStep, Contract!Next
<1> QED
  BY <1>2, <1>5, <1>6 DEF OpenBlob, Goto, Return, TypeOK

\* get()'s iterator yields, or ends.
LEMMA StepRead ==
    ASSUME CallsInv, TypeOK', NEW r \in Request, ReadChunk(r)
    PROVE  PortStep
<1>1. RequestStep(r) /\ UNCHANGED <<op, key, tree>>
  BY DEF RequestStep, CallerStep, ReadChunk, fsVars
<1>2. TypeOK
  BY DEF CallsInv, IInv
<1>3. pc[r] = "stream" /\ AnswerOf(r) = <<"streamed", key[r]>>
  BY AnswerValues DEF ReadChunk
<1>4. CASE pc' = pc
  <2>1. AnswerOf(r)' = AnswerOf(r)
    BY <1>1, <1>3, <1>4, AnswerValuesAfter
  <2> QED
    BY <2>1, <1>1, <1>2, <1>4, InvisibleStep
<1>5. CASE pc'[r] = "done" /\ outcome'[r] = "streamed"
  <2>1. AnswerOf(r)' = AnswerOf(r)
    BY <1>1, <1>3, <1>5, AnswerValuesAfter, StageValues DEF Raised
  <2>2. UNCHANGED Answers
    BY <2>1, <1>1, <1>2, MappedStep DEF Answers
  <2>3. Stages[r] = "decided" /\ Settles(r, "returned", AnswerOf(r)')
    BY <1>1, <1>2, <1>3, <1>5, SettleStep, MappedStep, StageValues
  <2>4. Contract!Finish(r)
    BY <2>2, <2>3, <1>1, SameEntries, PortFinish DEF Settles
  <2> QED
    BY <2>4 DEF PortStep, Contract!Next
<1> QED
  BY <1>2, <1>4, <1>5 DEF ReadChunk, Return, TypeOK

\* exists() and size() answer.
LEMMA StepLookup ==
    ASSUME CallsInv, TypeOK', NEW r \in Request, ExistsBlob(r) \/ SizeBlob(r)
    PROVE  PortStep
<1>1. RequestStep(r) /\ UNCHANGED <<op, key, tree>>
  BY DEF RequestStep, Syscall, ExistsBlob, SizeBlob, fsVars
<1>2. TypeOK /\ CallInv(r)
  BY DEF CallsInv, IInv
<1>3. pc[r] \in {"exists", "size"} /\ op[r] = pc[r] /\ pc'[r] = "done"
  BY <1>2 DEF ExistsBlob, SizeBlob, Return, CallInv, TypeOK
<1>4. UNCHANGED Entries /\ Stages[r] = "called" /\ Targets[r] = key[r]
  BY <1>1, <1>3, StepSettles, SameEntries, StageValues
<1>5. CASE EntryAt(key[r]) \in Request
  <2>1. HeldAt(Targets[r]) = "blob"
    BY <1>2, <1>4, <1>5, EntryValues
  <2>2. outcome'[r] = IF op[r] = "size" THEN "sized" ELSE "True"
    BY <1>2, <1>3, <1>5 DEF ExistsBlob, SizeBlob, Return, IsStoredBlob, TypeOK
  <2>3. Settles(r, "returned", <<IF op[r] = "size" THEN "sized" ELSE "True", Targets[r]>>)
    BY <2>2, <1>1, <1>3, <1>4, StepSettles DEF Raised
  <2>4. Contract!Report(r)
    BY <2>1, <2>3, <1>3, <1>4, PortReport
  <2> QED
    BY <2>4 DEF PortStep, Contract!Next
<1>6. CASE EntryAt(key[r]) \notin Request
  <2>1. HeldAt(Targets[r]) # "blob"
    BY <1>2, <1>4, <1>6, EntryValues
  <2>2. outcome'[r] = IF op[r] = "exists" THEN "False" ELSE "BlobNotFound"
    BY <1>2, <1>3, <1>6 DEF ExistsBlob, SizeBlob, Return, IsStoredBlob, TypeOK
  <2>3. Settles(r, "returned",
                <<IF op[r] = "exists" THEN "False" ELSE "BlobNotFound", Targets[r]>>)
    BY <2>2, <1>1, <1>3, <1>4, StepSettles DEF Raised
  <2>4. Contract!ReportAbsence(r)
    BY <2>1, <2>3, <1>3, <1>4, PortReportAbsence
  <2> QED
    BY <2>4 DEF PortStep, Contract!Next
<1> QED
  BY <1>5, <1>6

\* An unlink that succeeds is seen by the port as the removal of the key.
LEMMA UnlinkSeen ==
    ASSUME TypeOK, NEW r \in Request, UnlinkEntry(r)
    PROVE  /\ HeldAt(key[r]) # "absent"
           /\ Entries' = [Entries EXCEPT ![key[r]] = "absent"]
<1>1. key[r] \in Digest /\ tree' = [tree EXCEPT ![key[r]] = "absent"]
  BY DEF UnlinkEntry, EntryAt
<1>2. EntryOf("absent") = "absent" /\ "absent" \in Entry
  BY EntryAssumption DEF EntryOf, Entry
<1>3. Entries' = [Entries EXCEPT ![key[r]] = "absent"]
  BY <1>1, <1>2, NewEntry, Zenon
<1> QED
  BY <1>3, EntryValues DEF UnlinkEntry

\* delete() removes what it finds, reports absence, or stumbles over a directory.
LEMMA StepUnlink ==
    ASSUME CallsInv, TypeOK', NEW r \in Request, UnlinkBlob(r)
    PROVE  PortStep
<1>1. RequestStep(r) /\ UNCHANGED <<op, key>>
  BY DEF RequestStep, Syscall, UnlinkBlob
<1>2. TypeOK /\ CallInv(r)
  BY DEF CallsInv, IInv
<1>3. pc[r] = "unlink" /\ op[r] = "delete" /\ pc'[r] = "done"
  BY <1>2 DEF UnlinkBlob, Return, CallInv, Deleting, TypeOK
<1>4. Stages[r] = "called" /\ Targets[r] = key[r]
  BY <1>1, <1>3, StepSettles, StageValues
<1>5. CASE UnlinkEntry(r) /\ outcome'[r] = "deleted"
  <2>1. Settles(r, "returned", <<"deleted", Targets[r]>>)
    BY <1>1, <1>3, <1>4, <1>5, StepSettles DEF Raised
  <2>2. Contract!Delete(r)
    BY <2>1, <1>2, <1>3, <1>4, <1>5, UnlinkSeen, PortDelete
  <2> QED
    BY <2>2 DEF PortStep, Contract!Next
<1>6. CASE EntryAt(key[r]) = "absent" /\ outcome'[r] = "BlobNotFound" /\ UNCHANGED tree
  <2>1. HeldAt(Targets[r]) = "absent"
    BY <1>2, <1>4, <1>6, EntryValues
  <2>2. Settles(r, "returned", <<"BlobNotFound", Targets[r]>>)
    BY <1>1, <1>3, <1>4, <1>6, StepSettles DEF Raised
  <2>3. Contract!ReportAbsence(r)
    BY <2>1, <2>2, <1>3, <1>4, <1>6, SameEntries, PortReportAbsence
  <2> QED
    BY <2>3 DEF PortStep, Contract!Next
<1>7. CASE outcome'[r] = "OSError" /\ UNCHANGED tree
  <2>1. Settles(r, "returned", <<"OSError", NoKey>>)
    BY <1>1, <1>3, <1>7, StepSettles DEF Raised
  <2>2. Contract!Fail(r)
    BY <2>1, <1>4, <1>7, SameEntries, PortFail
  <2> QED
    BY <2>2 DEF PortStep, Contract!Next
<1> QED
  BY <1>2, <1>5, <1>6, <1>7 DEF UnlinkBlob, UnlinkError, Return, fsVars, TypeOK

\* A syscall fails: put() goes to its cleanup, exists() says no, the others raise.
LEMMA StepFault ==
    ASSUME CallsInv, TypeOK', NEW r \in Request, Fault(r)
    PROVE  PortStep
<1>1. RequestStep(r) /\ UNCHANGED <<op, key, tree>>
  BY DEF RequestStep, Interference, Fault, fsVars
<1>2. TypeOK /\ CallInv(r)
  BY DEF CallsInv, IInv
<1>3. CASE pc[r] \in Spooling
  BY <1>3, StepSpool
<1>4. CASE /\ pc[r] \in Mutating \cup (Harmless \ {"exists"})
           /\ pc'[r] = "done" /\ outcome'[r] = "OSError"
  <2>1. Stages[r] \in {"called", "decided"}
    BY <1>4, PendingStages DEF Stages
  <2>2. Settles(r, "returned", <<"OSError", NoKey>>)
    BY <1>1, <1>4, StepSettles DEF Raised
  <2>3. Contract!Fail(r)
    BY <2>1, <2>2, <1>1, SameEntries, PortFail
  <2> QED
    BY <2>3 DEF PortStep, Contract!Next
<1>5. CASE pc[r] = "exists" /\ pc'[r] = "done" /\ outcome'[r] = "False"
  <2>0. op[r] = "exists"
    BY <1>2, <1>5 DEF CallInv
  <2>1. op[r] = "exists" /\ Stages[r] = "called" /\ Targets[r] = key[r]
    BY <2>0, <1>5, StageValues DEF Stages, Targets
  <2>2. Settles(r, "returned", <<"False", Targets[r]>>)
    BY <2>1, <1>1, <1>5, StepSettles DEF Raised
  <2>3. Contract!Fail(r)
    BY <2>1, <2>2, <1>1, SameEntries, PortDeny
  <2> QED
    BY <2>3 DEF PortStep, Contract!Next
<1> QED
  BY <1>2, <1>3, <1>4, <1>5 DEF Fault, Return, TypeOK

\* A caller goes away; a thread that was to rename or to unlink may still do it.
LEMMA StepCancel ==
    ASSUME CallsInv, TypeOK', NEW r \in Request, Cancel(r)
    PROVE  PortStep
<1>1. RequestStep(r) /\ UNCHANGED <<op, key, tree>>
  BY DEF RequestStep, Interference, Cancel, fsVars
<1>2. TypeOK /\ CallInv(r)
  BY DEF CallsInv, IInv
<1>3. CASE pc[r] \in Spooling
  BY <1>3, StepSpool
<1>4. CASE /\ pc[r] \in Mutating \cup Harmless /\ outcome'[r] = "Cancelled"
           /\ pc'[r] \in {"done", "orphan_mkstemp", "orphan_discard"}
  <2>1. Stages[r] \in {"called", "decided"}
    BY <1>4, PendingStages DEF Stages
  <2>2. Settles(r, "returned", <<"Cancelled", NoKey>>)
    BY <1>1, <1>4, StepSettles DEF Raised
  <2>3. Contract!Abandon(r)
    BY <2>1, <2>2, <1>1, SameEntries, PortAbandon
  <2> QED
    BY <2>3 DEF PortStep, Contract!Next
<1>5. CASE /\ pc[r] \in {"rename", "unlink"} /\ outcome'[r] = "Cancelled"
           /\ pc'[r] \in {"orphan_rename", "orphan_unlink"}
  <2>1. Stages[r] = "called"
    BY <1>1, <1>5, StepSettles, StageValues
  <2>2. op[r] \in {"put", "delete"}
    BY <1>2, <1>5 DEF CallInv, PutSteps, Named, Deleting
  <2>3. Settles(r, "abandoned", <<"Cancelled", NoKey>>)
    BY <1>1, <1>5, StepSettles DEF Raised
  <2>4. Contract!Abandon(r)
    BY <2>1, <2>2, <2>3, <1>1, SameEntries, PortAbandon
  <2> QED
    BY <2>4 DEF PortStep, Contract!Next
<1>6. ASSUME pc[r] \in Mutating
      PROVE  \/ pc[r] \in {"rename", "unlink"} /\ OrphanOf(pc[r]) \in {"orphan_rename", "orphan_unlink"}
             \/ OrphanOf(pc[r]) \in {"orphan_mkstemp", "orphan_discard"}
  BY <1>6 DEF Mutating, OrphanOf
<1> QED
  BY <1>2, <1>3, <1>4, <1>5, <1>6 DEF Cancel, Goto, Return, TypeOK

\* The thread left behind runs or is dropped.
LEMMA StepOrphan ==
    ASSUME CallsInv, TypeOK', NEW r \in Request, OrphanRun(r) \/ OrphanDrop(r)
    PROVE  PortStep
<1>1. RequestStep(r) /\ UNCHANGED <<op, key, outcome>>
  BY DEF RequestStep, Interference, OrphanRun, OrphanDrop
<1>2. TypeOK /\ CallInv(r) /\ TargetInv(r)
  BY DEF CallsInv, IInv
<1>3. pc[r] \in Orphan /\ pc'[r] = "done"
  BY <1>2 DEF OrphanRun, OrphanDrop, Goto, Orphan, TypeOK
<1>4. AnswerOf(r)' = AnswerOf(r)
  BY <1>1, <1>3, AnswerValues, AnswerValuesAfter, StageValues DEF Orphan
<1>5. CASE pc[r] \in {"orphan_mkstemp", "orphan_discard"}
  <2>1. UNCHANGED tree
    BY <1>5 DEF OrphanRun, OrphanDrop, fsVars
  <2>2. StageOf(pc'[r]) = StageOf(pc[r])
    BY <1>3, <1>5, StageValues
  <2> QED
    BY <2>1, <2>2, <1>1, <1>2, <1>4, InvisibleStep
<1>6. CASE pc[r] \in {"orphan_rename", "orphan_unlink"}
  <2>1. UNCHANGED Answers
    BY <1>1, <1>2, <1>4, MappedStep DEF Answers
  <2>2. Stages[r] = "abandoned" /\ Settles(r, "returned", AnswerOf(r)')
    BY <1>1, <1>2, <1>3, <1>6, SettleStep, MappedStep, StageValues
  <2>3. \/ op[r] = "put" /\ \E d \in Digest : Entries' = [Entries EXCEPT ![d] = "blob"]
        \/ op[r] = "delete" /\ Entries' = [Entries EXCEPT ![Targets[r]] = "absent"]
        \/ UNCHANGED Entries
    <3>1. CASE UNCHANGED tree
      BY <3>1, SameEntries
    <3>2. CASE pc[r] = "orphan_rename" /\ Publish(r)
      <4>1. op[r] = "put" /\ key[r] \in Digest
        BY <3>2, <1>2, HashAssumption DEF CallInv, PutSteps, Named, TargetInv, TypeOK
      <4>2. EntryOf(r) = "blob" /\ r \in Entry
        BY EntryAssumption DEF EntryOf, Entry
      <4>3. tree' = [tree EXCEPT ![key[r]] = r]
        BY <3>2 DEF Publish
      <4>4. Entries' = [Entries EXCEPT ![key[r]] = "blob"]
        BY <4>1, <4>2, <4>3, <1>2, NewEntry, Zenon
      <4> QED
        BY <4>1, <4>4
    <3>3. CASE pc[r] = "orphan_unlink" /\ UnlinkEntry(r)
      <4>1. op[r] = "delete"
        BY <3>3, <1>2 DEF CallInv, Deleting
      <4>2. Targets[r] = key[r]
        BY <4>1 DEF Targets
      <4> QED
        BY <4>1, <4>2, <3>3, <1>2, UnlinkSeen
    <3> QED
      BY <3>1, <3>2, <3>3, <1>6 DEF OrphanRun, OrphanDrop, fsVars
  <2>4. Contract!LateEffect(r)
    BY <2>1, <2>2, <2>3, PortLateEffect DEF Settles
  <2> QED
    BY <2>4 DEF PortStep, Contract!Next
<1> QED
  BY <1>3, <1>5, <1>6 DEF Orphan

\* Every step of a call is one of the port's, or invisible.
LEMMA StepRequest ==
    ASSUME CallsInv, TypeOK', NEW r \in Request, RequestStep(r)
    PROVE  PortStep
<1>1. CASE Syscall(r)
  BY <1>1, StepSpool, StepCleanup, StepLstatTarget, StepRename, StepDiscard, StepOpen,
     StepLookup, StepUnlink DEF Syscall
<1>2. CASE CallerStep(r)
  BY <1>2, StepSpool, StepRead DEF CallerStep
<1>3. CASE Interference(r)
  BY <1>3, StepFault, StepCancel, StepOrphan DEF Interference
<1> QED
  BY <1>1, <1>2, <1>3, StepCall DEF RequestStep

-----------------------------------------------------------------------------
(* Steps of the environment *)

\* A process that dies takes down what the port calls pending.
LEMMA DieMapped ==
    ASSUME CallsInv, Die, UNCHANGED <<op, key>>
    PROVE  Contract!Die /\ UNCHANGED <<op, Targets>>
<1>1. TypeOK /\ \A r \in Request : CallInv(r)
  BY DEF CallsInv, IInv
<1>2. ASSUME NEW r \in Request, InFlight(r)
      PROVE  /\ StageOf(pc[r]) \in Contract!Pending
             /\ StageOf(pc'[r]) = "down" /\ AnswerOf(r)' = <<"none", NoKey>>
  <2>1. pc[r] \in Spooling \cup Mutating \cup Harmless
    BY <1>1, <1>2 DEF InFlight, TypeOK
  <2>2. pc'[r] = "dead"
    BY <1>2 DEF Die, InFlight
  <2> QED
    BY <2>1, <2>2, PendingStages, StageValues, AnswerValuesAfter DEF Contract!Pending
<1>3. ASSUME NEW r \in Request, pc[r] \in Orphan
      PROVE  /\ StageOf(pc[r]) \notin Contract!Pending
             /\ StageOf(pc'[r]) = "returned"
             /\ StageOf(pc[r]) \in {"abandoned", "returned"}
             /\ AnswerOf(r)' = AnswerOf(r)
  <2>1. ~InFlight(r)
    BY <1>3 DEF InFlight
  <2>2. pc'[r] = "done" /\ outcome'[r] = outcome[r]
    BY <2>1, <1>3 DEF Die
  <2>3. StageOf(pc[r]) \in {"abandoned", "returned"} /\ StageOf(pc'[r]) = "returned"
    BY <2>2, <1>3, StageValues DEF Orphan
  <2>4. AnswerOf(r)' = AnswerOf(r)
    BY <2>2, <2>3, AnswerValues, AnswerValuesAfter
  <2> QED
    BY <2>3, <2>4 DEF Contract!Pending
<1>4. ASSUME NEW r \in Request, ~InFlight(r), pc[r] \notin Orphan
      PROVE  /\ StageOf(pc[r]) \notin Contract!Pending
             /\ StageOf(pc[r]) # "abandoned"
             /\ StageOf(pc'[r]) = StageOf(pc[r])
             /\ AnswerOf(r)' = AnswerOf(r)
  <2>1. pc'[r] = pc[r] /\ outcome'[r] = outcome[r]
    BY <1>4 DEF Die
  <2>2. pc[r] \in {"idle", "done", "dead"}
    BY <1>4 DEF InFlight, Finished
  <2>3. StageOf(pc[r]) \in {"idle", "returned", "down"}
    BY <2>2, StageValues
  <2>4. AnswerOf(r)' = AnswerOf(r)
    BY <2>1, <2>3, AnswerValues, AnswerValuesAfter
  <2> QED
    BY <2>1, <2>3, <2>4 DEF Contract!Pending
<1>5. Stages' = [r \in Request |-> CASE Stages[r] \in Contract!Pending -> "down"
                                     [] Stages[r] = "abandoned"        -> "returned"
                                     [] OTHER                          -> Stages[r]]
  <2>1. ASSUME NEW r \in Request
        PROVE  StageOf(pc[r])' = CASE StageOf(pc[r]) \in Contract!Pending -> "down"
                                   [] StageOf(pc[r]) = "abandoned"        -> "returned"
                                   [] OTHER                               -> StageOf(pc[r])
    BY <1>2, <1>3, <1>4 DEF Contract!Pending
  <2> QED
    BY <2>1 DEF Stages
<1>6. Answers' = [r \in Request |-> IF Stages[r] \in Contract!Pending THEN <<"none", NoKey>>
                                                                      ELSE Answers[r]]
  <2>1. ASSUME NEW r \in Request
        PROVE  AnswerOf(r)' = IF StageOf(pc[r]) \in Contract!Pending THEN <<"none", NoKey>>
                                                                    ELSE AnswerOf(r)
    BY <1>2, <1>3, <1>4
  <2> QED
    BY <2>1 DEF Stages, Answers
<1>7. Contract!Die
  BY <1>5, <1>6 DEF Stages, Answers, Contract!Die, Contract!NoAnswer
<1> QED
  BY <1>7 DEF Targets

\* A planted entry, a write-back, a kill and a power loss.
LEMMA StepEnvironment ==
    ASSUME CallsInv, TypeOK', Environment
    PROVE  PortStep
<1>1. TypeOK
  BY DEF CallsInv, IInv
<1>2. ASSUME UNCHANGED callVars
      PROVE  UNCHANGED <<op, Targets, Stages, Answers>>
  BY <1>2 DEF callVars, Targets, Stages, Answers, AnswerOf
<1>3. ASSUME NEW d \in Digest, NEW e \in Foreign, Plant(d, e) PROVE PortStep
  <2>1. Entries[d] = "absent"
    BY <1>1, <1>3, EntryValues DEF Plant
  <2>2. EntryOf(e) = "foreign" /\ e \in Entry
    BY EntryAssumption DEF EntryOf, Entry, Foreign
  <2>3. tree' = [tree EXCEPT ![d] = e]
    BY <1>3 DEF Plant
  <2>4. Entries' = [Entries EXCEPT ![d] = "foreign"]
    BY <2>2, <2>3, <1>1, NewEntry, Zenon
  <2>5. Contract!Intrude(d)
    BY <2>1, <2>4, <1>2, <1>3 DEF Plant, Entries, Targets, Stages, Answers, Contract!Intrude
  <2> QED
    BY <2>5 DEF PortStep, Contract!Next
<1>4. ASSUME NEW d \in Digest, Writeback(d) PROVE PortStep
  BY <1>2, <1>4, SameEntries, PortStutter DEF Writeback, Invisible
<1>5. CASE Kill
  <2>1. Contract!Die /\ UNCHANGED <<op, Targets, Entries>>
    BY <1>5, DieMapped, SameEntries DEF Kill, fsVars
  <2>2. Contract!Crash
    BY <2>1 DEF Contract!Crash, Entries, Targets
  <2> QED
    BY <2>2 DEF PortStep, Contract!Next
<1>6. CASE PowerLoss
  <2>1. Contract!Die /\ UNCHANGED <<op, Targets>>
    BY <1>6, DieMapped DEF PowerLoss
  <2>2. Entries' \in [Digest -> {"absent", "blob", "foreign"}]
    BY DEF Entries, EntryOf
  <2>3. Contract!PowerLoss
    BY <2>1, <2>2 DEF Contract!PowerLoss, Entries, Targets
  <2> QED
    BY <2>3 DEF PortStep, Contract!Next
<1> QED
  BY <1>3, <1>4, <1>5, <1>6 DEF Environment

\* Every step of the adapter is a step of the port, or invisible.
LEMMA StepMapped == CallsInv /\ CallsInv' /\ [Next]_vars => PortStep
<1> SUFFICES ASSUME CallsInv, CallsInv', [Next]_vars PROVE PortStep
  OBVIOUS
<1>1. TypeOK'
  BY DEF CallsInv, IInv
<1>2. CASE UNCHANGED vars
  BY <1>2, PortStutter DEF vars, fsVars, callVars, Invisible, Entries, Targets, Stages, Answers,
     AnswerOf
<1>3. ASSUME NEW r \in Request, RequestStep(r) PROVE PortStep
  BY <1>1, <1>3, StepRequest
<1> QED
  BY <1>1, <1>2, <1>3, StepEnvironment DEF Next, RequestStep, Quiescent

\* The filesystem adapter implements the BlobStorage port: put(), get(),
\* exists(), size() and delete() answer as if each had happened at one instant
\* between its call and its return, for any number of concurrent calls and
\* under faults, cancellations, planted entries, kills and power losses.
THEOREM Refinement == Spec => ImplementsContract
<1>1. Spec => []CallsInv
  BY InitCalls, StepCalls, PTL DEF Spec
<1>2. CallsInv /\ CallsInv' /\ [Next]_vars => [Contract!Next]_(Contract!vars)
  BY StepMapped DEF PortStep
<1> QED
  BY <1>1, <1>2, InitMapped, PTL DEF Spec, ImplementsContract, Contract!Spec
=============================================================================
