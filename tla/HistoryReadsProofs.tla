------------------------- MODULE HistoryReadsProofs -------------------------
(***************************************************************************)
(* Proofs about HistoryReads for every set of processes, contents, files and  *)
(* windows and every chunk size.  The reader's steps are steps of             *)
(* SubstrateStore, so its invariants hold here too; on top of them            *)
(*   ReadType   types                                                         *)
(*   Traced     what connects the ids in a reader's hands to its snapshot     *)
(*   Kept       what an export has passed by, it has returned                 *)
(***************************************************************************)
EXTENDS HistoryReads, SubstrateStoreProofs

ReadType ==
  /\ window \in [Process -> SUBSET Contents]
  /\ cursor \in [Process -> SUBSET Nat]
  /\ batch \in [Process -> SUBSET Nat]
  /\ output \in [Process -> SUBSET Contents]
  /\ snapshot \in [Process -> SUBSET [id : Nat, content : Contents]]

(* The ids p holds were issued, and a Term that still has one of them is the  *)
(* one p's first statement found.  Before that statement p holds nothing.     *)
Held(p) == cursor[p] \cup batch[p]
Fresh(p) == pc[p] = "query" => cursor[p] = {} /\ batch[p] = {} /\ output[p] = {}
Traced(p) ==
  /\ \A id \in Held(p) : id <= db.seq
  /\ \A t \in db.terms : t.id \in Held(p) => t \in snapshot[p]
  /\ output[p] \subseteq {t.content : t \in snapshot[p]}

ReadInv == ReadType /\ \A p \in Process : Traced(p) /\ Fresh(p)

(* What the steps of SubstrateStore do to the committed image. *)
StableImage ==
  /\ db'.seq >= db.seq
  /\ \A t \in db'.terms : t.id <= db.seq => t \in db.terms

-----------------------------------------------------------------------------
(* The composition *)

LEMMA ReadStepIsStoreStep == ASSUME [ReadNext]_readerVars PROVE [Next]_vars
<1>1. CASE UNCHANGED readerVars
  BY <1>1 DEF readerVars
<1>2. CASE ReadNext
  <2>1. PICK p \in Process : BeginRequest(p) \/ Retrieve(p) \/ Elsewhere(p)
    BY <1>2 DEF ReadNext
  <2>2. CASE BeginRequest(p)
    BY <2>2 DEF BeginRequest, Next
  <2>3. CASE FetchHistory(p) \/ FetchFirst(p)
    BY <2>3 DEF FetchHistory, FetchFirst, Next, Step, Read
  <2>4. CASE ReadChunk(p)
    BY <2>4 DEF ReadChunk
  <2>5. CASE FetchNext(p)
    BY <2>5 DEF FetchNext, Next, Step, Read
  <2>6. CASE ReadLast(p)
    BY <2>6 DEF ReadLast, Next, Step, Read
  <2>7. CASE Elsewhere(p)
    BY <2>7 DEF Elsewhere, Next, Step
  <2>. QED  BY <2>1, <2>2, <2>3, <2>4, <2>5, <2>6, <2>7 DEF Retrieve
<1>. QED  BY <1>1, <1>2

(* Reading in several statements does nothing to the substrate that           *)
(* SubstrateStore does not: whatever is proved of Spec holds of ReadSpec.     *)
THEOREM ReadsKeepSubstrate == ReadSpec => KeepsSubstrate
<1>1. ReadInit => Init
  BY DEF ReadInit
<1>2. [ReadNext]_readerVars => [Next]_vars
  BY ReadStepIsStoreStep
<1>. QED  BY <1>1, <1>2, PTL DEF ReadSpec, KeepsSubstrate, Spec

-----------------------------------------------------------------------------
(* The invariant *)

LEMMA StoreStepIsStable ==
  ASSUME IInv, IInv', [Next]_vars
  PROVE  StableImage
<1>1. GoodImage(db)
  BY DEF IInv, TypeInv, FileType
<1>2. CASE db' = db
  BY <1>1, <1>2 DEF StableImage, GoodImage, IsImage
<1>3. CASE db' # db
  <2>1. PICK p \in Process : AnyStep(p)
    BY <1>3 DEF Next, AnyStep, vars, fileVars
  <2>2. FileStep(p)
    BY <2>1, StepShape DEF IInv, TypeInv
  <2>3. db' = Image(p)
    BY <1>3, <2>2 DEF FileStep, Share, AwaitReaders, Commit, Rollback, fileVars, Write
  <2>4. GoodWork(Image(p)) /\ GoodImage(Image(p))
    BY GoodImages, ImageType DEF IInv, TypeInv, FileType, DataInv
  <2>. QED  BY <2>3, <2>4, <1>1 DEF GoodWork, Successor, GoodImage, IsImage, StableImage
<1>. QED  BY <1>2, <1>3

(* A reader reads the committed image. *)
LEMMA ReadersSeeFile ==
  ASSUME IInv, NEW p \in Process, pc[p] \in {"query", "cursor", "fetched"}
  PROVE  Image(p) = db
BY DEF IInv, LockInv, HasLocks, WritingStatements, WriterStatements, Image

LEMMA TermsOfFile ==
  ASSUME IInv
  PROVE  db.terms \subseteq [id : Nat, content : Contents]
BY DEF IInv, TypeInv, FileType, GoodImage, IsImage, DataInv, FileData, NoBlank

(* Whoever does not read keeps what a reader relies on. *)
LEMMA TracedKept ==
  ASSUME IInv, IInv', StableImage, NEW p \in Process, ReadType, Traced(p),
         cursor'[p] \cup batch'[p] \subseteq Held(p),
         output'[p] = output[p], snapshot'[p] = snapshot[p]
  PROVE  Traced(p)'
<1>1. /\ db.seq \in Nat /\ db'.seq \in Nat /\ db'.seq >= db.seq
      /\ \A t \in db'.terms : t.id <= db.seq => t \in db.terms
  BY DEF StableImage, IInv, TypeInv, FileType, GoodImage, IsImage
<1>2. \A id \in cursor'[p] \cup batch'[p] : id \in Nat /\ id <= db.seq /\ id \in Held(p)
  BY DEF Traced, Held, ReadType
<1>3. \A id \in Held(p)' : id <= db'.seq
  BY <1>1, <1>2 DEF Held
<1>4. \A t \in db'.terms : t.id \in Held(p)' => t \in snapshot'[p]
  BY <1>1, <1>2 DEF Held, Traced
<1>. QED  BY <1>3, <1>4 DEF Traced

(* Others' variables are their own. *)
OthersUntouched(p) ==
  \A q \in Process \ {p} :
    /\ cursor'[q] = cursor[q] /\ batch'[q] = batch[q]
    /\ output'[q] = output[q] /\ snapshot'[q] = snapshot[q]

-----------------------------------------------------------------------------
(* What the first statement finds *)

LEMMA SelectedTerms ==
  ASSUME IInv, IdInv, NEW p \in Process, pc[p] = "query"
  PROVE  /\ Selected(p) \subseteq db.terms
         /\ Selected(p) \subseteq [id : Nat, content : Contents]
         /\ Ids(Selected(p)) \subseteq Nat
         /\ \A id \in Ids(Selected(p)) : id <= db.seq
         /\ \A t \in db.terms : t.id \in Ids(Selected(p)) => t \in Selected(p)
<1>1. Image(p) = db
  BY ReadersSeeFile
<1>2. Selected(p) \subseteq db.terms
  BY <1>1 DEF Selected
<1>3. \A t, u \in db.terms : t.id = u.id => t = u
  BY DEF IdInv, OneTermPerId
<1>. QED  BY <1>2, <1>3, TermsOfFile DEF Ids, IInv, DataInv, FileData, Numbered

-----------------------------------------------------------------------------
(* The reader's own steps *)

LEMMA DecodedTerms ==
  ASSUME IInv, ReadType, NEW p \in Process, Traced(p), pc[p] \in {"cursor", "fetched"}
  PROVE  /\ Decoded(p) \subseteq {t.content : t \in snapshot[p]}
         /\ Decoded(p) \subseteq Contents
<1>1. Image(p) = db
  BY ReadersSeeFile
<1>2. \A t \in db.terms : t.id \in batch[p] => t \in snapshot[p] /\ t.content \in Contents
  BY TermsOfFile DEF Traced, Held
<1>. QED  BY <1>1, <1>2 DEF Decoded

(* Nobody comes to a statement of a retrieval from another operation. *)
ReadStatements == {"query", "cursor", "fetched"}

LEMMA OnlyReadsRead ==
  ASSUME LocalType, NEW p \in Process, Native(p) \/ Django(p) \/ Abort(p) \/ Crash(p)
  PROVE  pc'[p] \notin ReadStatements
<1>1. ASSUME NEW next, Goto(p, next), next \notin ReadStatements PROVE pc'[p] \notin ReadStatements
  BY <1>1 DEF LocalType, Goto
<1>2. ASSUME NEW answer, Finish(p, answer) PROVE pc'[p] \notin ReadStatements
  BY <1>2 DEF LocalType, Finish, ReadStatements
<1>3. ASSUME NEW id, RowResolved(p, id) PROVE pc'[p] \notin ReadStatements
  BY <1>3 DEF LocalType, RowResolved, ReadStatements
<1>4. CASE Fail(p) \/ Abort(p) \/ Crash(p)
  BY <1>4, <1>2 DEF Fail, Abort, Crash
<1>5. CASE Native(p)
  <2>1. CASE NativeInsertTerm(p)
    BY <2>1 DEF LocalType, NativeInsertTerm, ReadStatements
  <2>. QED
    BY <1>5, <1>1, <1>2, <1>4, <2>1
    DEF Native, NativeOpen, NativeBegin, NativeResolveSymbols, NativeMatch, NativeMiss,
        NativeInsertRelations, NativeCommit, WriteOrFail, ReadStatements
<1>6. CASE Django(p)
  <2>1. CASE InsertTerm(p) /\ ~Fail(p)
    BY <2>1 DEF LocalType, InsertTerm, ReadStatements
  <2>2. CASE CountTerms(p)
    BY <2>2 DEF LocalType, CountTerms, ReadStatements
  <2>3. CASE AtomicCommit(p)
    BY <2>3, <1>2 DEF AtomicCommit, localVars, ReadStatements
  <2>4. CASE ImportCheck(p) \/ SelectSymbols(p) \/ InsertSymbols(p)
    BY <2>4, <1>1, <1>4 DEF ImportCheck, SelectSymbols, InsertSymbols, WriteOrFail, ReadStatements
  <2>5. CASE FindExact(p) \/ InsertRelations(p)
    BY <2>5, <1>1, <1>3 DEF FindExact, InsertRelations, ReadStatements
  <2>6. CASE DeleteTerms(p) \/ DeleteOrphans(p)
    BY <2>6, <1>1, <1>4 DEF DeleteTerms, DeleteOrphans, WriteOrFail, ReadStatements
  <2>7. CASE TimeOut(p)
    BY <2>7, <1>4 DEF TimeOut
  <2>. QED  BY <1>6, <1>4, <2>1, <2>2, <2>3, <2>4, <2>5, <2>6, <2>7 DEF Django
<1>. QED  BY <1>4, <1>5, <1>6

(* Only a new request leads to a first statement. *)
LEMMA QueryIsFirst ==
  ASSUME LocalType, NEW p \in Process, Step(p) \/ Abort(p) \/ Crash(p)
  PROVE  pc'[p] # "query"
<1>1. CASE Read(p)
  BY <1>1
  DEF LocalType, Goto, Finish, Read, ReadAll, OpenCursor, CloseCursor, FinishRead
<1>. QED  BY <1>1, OnlyReadsRead DEF Step, ReadStatements

(* A request starts with nothing in its hands. *)
LEMMA TracedEmpty ==
  ASSUME NEW p \in Process, cursor'[p] = {}, batch'[p] = {}, output'[p] = {}
  PROVE  Traced(p)' /\ Fresh(p)'
BY DEF Traced, Held, Fresh

LEMMA BeginTraced ==
  ASSUME ReadType, NEW p \in Process, BeginRequest(p)
  PROVE  ReadType' /\ Traced(p)' /\ Fresh(p)' /\ OthersUntouched(p)
<1>1. ReadType'
  BY WindowsSelectContents DEF BeginRequest, ReadType
<1>2. Traced(p)' /\ Fresh(p)'
  BY TracedEmpty DEF BeginRequest, ReadType
<1>. QED  BY <1>1, <1>2 DEF BeginRequest, ReadType, OthersUntouched

(* The first statement: what is fetched and what the cursor still has were    *)
(* both selected.                                                             *)
LEMMA FirstTraced ==
  ASSUME IInv, IdInv, ReadType, NEW p \in Process, Traced(p), Fresh(p),
         FetchHistory(p) \/ FetchFirst(p)
  PROVE  ReadType' /\ Traced(p)' /\ OthersUntouched(p)
<1> DEFINE ids == Ids(Selected(p))
<1>1. pc[p] = "query" /\ db' = db
  BY DEF FetchHistory, FetchFirst, ReadAll, OpenCursor, Share, fileVars
<1>2. /\ \/ cursor' = cursor /\ batch' = [batch EXCEPT ![p] = ids]
         \/ \E chunk \in SUBSET ids : /\ batch' = [batch EXCEPT ![p] = chunk]
                                      /\ cursor' = [cursor EXCEPT ![p] = ids \ chunk]
      /\ snapshot' = [snapshot EXCEPT ![p] = Selected(p)]
      /\ window' = window /\ output' = output
  BY DEF FetchHistory, FetchFirst
<1>3. ids \subseteq Nat /\ Selected(p) \subseteq [id : Nat, content : Contents]
  BY <1>1, SelectedTerms
<1>4. ReadType'
  <2>1. CASE cursor' = cursor /\ batch' = [batch EXCEPT ![p] = ids]
    BY <1>2, <1>3, <2>1 DEF ReadType
  <2>2. ASSUME NEW chunk \in SUBSET ids, batch' = [batch EXCEPT ![p] = chunk],
               cursor' = [cursor EXCEPT ![p] = ids \ chunk]
        PROVE  ReadType'
    BY <1>2, <1>3, <2>2 DEF ReadType
  <2>. QED  BY <1>2, <2>1, <2>2
<1>5. cursor'[p] \cup batch'[p] \subseteq ids
  BY <1>1, <1>2 DEF ReadType, Fresh
<1>6. snapshot'[p] = Selected(p) /\ output'[p] = {}
  BY <1>1, <1>2 DEF ReadType, Fresh
<1>7. Traced(p)'
  BY <1>1, <1>5, <1>6, SelectedTerms DEF Traced, Held
<1>8. OthersUntouched(p)
  BY <1>2 DEF ReadType, OthersUntouched
<1>. QED  BY <1>4, <1>7, <1>8

(* A chunk, or the rest, is decoded. *)
LEMMA DecodingTraced ==
  ASSUME IInv, ReadType, NEW p \in Process, Traced(p), ReadChunk(p) \/ ReadLast(p)
  PROVE  ReadType' /\ Traced(p)' /\ OthersUntouched(p)
<1>1. pc[p] \in {"cursor", "fetched"} /\ db' = db
  BY DEF ReadChunk, ReadLast, FinishRead, vars, fileVars
<1>2. /\ output' = [output EXCEPT ![p] = @ \cup Decoded(p)]
      /\ batch' = [batch EXCEPT ![p] = {}]
      /\ window' = window /\ cursor' = cursor /\ snapshot' = snapshot
  BY DEF ReadChunk, ReadLast
<1>3. Decoded(p) \subseteq {t.content : t \in snapshot[p]} /\ Decoded(p) \subseteq Contents
  BY <1>1, DecodedTerms
<1>4. ReadType'
  BY <1>2, <1>3 DEF ReadType
<1>5. /\ output'[p] = output[p] \cup Decoded(p)
      /\ cursor'[p] \cup batch'[p] \subseteq Held(p)
      /\ snapshot'[p] = snapshot[p]
  BY <1>2 DEF ReadType, Held
<1>6. Traced(p)'
  BY <1>1, <1>3, <1>5 DEF Traced, Held
<1>7. OthersUntouched(p)
  BY <1>2 DEF ReadType, OthersUntouched
<1>. QED  BY <1>4, <1>6, <1>7

LEMMA NextChunkTraced ==
  ASSUME IInv, IInv', StableImage, ReadType, NEW p \in Process, Traced(p), FetchNext(p)
  PROVE  ReadType' /\ Traced(p)' /\ OthersUntouched(p)
<1>1. PICK chunk \in SUBSET cursor[p] : /\ batch' = [batch EXCEPT ![p] = chunk]
                                        /\ cursor' = [cursor EXCEPT ![p] = @ \ chunk]
  BY DEF FetchNext
<1>2. window' = window /\ output' = output /\ snapshot' = snapshot
  BY DEF FetchNext
<1>3. ReadType' /\ OthersUntouched(p)
  BY <1>1, <1>2 DEF ReadType, OthersUntouched
<1>4. cursor'[p] \cup batch'[p] \subseteq Held(p)
  BY <1>1 DEF ReadType, Held
<1>. QED  BY <1>2, <1>3, <1>4, TracedKept

LEMMA ReadInvNext ==
  ASSUME IInv, IInv', IdInv, ReadInv, [ReadNext]_readerVars
  PROVE  ReadInv'
<1>1. StableImage
  BY ReadStepIsStoreStep, StoreStepIsStable
<1>2. ASSUME NEW p \in Process, OthersUntouched(p), NEW q \in Process \ {p}, pc'[q] = pc[q]
      PROVE  Traced(q)' /\ Fresh(q)'
  <2>1. Traced(q) /\ Fresh(q) /\ ReadType
    BY DEF ReadInv
  <2>2. Traced(q)'
    BY <1>1, <1>2, <2>1, TracedKept DEF OthersUntouched, Held
  <2>3. Fresh(q)'
    BY <1>2, <2>1 DEF OthersUntouched, Fresh
  <2>. QED  BY <2>2, <2>3
<1>3. ASSUME NEW p \in Process, UNCHANGED readVars PROVE ReadType' /\ Traced(p)'
  <2>1. ReadType /\ Traced(p)
    BY DEF ReadInv
  <2>2. ReadType' /\ Traced(p)'
    BY <1>1, <1>3, <2>1, TracedKept DEF readVars, ReadType, Held
  <2>. QED  BY <2>2
<1>4. CASE UNCHANGED readerVars
  <2>1. UNCHANGED readVars /\ UNCHANGED pc
    BY <1>4 DEF readerVars, vars, localVars
  <2>2. ReadType'
    BY <2>1 DEF readVars, ReadInv, ReadType
  <2>3. ASSUME NEW p \in Process PROVE Traced(p)' /\ Fresh(p)'
    BY <1>3, <2>1 DEF readVars, ReadInv, Fresh
  <2>. QED  BY <2>2, <2>3 DEF ReadInv
<1>5. ASSUME NEW p \in Process, BeginRequest(p) \/ Retrieve(p) \/ Elsewhere(p)
      PROVE  ReadInv'
  <2>a. ReadType /\ Traced(p) /\ Fresh(p) /\ LocalType
    BY DEF ReadInv, IInv, TypeInv
  <2>1. \A q \in Process \ {p} : pc'[q] = pc[q]
    <3>1. CASE UNCHANGED vars
      BY <3>1 DEF vars, localVars
    <3>2. CASE AnyStep(p)
      BY <2>a, <3>2, StepShape DEF OthersKeep
    <3>. QED
      BY <1>5, <3>1, <3>2
      DEF BeginRequest, Retrieve, Elsewhere, FetchHistory, FetchFirst, ReadChunk, FetchNext,
          ReadLast, AnyStep, Step, Read
  <2>2. ReadType' /\ Traced(p)' /\ OthersUntouched(p)
    <3>1. CASE Elsewhere(p)
      BY <1>3, <3>1 DEF Elsewhere, readVars, OthersUntouched
    <3>. QED
      BY <1>1, <1>5, <2>a, <3>1, BeginTraced, FirstTraced, DecodingTraced, NextChunkTraced
      DEF Retrieve
  <2>3. Fresh(p)'
    <3>1. CASE BeginRequest(p)
      BY <2>a, <3>1, BeginTraced
    <3>2. CASE Step(p) \/ Abort(p) \/ Crash(p)
      BY <2>a, <3>2, QueryIsFirst DEF Fresh
    <3>3. CASE UNCHANGED vars /\ pc[p] = "cursor"
      BY <3>3 DEF vars, localVars, Fresh
    <3>. QED
      BY <1>5, <3>1, <3>2, <3>3
      DEF Retrieve, Elsewhere, FetchHistory, FetchFirst, ReadChunk, FetchNext, ReadLast,
          Step, Read
  <2>. QED  BY <1>2, <2>1, <2>2, <2>3 DEF ReadInv
<1>. QED  BY <1>4, <1>5 DEF ReadNext

LEMMA ReadInvInit == ReadInit => ReadInv
<1> SUFFICES ASSUME ReadInit PROVE ReadInv
  OBVIOUS
<1>1. ReadType
  BY DEF ReadInit, ReadType
<1>2. ASSUME NEW p \in Process PROVE Traced(p) /\ Fresh(p)
  BY DEF ReadInit, Traced, Fresh, Held
<1>. QED  BY <1>1, <1>2 DEF ReadInv

-----------------------------------------------------------------------------
(* Chunks *)

(* What an export found and no longer holds it has returned, and as long as its *)
(* cursor is open all that it found is in the file.                            *)
Kept(p) ==
  /\ pc[p] \in {"cursor", "fetched"} =>
       \A t \in snapshot[p] : t.id \notin Held(p) => t.content \in output[p]
  /\ pc[p] = "cursor" => snapshot[p] \subseteq db.terms

LEMMA KeptFirst ==
  ASSUME IInv, IdInv, ReadType, NEW p \in Process, FetchHistory(p) \/ FetchFirst(p)
  PROVE  Kept(p)'
<1>1. pc[p] = "query" /\ db' = db /\ pc'[p] \in {"cursor", "fetched"}
  BY DEF FetchHistory, FetchFirst, ReadAll, OpenCursor, Share, fileVars, Goto, IInv, TypeInv, LocalType
<1>2. snapshot'[p] = Selected(p) /\ Ids(Selected(p)) \subseteq cursor'[p] \cup batch'[p]
  BY DEF FetchHistory, FetchFirst, ReadType
<1>3. Selected(p) \subseteq db.terms
  BY <1>1, SelectedTerms
<1>4. \A t \in snapshot'[p] : t.id \in cursor'[p] \cup batch'[p]
  BY <1>2 DEF Ids
<1>. QED  BY <1>1, <1>2, <1>3, <1>4 DEF Kept, Held

LEMMA KeptChunk ==
  ASSUME IInv, ReadType, NEW p \in Process, Kept(p), ReadChunk(p)
  PROVE  Kept(p)'
<1>1. pc[p] = "cursor" /\ pc' = pc /\ db' = db /\ Image(p) = db
  BY ReadersSeeFile DEF ReadChunk, vars, fileVars, localVars
<1>2. /\ output'[p] = output[p] \cup Decoded(p) /\ batch'[p] = {}
      /\ cursor'[p] = cursor[p] /\ snapshot'[p] = snapshot[p]
  BY DEF ReadChunk, ReadType
<1>3. \A t \in snapshot[p] : t.id \in batch[p] => t.content \in Decoded(p)
  BY <1>1 DEF Kept, Decoded
<1>. QED  BY <1>1, <1>2, <1>3 DEF Kept, Held

LEMMA KeptNext ==
  ASSUME IInv, ReadType, NEW p \in Process, Kept(p), FetchNext(p)
  PROVE  Kept(p)'
<1>1. pc[p] = "cursor" /\ batch[p] = {} /\ output' = output /\ snapshot' = snapshot
  BY DEF FetchNext
<1>2. cursor'[p] \cup batch'[p] = Held(p)
  <2>1. PICK chunk \in SUBSET cursor[p] : /\ batch' = [batch EXCEPT ![p] = chunk]
                                          /\ cursor' = [cursor EXCEPT ![p] = @ \ chunk]
    BY DEF FetchNext
  <2>2. cursor'[p] = cursor[p] \ chunk /\ batch'[p] = chunk
    BY <2>1 DEF ReadType
  <2>. QED  BY <1>1, <2>2 DEF Held
<1>3. pc'[p] = "fetched" \/ (pc' = pc /\ db' = db)
  BY DEF FetchNext, CloseCursor, Goto, vars, fileVars, localVars, IInv, TypeInv, LocalType
<1>. QED  BY <1>1, <1>2, <1>3 DEF Kept, Held

(* An open cursor holds SHARED: nobody commits meanwhile. *)
LEMMA KeptByOthers ==
  ASSUME IInv, NEW p \in Process, AnyStep(p) \/ UNCHANGED vars, OthersUntouched(p),
         NEW q \in Process \ {p}, Kept(q)
  PROVE  Kept(q)'
<1>1. CASE UNCHANGED vars
  BY <1>1 DEF vars, fileVars, localVars, OthersUntouched, Kept, Held
<1>2. CASE AnyStep(p)
  <2>1. FileStep(p) /\ pc'[q] = pc[q]
    BY <1>2, StepShape DEF IInv, TypeInv, OthersKeep
  <2>2. pc[q] = "cursor" => db' = db
    BY <2>1, RepeatableRead DEF IInv, TypeInv, LockInv, HasLocks, SharedStatements
  <2>. QED  BY <2>1, <2>2 DEF OthersUntouched, Kept, Held
<1>. QED  BY <1>1, <1>2

LEMMA KeptNextStep ==
  ASSUME IInv, IInv', IdInv, ReadInv, \A p \in Process : Kept(p), [ReadNext]_readerVars
  PROVE  \A p \in Process : Kept(p)'
<1>a. ReadType /\ LocalType
  BY DEF ReadInv, IInv, TypeInv
<1>1. CASE UNCHANGED readerVars
  BY <1>1 DEF readerVars, readVars, vars, fileVars, localVars, Kept, Held
<1>2. ASSUME NEW p \in Process, BeginRequest(p) \/ Retrieve(p) \/ Elsewhere(p)
      PROVE  \A q \in Process : Kept(q)'
  <2>1. AnyStep(p) \/ UNCHANGED vars
    BY <1>2 DEF BeginRequest, Retrieve, Elsewhere, FetchHistory, FetchFirst, ReadChunk, FetchNext,
                ReadLast, AnyStep, Step, Read
  <2>2. OthersUntouched(p)
    BY <1>2, <1>a
    DEF BeginRequest, Retrieve, Elsewhere, FetchHistory, FetchFirst, ReadChunk, FetchNext, ReadLast,
        readVars, ReadType, OthersUntouched
  <2>3. Kept(p)'
    <3>1. CASE BeginRequest(p)
      <4>1. PICK j \in Jobs : pc' = [pc EXCEPT ![p] = FirstStatement(j.task)]
        BY <3>1 DEF BeginRequest, Start
      <4>2. FirstStatement(j.task) \notin {"cursor", "fetched"}
        BY DEF Jobs, FirstStatement
      <4>. QED  BY <1>a, <4>1, <4>2 DEF LocalType, Kept
    <3>2. CASE ReadLast(p)
      BY <1>a, <3>2 DEF ReadLast, FinishRead, Finish, LocalType, Kept
    <3>3. CASE Elsewhere(p)
      BY <1>a, <3>3, OnlyReadsRead DEF Elsewhere, ReadStatements, Kept
    <3>. QED
      BY <1>2, <1>a, <3>1, <3>2, <3>3, KeptFirst, KeptChunk, KeptNext DEF Retrieve
  <2>. QED  BY <2>1, <2>2, <2>3, KeptByOthers
<1>. QED  BY <1>1, <1>2 DEF ReadNext

-----------------------------------------------------------------------------
(* Results *)

LEMMA ReadInvariance == ReadSpec => []ReadInv
<1>1. ReadSpec => []IInv
  BY ReadsKeepSubstrate, Invariance, PTL DEF KeepsSubstrate
<1>2. ReadSpec => []IdInv
  BY ReadsKeepSubstrate, IdInvariance, PTL DEF KeepsSubstrate
<1>3. IInv /\ IInv' /\ IdInv /\ ReadInv /\ [ReadNext]_readerVars => ReadInv'
  BY ReadInvNext
<1>. QED  BY <1>1, <1>2, <1>3, ReadInvInit, PTL DEF ReadSpec

(* Whatever a reader carries from one statement to the next has its type. *)
THEOREM ReadTypes == ReadSpec => []ReadTypeOK
<1>1. ReadInv => ReadTypeOK
  BY DEF ReadInv, ReadType, ReadTypeOK
<1>. QED  BY <1>1, ReadInvariance, PTL

(* History and export return nothing but what their first statement found,    *)
(* with no transaction around their statements, for any number of workers,    *)
(* resets, imports and recordings in between.                                 *)
THEOREM SnapshotReads == ReadSpec => []ReadsWithinSnapshot
<1>1. ReadInv => ReadsWithinSnapshot
  BY DEF ReadInv, Traced, ReadsWithinSnapshot
<1>. QED  BY <1>1, ReadInvariance, PTL

(* An export returns every Term that it has fetched and read while its cursor   *)
(* was open, for every chunk size: no reset gets between two of its chunks.     *)
THEOREM ExportsAreGapless == ReadSpec => []ExportKeepsFullChunks
<1> DEFINE AllKept == \A p \in Process : Kept(p)
<1>1. ReadInit => AllKept
  BY DEF ReadInit, Init, Kept
<1>2. IInv /\ IInv' /\ IdInv /\ ReadInv /\ AllKept /\ [ReadNext]_readerVars => AllKept'
  BY KeptNextStep
<1>3. AllKept => ExportKeepsFullChunks
  BY DEF Kept, Held, ExportKeepsFullChunks
<1>4. ReadSpec => []IInv /\ []IdInv
  BY ReadsKeepSubstrate, Invariance, IdInvariance, PTL DEF KeepsSubstrate
<1>. QED  BY <1>1, <1>2, <1>3, <1>4, ReadInvariance, PTL DEF ReadSpec
=============================================================================
