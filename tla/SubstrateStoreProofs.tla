------------------------ MODULE SubstrateStoreProofs ------------------------
(***************************************************************************)
(* Proofs about SubstrateStore for every set of processes, observations and   *)
(* files.  The inductive invariant comes in three layers, each proved with    *)
(* the help of the one before:                                               *)
(*   TypeInv   types; a statement that works on a row has a row; the tables   *)
(*             are finite                                                     *)
(*   LockInv   which statements run under which lock                          *)
(*   DataInv   what the file, and a process under a lock, may rely on         *)
(***************************************************************************)
EXTENDS SubstrateStore, FiniteSetTheorems, SequenceTheorems, TLAPS

-----------------------------------------------------------------------------
(* The invariants *)

RowStatements ==
  {"open", "begin", "symbols", "find", "newterm", "fill", "end",
   "select", "insert", "lookup", "term", "relations"}

(* Statements that run only with RESERVED, and with at least SHARED. *)
WriterStatements == {"symbols", "find", "newterm", "fill", "end", "relations"}
SharedStatements ==
  WriterStatements \cup {"insert", "lookup", "term", "delete", "orphans", "commit", "cursor"}

(* Statements at which a writer may find itself. *)
WritingStatements ==
  WriterStatements \cup {"select", "insert", "lookup", "term", "orphans", "commit"}

GoodImage(image) == IsImage(image) /\ IsFiniteSet(image.terms)

FileType ==
  /\ GoodImage(db) /\ GoodImage(work)
  /\ shared \subseteq Process
  /\ writer \in Process \cup {None}
  /\ pending \in BOOLEAN

LocalType ==
  /\ pc \in [Process -> Statements]
  /\ job \in [Process -> Jobs \cup {NoJob}]
  /\ rest \in [Process -> Seq(Contents)]
  /\ value \in [Process -> Nat]
  /\ reply \in [Process -> [status : {"none", "ok", "failed"}, value : Nat]]
  /\ \A p \in Process : pc[p] \in RowStatements => rest[p] # <<>>

TypeInv == FileType /\ LocalType

FileLocks ==
  /\ writer # None => writer \in shared
  /\ writer = None => work = db

HasLocks(p) ==
  /\ pc[p] \in WriterStatements => writer = p
  /\ pc[p] \in SharedStatements => p \in shared
  /\ writer = p => pc[p] \in WritingStatements

LockInv == FileLocks /\ \A p \in Process : HasLocks(p)

(* No content twice; every Term's Symbols stored; ids at most the highest     *)
(* issued; no Term without Symbols; and, for an uncommitted image, no id of   *)
(* the committed one given to anything else.                                  *)
Distinct(image) == \A t, u \in image.terms : t.content = u.content => t = u
Sound(image) == \A t \in image.terms : Atoms(t.content) \subseteq image.symbols
Numbered(image) == \A t \in image.terms : t.id <= image.seq
NoBlank(image) == \A t \in image.terms : t.content # <<>>
Absent(image, content) == \A t \in image.terms : t.content # content
Successor(image) ==
  /\ \A t \in image.terms : t \in db.terms \/ t.id > db.seq
  /\ image.seq >= db.seq

GoodWork(image) ==
  Distinct(image) /\ Sound(image) /\ Numbered(image) /\ Successor(image)

FileData ==
  /\ Distinct(db) /\ Sound(db) /\ Numbered(db) /\ NoBlank(db)
  /\ Orphans(db) = {}
  /\ GoodWork(work)

(* The Symbols that p may have stored ahead of, or left behind by, its Terms. *)
Loose(p) ==
  IF pc[p] \in {"find", "newterm", "fill", "term", "relations"} THEN Atoms(Row(p))
  ELSE IF pc[p] = "orphans" THEN Image(p).symbols
  ELSE {}

HasData(p) ==
  /\ pc[p] = "insert" => ~(Atoms(Row(p)) \subseteq Image(p).symbols)
  /\ pc[p] \in {"find", "newterm", "fill", "lookup", "term", "relations"} =>
       Atoms(Row(p)) \subseteq Image(p).symbols
  /\ pc[p] \in {"newterm", "term", "fill", "relations"} => Absent(Image(p), Row(p))
  /\ pc[p] \notin {"fill", "relations"} => NoBlank(Image(p))
  /\ pc[p] \in {"fill", "relations"} =>
       /\ value[p] > db.seq /\ value[p] <= Image(p).seq
       /\ \A t \in Image(p).terms : t.content = <<>> <=> t.id = value[p]
  /\ Orphans(Image(p)) \subseteq Loose(p)

DataInv == FileData /\ \A p \in Process : HasData(p)

IInv == TypeInv /\ LockInv /\ DataInv

-----------------------------------------------------------------------------
(* What each helper does to the parts of an image, and that it leaves one.  *)

LEMMA NewIdType ==
  ASSUME NEW image, GoodImage(image)
  PROVE  NewId(image) \in Nat
BY DEF GoodImage, IsImage, NewId

LEMMA SymbolsAdded ==
  ASSUME NEW image, GoodImage(image), NEW content \in Contents
  PROVE  /\ GoodImage(WithSymbols(image, content))
         /\ WithSymbols(image, content).symbols = image.symbols \cup Atoms(content)
         /\ WithSymbols(image, content).terms = image.terms
         /\ WithSymbols(image, content).seq = image.seq
<1>1. Atoms(content) \subseteq Blobs
  BY DEF Blobs
<1>. QED  BY <1>1 DEF WithSymbols, GoodImage, IsImage

LEMMA TermAdded ==
  ASSUME NEW image, GoodImage(image)
  PROVE  /\ GoodImage(WithTerm(image))
         /\ WithTerm(image).symbols = image.symbols
         /\ WithTerm(image).terms = image.terms \cup {[id |-> NewId(image), content |-> <<>>]}
         /\ WithTerm(image).seq = NewId(image)
<1> DEFINE row == [id |-> NewId(image), content |-> <<>>]
<1>1. row \in [id : Nat, content : Contents \cup {<<>>}]
  BY NewIdType
<1>2. IsFiniteSet(image.terms \cup {row})
  BY FS_AddElement DEF GoodImage
<1>. QED  BY <1>1, <1>2, NewIdType DEF WithTerm, GoodImage, IsImage

LEMMA RelationsAdded ==
  ASSUME NEW image, GoodImage(image), NEW content \in Contents, NEW id \in Nat
  PROVE  /\ GoodImage(WithRelations(image, id, content))
         /\ WithRelations(image, id, content).symbols = image.symbols
         /\ WithRelations(image, id, content).terms =
              {t \in image.terms : t.id # id} \cup {[id |-> id, content |-> content]}
         /\ WithRelations(image, id, content).seq = image.seq
<1> DEFINE others == {t \in image.terms : t.id # id}
           row == [id |-> id, content |-> content]
<1>1. row \in [id : Nat, content : Contents \cup {<<>>}]
  OBVIOUS
<1>2. IsFiniteSet(others \cup {row})
  <2>1. IsFiniteSet(others)
    BY FS_Subset DEF GoodImage
  <2>. QED  BY <2>1, FS_AddElement
<1>. QED  BY <1>1, <1>2 DEF WithRelations, GoodImage, IsImage

LEMMA TermsRemoved ==
  ASSUME NEW image, GoodImage(image)
  PROVE  /\ GoodImage(WithoutTerms(image))
         /\ WithoutTerms(image).symbols = image.symbols
         /\ WithoutTerms(image).terms = {}
         /\ WithoutTerms(image).seq = image.seq
BY FS_EmptySet DEF WithoutTerms, GoodImage, IsImage

LEMMA OrphansRemoved ==
  ASSUME NEW image, GoodImage(image)
  PROVE  /\ GoodImage(WithoutOrphans(image))
         /\ WithoutOrphans(image).symbols = image.symbols \ Orphans(image)
         /\ WithoutOrphans(image).terms = image.terms
         /\ WithoutOrphans(image).seq = image.seq
BY DEF WithoutOrphans, GoodImage, IsImage

-----------------------------------------------------------------------------
(* Layer 1: types *)

LEMMA ImageType ==
  ASSUME FileType, NEW p \in Process
  PROVE  GoodImage(Image(p))
BY DEF FileType, Image

LEMMA RowType ==
  ASSUME LocalType, NEW p \in Process, pc[p] \in RowStatements
  PROVE  Row(p) \in Contents /\ rest[p] # <<>>
<1>1. rest[p] \in Seq(Contents) /\ rest[p] # <<>>
  BY DEF LocalType
<1>. QED  BY <1>1 DEF Row

LEMMA FileTypeKept ==
  ASSUME FileType, NEW p \in Process,
         Share(p) \/ AwaitReaders(p) \/ Commit(p) \/ Rollback(p) \/ UNCHANGED fileVars
  PROVE  FileType'
BY DEF FileType, Share, AwaitReaders, Commit, Rollback, Unlock, fileVars, Image

LEMMA FileTypeWrite ==
  ASSUME FileType, NEW p \in Process, NEW image, GoodImage(image), Write(p, image)
  PROVE  FileType'
BY DEF FileType, Write

LEMMA LocalTypeGoto ==
  ASSUME LocalType, NEW p \in Process, NEW next \in Statements,
         next \in RowStatements => rest[p] # <<>>, Goto(p, next)
  PROVE  LocalType'
BY DEF LocalType, Goto

LEMMA LocalTypeFinish ==
  ASSUME LocalType, NEW p \in Process,
         NEW answer \in [status : {"none", "ok", "failed"}, value : Nat],
         Finish(p, answer)
  PROVE  LocalType'
BY DEF LocalType, Finish, Statements, RowStatements

LEMMA TypeInvFail ==
  ASSUME TypeInv, NEW p \in Process, Fail(p)
  PROVE  TypeInv'
<1>1. FileType'
  BY FileTypeKept DEF TypeInv, Fail
<1>2. Failed \in [status : {"none", "ok", "failed"}, value : Nat]
  BY DEF Failed
<1>3. LocalType'
  BY <1>2, LocalTypeFinish DEF TypeInv, Fail
<1>. QED  BY <1>1, <1>3 DEF TypeInv

LEMMA TypeInvWriteOrFail ==
  ASSUME TypeInv, NEW p \in Process, NEW image, GoodImage(image), NEW next \in Statements,
         next \in RowStatements => rest[p] # <<>>, WriteOrFail(p, image, next)
  PROVE  TypeInv'
<1>1. CASE Write(p, image) /\ Goto(p, next)
  BY <1>1, FileTypeWrite, LocalTypeGoto DEF TypeInv
<1>2. CASE Fail(p)
  BY <1>2, TypeInvFail
<1>. QED  BY <1>1, <1>2 DEF WriteOrFail

LEMMA TypeInvInit == Init => TypeInv
<1> SUFFICES ASSUME Init PROVE TypeInv
  OBVIOUS
<1>1. GoodImage(EmptyImage)
  BY FS_EmptySet DEF GoodImage, IsImage, EmptyImage
<1>2. FileType
  BY <1>1 DEF FileType, Init, FileInit
<1>3. LocalType
  BY DEF LocalType, Init, Statements, RowStatements, NoReply
<1>. QED  BY <1>2, <1>3 DEF TypeInv

LEMMA JobRowsType ==
  ASSUME NEW j \in Jobs
  PROVE  j.rows \in Seq(Contents)
<1>1. CASE j \in [task : {"native", "record"}, rows : {<<c>> : c \in Contents}]
  <2>1. PICK c \in Contents : j.rows = <<c>>
    BY <1>1
  <2>. QED  BY <2>1
<1>2. CASE j \in [task : {"import"}, rows : Files]
  <2>1. j.rows \in Files
    BY <1>2
  <2>. QED  BY <2>1, FilesHoldContents
<1>3. CASE j \in [task : {"reset", "read"}, rows : {<<>>}]
  <2>1. j.rows = <<>>
    BY <1>3
  <2>. QED  BY <2>1, EmptySeq
<1>. QED  BY <1>1, <1>2, <1>3 DEF Jobs

LEMMA TypeInvStart ==
  ASSUME TypeInv, NEW p \in Process, Start(p)
  PROVE  TypeInv'
<1>1. FileType'
  BY FileTypeKept DEF TypeInv, Start
<1>2. PICK j \in Jobs :
        /\ j.task \in TasksOf(p)
        /\ job' = [job EXCEPT ![p] = j]
        /\ rest' = [rest EXCEPT ![p] = j.rows]
        /\ pc' = [pc EXCEPT ![p] = FirstStatement(j.task)]
  BY DEF Start
<1>3. reply' = [reply EXCEPT ![p] = NoReply] /\ value' = value
  BY DEF Start
<1>4. j.rows \in Seq(Contents)
  BY JobRowsType
<1>5. /\ FirstStatement(j.task) \in Statements
      /\ FirstStatement(j.task) \in RowStatements => j.rows # <<>>
  BY DEF Jobs, FirstStatement, Statements, RowStatements
<1>6. LocalType'
  BY <1>2, <1>3, <1>4, <1>5 DEF TypeInv, LocalType, NoReply
<1>. QED  BY <1>1, <1>6 DEF TypeInv

LEMMA TypeInvNative ==
  ASSUME TypeInv, NEW p \in Process, Native(p)
  PROVE  TypeInv'
<1> USE DEF Statements, RowStatements
<1>a. FileType /\ LocalType
  BY DEF TypeInv
<1>b. GoodImage(Image(p)) /\ GoodImage(db)
  BY <1>a, ImageType DEF FileType
<1>c. value[p] \in Nat /\ reply \in [Process -> [status : {"none", "ok", "failed"}, value : Nat]]
  BY <1>a DEF LocalType
<1>1. CASE NativeOpen(p)
  <2>1. CASE Goto(p, "begin") /\ UNCHANGED fileVars
    BY <1>1, <1>a, <2>1, RowType, FileTypeKept, LocalTypeGoto DEF TypeInv, NativeOpen
  <2>. QED  BY <1>1, <2>1, TypeInvFail DEF NativeOpen
<1>2. CASE NativeBegin(p)
  <2>1. rest[p] # <<>>
    BY <1>2, <1>a, RowType DEF NativeBegin
  <2>. QED  BY <1>2, <1>b, <2>1, TypeInvWriteOrFail DEF NativeBegin
<1>3. CASE NativeResolveSymbols(p)
  <2>1. Row(p) \in Contents /\ rest[p] # <<>>
    BY <1>3, <1>a, RowType DEF NativeResolveSymbols
  <2>2. GoodImage(WithSymbols(Image(p), Row(p)))
    BY <1>b, <2>1, SymbolsAdded
  <2>. QED  BY <1>3, <1>a, <2>1, <2>2, FileTypeWrite, LocalTypeGoto DEF TypeInv, NativeResolveSymbols
<1>4. CASE NativeMatch(p)
  <2>1. PICK t \in Image(p).terms : Commit(p) /\ Finish(p, Ok(t.id))
    BY <1>4 DEF NativeMatch
  <2>2. Ok(t.id) \in [status : {"none", "ok", "failed"}, value : Nat]
    BY <1>b DEF Ok, GoodImage, IsImage
  <2>. QED  BY <1>a, <2>1, <2>2, FileTypeKept, LocalTypeFinish DEF TypeInv
<1>5. CASE NativeMiss(p)
  <2>1. rest[p] # <<>>
    BY <1>5, <1>a, RowType DEF NativeMiss
  <2>. QED  BY <1>5, <1>a, <2>1, FileTypeKept, LocalTypeGoto DEF TypeInv, NativeMiss
<1>6. CASE NativeInsertTerm(p)
  <2>1. GoodImage(WithTerm(Image(p))) /\ NewId(Image(p)) \in Nat
    BY <1>b, TermAdded, NewIdType
  <2>2. rest[p] # <<>>
    BY <1>6, <1>a, RowType DEF NativeInsertTerm
  <2>3. FileType'
    BY <1>6, <1>a, <2>1, FileTypeWrite DEF NativeInsertTerm
  <2>4. LocalType'
    BY <1>6, <1>a, <2>1, <2>2 DEF NativeInsertTerm, LocalType
  <2>. QED  BY <2>3, <2>4 DEF TypeInv
<1>7. CASE NativeInsertRelations(p)
  <2>1. Row(p) \in Contents /\ rest[p] # <<>>
    BY <1>7, <1>a, RowType DEF NativeInsertRelations
  <2>2. GoodImage(WithRelations(Image(p), value[p], Row(p)))
    BY <1>b, <1>c, <2>1, RelationsAdded
  <2>. QED  BY <1>7, <1>a, <2>1, <2>2, FileTypeWrite, LocalTypeGoto DEF TypeInv, NativeInsertRelations
<1>8. CASE NativeCommit(p)
  <2>1. Ok(value[p]) \in [status : {"none", "ok", "failed"}, value : Nat]
    BY <1>c DEF Ok
  <2>2. CASE Commit(p) /\ Finish(p, Ok(value[p]))
    BY <1>a, <2>1, <2>2, FileTypeKept, LocalTypeFinish DEF TypeInv
  <2>. QED  BY <1>8, <2>2, TypeInvFail DEF NativeCommit
<1>. QED  BY <1>1, <1>2, <1>3, <1>4, <1>5, <1>6, <1>7, <1>8 DEF Native

(* A row is done with: its id is kept, the next row is taken up.             *)
LEMMA LocalTypeRowResolved ==
  ASSUME LocalType, NEW p \in Process, rest[p] # <<>>, NEW id \in Nat, RowResolved(p, id)
  PROVE  LocalType'
<1>1. rest[p] \in Seq(Contents) /\ rest[p] # <<>>
  BY DEF LocalType
<1>2. /\ Tail(rest[p]) \in Seq(Contents)
      /\ Len(rest[p]) > 1 => Tail(rest[p]) # <<>>
  <2>1. PICK tail : tail = Tail(rest[p])
    OBVIOUS
  <2>2. tail \in Seq(Contents) /\ Len(tail) = Len(rest[p]) - 1
    BY <1>1, <2>1, HeadTailProperties
  <2>3. Len(rest[p]) \in Nat
    BY <1>1, LenProperties
  <2>4. tail = <<>> => Len(tail) = 0
    OBVIOUS
  <2>. QED  BY <2>1, <2>2, <2>3, <2>4
<1>. QED  BY <1>1, <1>2 DEF LocalType, RowResolved, Statements, RowStatements

LEMMA TypeInvDjango ==
  ASSUME TypeInv, NEW p \in Process, Django(p)
  PROVE  TypeInv'
<1> USE DEF Statements, RowStatements
<1>a. FileType /\ LocalType
  BY DEF TypeInv
<1>b. GoodImage(Image(p)) /\ GoodImage(db)
  BY <1>a, ImageType DEF FileType
<1>c. value[p] \in Nat
  BY <1>a DEF LocalType
<1>1. CASE ImportCheck(p)
  <2>1. CASE Share(p) /\ Goto(p, IF rest[p] = <<>> THEN "commit" ELSE "select")
    BY <1>a, <2>1, FileTypeKept, LocalTypeGoto DEF TypeInv
  <2>. QED  BY <1>1, <2>1, TypeInvFail DEF ImportCheck
<1>2. CASE SelectSymbols(p)
  <2>1. rest[p] # <<>>
    BY <1>2, <1>a, RowType DEF SelectSymbols
  <2>. QED  BY <1>2, <1>a, <2>1, FileTypeKept, LocalTypeGoto DEF TypeInv, SelectSymbols
<1>3. CASE InsertSymbols(p)
  <2>1. Row(p) \in Contents /\ rest[p] # <<>>
    BY <1>3, <1>a, RowType DEF InsertSymbols
  <2>2. GoodImage(WithSymbols(Image(p), Row(p)))
    BY <1>b, <2>1, SymbolsAdded
  <2>. QED  BY <1>3, <2>1, <2>2, TypeInvWriteOrFail DEF InsertSymbols
<1>4. CASE FindExact(p)
  <2>1. rest[p] # <<>>
    BY <1>4, <1>a, RowType DEF FindExact
  <2>2. FileType'
    BY <1>4, <1>a, FileTypeKept DEF FindExact
  <2>3. CASE \E t \in Image(p).terms : RowResolved(p, t.id)
    <3>1. PICK t \in Image(p).terms : RowResolved(p, t.id)
      BY <2>3
    <3>2. t.id \in Nat
      BY <1>b DEF GoodImage, IsImage
    <3>. QED  BY <1>a, <2>1, <2>2, <3>1, <3>2, LocalTypeRowResolved DEF TypeInv
  <2>4. CASE Goto(p, "term")
    BY <1>a, <2>1, <2>2, <2>4, LocalTypeGoto DEF TypeInv
  <2>. QED  BY <1>4, <2>3, <2>4 DEF FindExact
<1>5. CASE InsertTerm(p)
  <2>1. CASE ~Fail(p)
    <3>1. GoodImage(WithTerm(Image(p))) /\ NewId(Image(p)) \in Nat
      BY <1>b, TermAdded, NewIdType
    <3>2. rest[p] # <<>>
      BY <1>5, <1>a, RowType DEF InsertTerm
    <3>3. FileType'
      BY <1>5, <1>a, <2>1, <3>1, FileTypeWrite DEF InsertTerm
    <3>4. LocalType'
      BY <1>5, <1>a, <2>1, <3>1, <3>2 DEF InsertTerm, LocalType
    <3>. QED  BY <3>3, <3>4 DEF TypeInv
  <2>. QED  BY <2>1, TypeInvFail
<1>6. CASE InsertRelations(p)
  <2>1. Row(p) \in Contents /\ rest[p] # <<>>
    BY <1>6, <1>a, RowType DEF InsertRelations
  <2>2. GoodImage(WithRelations(Image(p), value[p], Row(p)))
    BY <1>b, <1>c, <2>1, RelationsAdded
  <2>. QED
    BY <1>6, <1>a, <1>c, <2>1, <2>2, FileTypeWrite, LocalTypeRowResolved DEF TypeInv, InsertRelations
<1>7. CASE CountTerms(p)
  <2>1. Cardinality(Image(p).terms) \in Nat
    BY <1>b, FS_CardinalityType DEF GoodImage
  <2>2. LocalType'
    BY <1>7, <1>a, <2>1 DEF CountTerms, LocalType
  <2>. QED  BY <1>7, <1>a, <2>2, FileTypeKept DEF TypeInv, CountTerms
<1>8. CASE DeleteTerms(p)
  <2>1. CASE Image(p).terms = {}
    BY <1>8, <1>a, <2>1, FileTypeKept, LocalTypeGoto DEF TypeInv, DeleteTerms
  <2>2. CASE Image(p).terms # {}
    BY <1>8, <1>b, <2>2, TermsRemoved, TypeInvWriteOrFail DEF DeleteTerms
  <2>. QED  BY <2>1, <2>2
<1>9. CASE DeleteOrphans(p)
  <2>1. CASE Orphans(Image(p)) = {}
    BY <1>9, <1>a, <2>1, FileTypeKept, LocalTypeGoto DEF TypeInv, DeleteOrphans
  <2>2. CASE Orphans(Image(p)) # {}
    BY <1>9, <1>a, <1>b, <2>2, OrphansRemoved, FileTypeWrite, LocalTypeGoto DEF TypeInv, DeleteOrphans
  <2>. QED  BY <2>1, <2>2
<1>10. CASE AtomicCommit(p)
  <2>1. Answer(p) \in [status : {"none", "ok", "failed"}, value : Nat]
    <3>1. CASE job[p].task = "import"
      <4>1. job[p].rows \in Seq(Contents)
        BY <1>a, <3>1, JobRowsType DEF LocalType, NoJob
      <4>. QED  BY <3>1, <4>1 DEF Answer, Ok
    <3>. QED  BY <1>c, <3>1 DEF Answer, Ok
  <2>2. CASE Commit(p) /\ Finish(p, Answer(p))
    BY <1>a, <2>1, <2>2, FileTypeKept, LocalTypeFinish DEF TypeInv
  <2>3. CASE AwaitReaders(p) /\ UNCHANGED localVars
    BY <1>a, <2>3, FileTypeKept DEF TypeInv, LocalType, localVars
  <2>. QED  BY <1>10, <2>2, <2>3 DEF AtomicCommit
<1>11. CASE TimeOut(p)
  BY <1>11, TypeInvFail DEF TimeOut
<1>. QED
  BY <1>1, <1>2, <1>3, <1>4, <1>5, <1>6, <1>7, <1>8, <1>9, <1>10, <1>11 DEF Django

LEMMA TypeInvRead ==
  ASSUME TypeInv, NEW p \in Process, Read(p)
  PROVE  TypeInv'
<1> USE DEF Statements, RowStatements
<1>a. FileType /\ LocalType
  BY DEF TypeInv
<1>b. FileType'
  BY <1>a, FileTypeKept DEF Read, ReadAll, OpenCursor, CloseCursor, FinishRead
<1>1. CASE ReadAll(p) \/ CloseCursor(p)
  BY <1>1, <1>a, <1>b, LocalTypeGoto DEF TypeInv, ReadAll, CloseCursor
<1>2. CASE OpenCursor(p)
  BY <1>2, <1>a, <1>b, LocalTypeGoto DEF TypeInv, OpenCursor
<1>3. CASE FinishRead(p)
  <2>1. Ok(0) \in [status : {"none", "ok", "failed"}, value : Nat]
    BY DEF Ok
  <2>. QED  BY <1>3, <1>a, <1>b, <2>1, LocalTypeFinish DEF TypeInv, FinishRead
<1>. QED  BY <1>1, <1>2, <1>3 DEF Read

LEMMA TypeInvNext ==
  ASSUME TypeInv, [Next]_vars
  PROVE  TypeInv'
<1>1. CASE UNCHANGED vars
  BY <1>1 DEF TypeInv, FileType, LocalType, vars, fileVars, localVars
<1>2. ASSUME NEW p \in Process, Start(p) \/ Step(p) \/ Abort(p) \/ Crash(p)
      PROVE  TypeInv'
  <2>1. CASE Crash(p)
    <3>1. NoReply \in [status : {"none", "ok", "failed"}, value : Nat]
      BY DEF NoReply
    <3>. QED  BY <2>1, <3>1, FileTypeKept, LocalTypeFinish DEF TypeInv, Crash
  <2>. QED
    BY <1>2, <2>1, TypeInvStart, TypeInvNative, TypeInvDjango, TypeInvRead, TypeInvFail DEF Step, Abort
<1>. QED  BY <1>1, <1>2 DEF Next

(* In every reachable state every variable has its type, and a statement that *)
(* works on a row of a request has one to work on.                            *)
THEOREM TypeInvariant == Spec => []TypeInv
<1>. QED  BY TypeInvInit, TypeInvNext, PTL DEF Spec

(* The type invariant that the runs check (SubstrateStore!TypeOK), for every  *)
(* set of processes, observations and files.                                  *)
THEOREM TypeCorrectness == Spec => []TypeOK
<1>1. TypeInv => TypeOK
  BY DEF TypeInv, FileType, LocalType, GoodImage, TypeOK
<1>. QED  BY <1>1, TypeInvariant, PTL

-----------------------------------------------------------------------------
(* Layer 2: locks *)

(* The shape of a step of p: one operation on the file, and p's own locals. *)
FileStep(p) ==
  \/ Share(p) \/ AwaitReaders(p) \/ Commit(p) \/ Rollback(p) \/ UNCHANGED fileVars
  \/ \E image : Write(p, image)

OthersKeep(p) ==
  \A q \in Process \ {p} : pc'[q] = pc[q] /\ rest'[q] = rest[q] /\ value'[q] = value[q]

AnyStep(p) == Start(p) \/ Step(p) \/ Abort(p) \/ Crash(p)

LEMMA StepShape ==
  ASSUME LocalType, NEW p \in Process, AnyStep(p)
  PROVE  FileStep(p) /\ OthersKeep(p)
<1>1. ASSUME NEW next, Goto(p, next) PROVE OthersKeep(p)
  BY <1>1 DEF LocalType, Goto, OthersKeep
<1>2. ASSUME NEW answer, Finish(p, answer) PROVE OthersKeep(p)
  BY <1>2 DEF LocalType, Finish, OthersKeep
<1>3. ASSUME NEW id, RowResolved(p, id) PROVE OthersKeep(p)
  BY <1>3 DEF LocalType, RowResolved, OthersKeep
<1>4. CASE Start(p)
  BY <1>4 DEF LocalType, Start, FileStep, OthersKeep
<1>5. CASE Fail(p) \/ Abort(p) \/ Crash(p)
  BY <1>5, <1>2 DEF Abort, Crash, Fail, FileStep
<1>6. CASE Native(p)
  <2>1. CASE NativeInsertTerm(p)
    BY <2>1 DEF LocalType, NativeInsertTerm, FileStep, OthersKeep
  <2>. QED
    BY <1>6, <1>1, <1>2, <1>5, <2>1
    DEF Native, NativeOpen, NativeBegin, NativeResolveSymbols, NativeMatch, NativeMiss,
        NativeInsertRelations, NativeCommit, WriteOrFail, FileStep
<1>7. CASE Django(p)
  <2>1. CASE InsertTerm(p) /\ ~Fail(p)
    BY <2>1 DEF LocalType, InsertTerm, FileStep, OthersKeep
  <2>2. CASE CountTerms(p)
    BY <2>2 DEF LocalType, CountTerms, FileStep, OthersKeep
  <2>3. CASE AtomicCommit(p)
    BY <2>3, <1>2 DEF AtomicCommit, localVars, FileStep, OthersKeep
  <2>4. CASE ImportCheck(p) \/ SelectSymbols(p) \/ InsertSymbols(p)
    BY <2>4, <1>1, <1>5 DEF ImportCheck, SelectSymbols, InsertSymbols, WriteOrFail, FileStep
  <2>5. CASE FindExact(p) \/ InsertRelations(p)
    BY <2>5, <1>1, <1>3 DEF FindExact, InsertRelations, FileStep
  <2>6. CASE DeleteTerms(p) \/ DeleteOrphans(p)
    BY <2>6, <1>1, <1>5 DEF DeleteTerms, DeleteOrphans, WriteOrFail, FileStep
  <2>7. CASE TimeOut(p)
    BY <2>7, <1>5 DEF TimeOut
  <2>. QED  BY <1>7, <1>5, <2>1, <2>2, <2>3, <2>4, <2>5, <2>6, <2>7 DEF Django
<1>8. CASE Read(p)
  BY <1>8, <1>1, <1>2 DEF Read, ReadAll, OpenCursor, CloseCursor, FinishRead, FileStep
<1>. QED  BY <1>4, <1>5, <1>6, <1>7, <1>8 DEF AnyStep, Step

(* A process under a lock sees the same image and keeps the same locks until  *)
(* it changes them itself: this is all the isolation the code builds on.      *)
LEMMA RepeatableRead ==
  ASSUME FileType, FileLocks, NEW p \in Process, FileStep(p), NEW q \in Process, q # p
  PROVE  /\ q \in shared' <=> q \in shared
         /\ writer' = q <=> writer = q
         /\ q \in shared => Image(q)' = Image(q) /\ db' = db
<1>1. None \notin Process
  BY NoneIsNoProcess
<1>2. CASE Share(p) \/ AwaitReaders(p) \/ UNCHANGED fileVars
  BY <1>2 DEF Share, AwaitReaders, fileVars, Image
<1>3. CASE Commit(p)
  BY <1>1, <1>3 DEF Commit, CanCommit, Dirty, Unlock, Image
<1>4. CASE Rollback(p)
  BY <1>1, <1>4 DEF Rollback, Unlock, Image
<1>5. CASE \E image : Write(p, image)
  BY <1>1, <1>5 DEF Write, CanReserve, Image
<1>. QED  BY <1>2, <1>3, <1>4, <1>5 DEF FileStep

LEMMA FileLocksKept ==
  ASSUME FileType, FileLocks, NEW p \in Process, FileStep(p)
  PROVE  FileLocks'
<1>1. None \notin Process
  BY NoneIsNoProcess
<1>2. CASE Share(p) \/ AwaitReaders(p) \/ UNCHANGED fileVars
  BY <1>2 DEF FileLocks, Share, AwaitReaders, fileVars
<1>3. CASE Commit(p)
  BY <1>1, <1>3 DEF FileLocks, Commit, Unlock, Image
<1>4. CASE Rollback(p)
  BY <1>1, <1>4 DEF FileLocks, Rollback, Unlock
<1>5. CASE \E image : Write(p, image)
  BY <1>1, <1>5 DEF FileLocks, Write
<1>. QED  BY <1>2, <1>3, <1>4, <1>5 DEF FileStep

LEMMA LocksGivenUp ==
  ASSUME FileType, LocalType, FileLocks, NEW p \in Process, NEW answer,
         Commit(p) \/ Rollback(p), Finish(p, answer)
  PROVE  HasLocks(p)'
<1>1. pc'[p] = "idle" /\ writer' # p
  BY NoneIsNoProcess DEF LocalType, Finish, Commit, Rollback, Unlock
<1>. QED  BY <1>1 DEF HasLocks, WriterStatements, SharedStatements

LEMMA LocksAfterFail ==
  ASSUME FileType, LocalType, FileLocks, NEW p \in Process, Fail(p) \/ Abort(p) \/ Crash(p)
  PROVE  HasLocks(p)'
BY LocksGivenUp DEF Fail, Abort, Crash

LEMMA LocksOfNative ==
  ASSUME FileType, LocalType, LockInv, NEW p \in Process, Native(p)
  PROVE  HasLocks(p)'
<1> USE NoneIsNoProcess DEF WriterStatements, SharedStatements, WritingStatements
<1>a. HasLocks(p) /\ FileLocks
  BY DEF LockInv
<1>b. CASE Fail(p)
  BY <1>a, <1>b, LocksAfterFail
<1>1. CASE NativeOpen(p) \/ NativeMiss(p)
  BY <1>1, <1>a, <1>b DEF NativeOpen, NativeMiss, LocalType, HasLocks, Goto, fileVars
<1>2. CASE NativeBegin(p)
  BY <1>2, <1>b DEF NativeBegin, WriteOrFail, Write, Goto, LocalType, HasLocks
<1>3. CASE NativeResolveSymbols(p) \/ NativeInsertRelations(p)
  BY <1>3 DEF NativeResolveSymbols, NativeInsertRelations, Write, Goto, LocalType, HasLocks
<1>4. CASE NativeMatch(p) \/ NativeCommit(p)
  BY <1>4, <1>a, <1>b, LocksGivenUp DEF NativeMatch, NativeCommit
<1>5. CASE NativeInsertTerm(p)
  BY <1>5 DEF NativeInsertTerm, Write, LocalType, HasLocks
<1>. QED  BY <1>1, <1>2, <1>3, <1>4, <1>5 DEF Native

LEMMA LocksOfDjango ==
  ASSUME FileType, LocalType, LockInv, NEW p \in Process, Django(p)
  PROVE  HasLocks(p)'
<1> USE NoneIsNoProcess DEF WriterStatements, SharedStatements, WritingStatements
<1>a. HasLocks(p) /\ FileLocks
  BY DEF LockInv
<1>b. CASE Fail(p)
  BY <1>a, <1>b, LocksAfterFail
<1>1. CASE ImportCheck(p)
  BY <1>1, <1>a, <1>b DEF ImportCheck, Share, Goto, LocalType, HasLocks
<1>2. CASE SelectSymbols(p)
  BY <1>2, <1>a DEF SelectSymbols, Share, Goto, LocalType, HasLocks
<1>3. CASE InsertSymbols(p)
  BY <1>3, <1>b DEF InsertSymbols, WriteOrFail, Write, Goto, LocalType, HasLocks
<1>4. CASE FindExact(p)
  BY <1>4, <1>a DEF FindExact, RowResolved, Share, Goto, LocalType, HasLocks
<1>5. CASE InsertTerm(p)
  BY <1>5, <1>b DEF InsertTerm, Write, LocalType, HasLocks
<1>6. CASE InsertRelations(p)
  BY <1>6 DEF InsertRelations, RowResolved, Write, LocalType, HasLocks
<1>7. CASE CountTerms(p)
  BY <1>7, <1>a DEF CountTerms, Share, LocalType, HasLocks
<1>8. CASE DeleteTerms(p)
  BY <1>8, <1>a, <1>b DEF DeleteTerms, WriteOrFail, Write, Share, Goto, LocalType, HasLocks
<1>9. CASE DeleteOrphans(p)
  BY <1>9, <1>a DEF DeleteOrphans, Write, Share, Goto, LocalType, HasLocks
<1>10. CASE AtomicCommit(p)
  <2>1. CASE AwaitReaders(p) /\ UNCHANGED localVars
    BY <1>a, <2>1 DEF AwaitReaders, localVars, HasLocks
  <2>. QED  BY <1>10, <1>a, <2>1, LocksGivenUp DEF AtomicCommit
<1>11. CASE TimeOut(p)
  BY <1>11, <1>b DEF TimeOut
<1>. QED
  BY <1>1, <1>2, <1>3, <1>4, <1>5, <1>6, <1>7, <1>8, <1>9, <1>10, <1>11 DEF Django

LEMMA LocksOfOthers ==
  ASSUME FileType, LocalType, LockInv, NEW p \in Process, Start(p) \/ Read(p)
  PROVE  HasLocks(p)'
<1> USE NoneIsNoProcess DEF WriterStatements, SharedStatements, WritingStatements
<1>a. HasLocks(p) /\ FileLocks
  BY DEF LockInv
<1>1. CASE Start(p)
  <2>1. PICK j \in Jobs : pc' = [pc EXCEPT ![p] = FirstStatement(j.task)]
    BY <1>1 DEF Start
  <2>2. FirstStatement(j.task) \in {"open", "select", "check", "count", "query"}
    BY DEF Jobs, FirstStatement
  <2>. QED  BY <1>1, <1>a, <2>1, <2>2 DEF Start, fileVars, LocalType, HasLocks
<1>2. CASE ReadAll(p) \/ FinishRead(p)
  BY <1>2, <1>a DEF ReadAll, FinishRead, Goto, Finish, fileVars, LocalType, HasLocks
<1>3. CASE OpenCursor(p)
  BY <1>3, <1>a DEF OpenCursor, Share, Goto, LocalType, HasLocks
<1>4. CASE CloseCursor(p)
  BY <1>4, <1>a DEF CloseCursor, Commit, Unlock, Goto, LocalType, HasLocks
<1>. QED  BY <1>1, <1>2, <1>3, <1>4 DEF Read

LEMMA LockInvNext ==
  ASSUME TypeInv, LockInv, [Next]_vars
  PROVE  LockInv'
<1>a. FileType /\ LocalType /\ FileLocks
  BY DEF TypeInv, LockInv
<1>1. CASE UNCHANGED vars
  BY <1>1 DEF LockInv, FileLocks, HasLocks, vars, fileVars, localVars
<1>2. ASSUME NEW p \in Process, AnyStep(p)
      PROVE  LockInv'
  <2>1. FileStep(p) /\ OthersKeep(p)
    BY <1>a, <1>2, StepShape
  <2>2. FileLocks'
    BY <1>a, <2>1, FileLocksKept
  <2>3. HasLocks(p)'
    BY <1>a, <1>2, LocksAfterFail, LocksOfNative, LocksOfDjango, LocksOfOthers DEF AnyStep, Step
  <2>4. ASSUME NEW q \in Process, q # p
        PROVE  HasLocks(q)'
    <3>1. (q \in shared' <=> q \in shared) /\ (writer' = q <=> writer = q)
      BY <1>a, <2>1, <2>4, RepeatableRead
    <3>2. pc'[q] = pc[q]
      BY <2>1, <2>4 DEF OthersKeep
    <3>. QED  BY <3>1, <3>2 DEF LockInv, HasLocks
  <2>. QED  BY <2>2, <2>3, <2>4 DEF LockInv
<1>. QED  BY <1>1, <1>2 DEF Next, AnyStep

LEMMA LockInvInit == Init => LockInv
BY NoneIsNoProcess DEF Init, FileInit, LockInv, FileLocks, HasLocks,
   WriterStatements, SharedStatements, WritingStatements

(* The lock discipline: whoever writes holds RESERVED and SHARED, every       *)
(* statement after the first read of a transaction runs under SHARED, and the  *)
(* recorder's statements run under RESERVED.                                   *)
THEOREM LockDiscipline == Spec => []LockInv
<1>1. TypeInv /\ LockInv /\ [Next]_vars => LockInv'
  BY LockInvNext
<1>. QED  BY <1>1, LockInvInit, TypeInvariant, PTL DEF Spec

-----------------------------------------------------------------------------
(* Layer 3: data *)

LEMMA GoodImages ==
  ASSUME FileType, FileData, NEW p \in Process
  PROVE  GoodWork(Image(p))
BY DEF FileType, FileData, GoodWork, Successor, Image, GoodImage, IsImage

LEMMA DbIsGood ==
  ASSUME FileType, FileData
  PROVE  GoodWork(db)
BY DEF FileType, GoodImage, IsImage, FileData, GoodWork, Successor

LEMMA SymbolsData ==
  ASSUME NEW image, GoodImage(image), NEW content \in Contents, GoodWork(image)
  PROVE  LET new == WithSymbols(image, content)
         IN  /\ GoodWork(new)
             /\ NoBlank(image) => NoBlank(new)
             /\ Atoms(content) \subseteq new.symbols
             /\ Orphans(new) \subseteq Orphans(image) \cup Atoms(content)
BY SymbolsAdded DEF GoodWork, Distinct, Sound, Numbered, Successor, NoBlank, Orphans

LEMMA TermData ==
  ASSUME FileType, NEW image, GoodImage(image), GoodWork(image), NoBlank(image)
  PROVE  LET new == WithTerm(image)
         IN  /\ GoodWork(new)
             /\ NewId(image) > db.seq /\ NewId(image) <= new.seq
             /\ \A t \in new.terms : t.content = <<>> <=> t.id = NewId(image)
             /\ new.symbols = image.symbols
             /\ \A content \in Contents : Absent(image, content) => Absent(new, content)
             /\ Orphans(new) \subseteq Orphans(image)
<1> DEFINE new == WithTerm(image)
           row == [id |-> NewId(image), content |-> <<>>]
<1>1. /\ new.symbols = image.symbols
      /\ new.terms = image.terms \cup {row}
      /\ new.seq = NewId(image)
  BY TermAdded
<1>2. Atoms(<<>>) = {}
  BY DEF Atoms
<1>3. db.seq \in Nat /\ image.seq \in Nat /\ NewId(image) = image.seq + 1
  BY DEF FileType, GoodImage, IsImage, NewId
<1>4. \A t \in image.terms : t.id \in Nat /\ t.id <= image.seq /\ t.content # <<>>
  BY DEF GoodImage, IsImage, GoodWork, Numbered, NoBlank
<1>5. GoodWork(new)
  <2>1. Distinct(new)
    BY <1>1, <1>4 DEF GoodWork, Distinct
  <2>2. Sound(new)
    BY <1>1, <1>2 DEF GoodWork, Sound
  <2>3. Numbered(new)
    BY <1>1, <1>3, <1>4 DEF Numbered
  <2>4. Successor(new)
    BY <1>1, <1>3 DEF GoodWork, Successor
  <2>. QED  BY <2>1, <2>2, <2>3, <2>4 DEF GoodWork
<1>6. NewId(image) > db.seq /\ NewId(image) <= new.seq
  BY <1>1, <1>3 DEF GoodWork, Successor
<1>7. \A t \in new.terms : t.content = <<>> <=> t.id = NewId(image)
  BY <1>1, <1>3, <1>4
<1>8. ASSUME NEW content \in Contents, Absent(image, content) PROVE Absent(new, content)
  <2>1. content # <<>>
    BY ContentsAreSequences
  <2>. QED  BY <1>1, <1>8, <2>1 DEF Absent
<1>9. Orphans(new) \subseteq Orphans(image)
  BY <1>1 DEF Orphans
<1>. QED  BY <1>1, <1>5, <1>6, <1>7, <1>8, <1>9

LEMMA RelationsData ==
  ASSUME FileType, NEW image, GoodImage(image), GoodWork(image),
         NEW content \in Contents, NEW id \in Nat,
         Absent(image, content), Atoms(content) \subseteq image.symbols,
         id > db.seq, id <= image.seq,
         \A t \in image.terms : t.content = <<>> <=> t.id = id
  PROVE  LET new == WithRelations(image, id, content)
         IN  /\ GoodWork(new)
             /\ NoBlank(new)
             /\ Orphans(new) \subseteq Orphans(image) \ Atoms(content)
<1> DEFINE new == WithRelations(image, id, content)
           row == [id |-> id, content |-> content]
           others == {t \in image.terms : t.id # id}
<1>1. /\ new.symbols = image.symbols
      /\ new.terms = others \cup {row}
      /\ new.seq = image.seq
  BY RelationsAdded
<1>2. content # <<>>
  BY ContentsAreSequences
<1>3. GoodWork(new)
  <2>1. Distinct(new)
    BY <1>1 DEF GoodWork, Distinct, Absent
  <2>2. Sound(new)
    BY <1>1 DEF GoodWork, Sound
  <2>3. Numbered(new)
    BY <1>1 DEF GoodWork, Numbered
  <2>4. Successor(new)
    BY <1>1 DEF GoodWork, Successor
  <2>. QED  BY <2>1, <2>2, <2>3, <2>4 DEF GoodWork
<1>4. NoBlank(new)
  BY <1>1, <1>2 DEF NoBlank
<1>5. Orphans(new) \subseteq Orphans(image) \ Atoms(content)
  <2>1. SUFFICES ASSUME NEW symbol \in Orphans(new)
                 PROVE  symbol \in Orphans(image) /\ symbol \notin Atoms(content)
    OBVIOUS
  <2>2. symbol \notin Atoms(content)
    BY <1>1, <2>1 DEF Orphans
  <2>3. ASSUME NEW t \in image.terms PROVE symbol \notin Atoms(t.content)
    <3>1. CASE t.id = id
      BY <3>1 DEF Atoms
    <3>2. CASE t.id # id
      BY <1>1, <2>1, <3>2 DEF Orphans
    <3>. QED  BY <3>1, <3>2
  <2>. QED  BY <1>1, <2>1, <2>2, <2>3 DEF Orphans
<1>. QED  BY <1>3, <1>4, <1>5

LEMMA RemovalData ==
  ASSUME FileType, NEW image, GoodImage(image), GoodWork(image)
  PROVE  /\ GoodWork(WithoutTerms(image)) /\ NoBlank(WithoutTerms(image))
         /\ GoodWork(WithoutOrphans(image))
         /\ NoBlank(image) => NoBlank(WithoutOrphans(image))
         /\ Orphans(WithoutOrphans(image)) = {}
<1>1. GoodWork(WithoutTerms(image)) /\ NoBlank(WithoutTerms(image))
  BY TermsRemoved DEF GoodWork, Distinct, Sound, Numbered, Successor, NoBlank
<1>2. GoodWork(WithoutOrphans(image))
  BY OrphansRemoved DEF GoodWork, Distinct, Sound, Numbered, Successor, Orphans
<1>3. NoBlank(image) => NoBlank(WithoutOrphans(image))
  BY OrphansRemoved DEF NoBlank
<1>4. Orphans(WithoutOrphans(image)) = {}
  BY OrphansRemoved DEF Orphans
<1>. QED  BY <1>1, <1>2, <1>3, <1>4

LEMMA FileDataKept ==
  ASSUME FileType, FileData, NEW p \in Process,
         Share(p) \/ AwaitReaders(p) \/ UNCHANGED fileVars \/ Rollback(p)
  PROVE  FileData'
<1>1. CASE Share(p) \/ AwaitReaders(p) \/ UNCHANGED fileVars
  BY <1>1 DEF Share, AwaitReaders, fileVars, FileData, GoodWork, Successor, Orphans,
              Distinct, Sound, Numbered, NoBlank
<1>2. CASE Rollback(p)
  <2>1. db' = db /\ work' \in {db, work}
    BY <1>2 DEF Rollback
  <2>2. GoodWork(work')
    BY <2>1, DbIsGood DEF FileData
  <2>. QED  BY <2>1, <2>2 DEF FileData, GoodWork, Successor, Orphans,
                              Distinct, Sound, Numbered, NoBlank
<1>. QED  BY <1>1, <1>2

LEMMA FileDataCommit ==
  ASSUME FileType, FileData, FileLocks, NEW p \in Process, Commit(p),
         NoBlank(Image(p)), Orphans(Image(p)) = {}
  PROVE  FileData'
<1>1. /\ db' = Image(p)
      /\ work' = Image(p) \/ (db' = db /\ work' = work)
  BY DEF Commit, Image
<1>2. GoodWork(Image(p)) /\ GoodImage(Image(p))
  BY GoodImages, ImageType
<1>3. CASE db' = db /\ work' = work
  BY <1>3 DEF FileData, GoodWork, Successor, Orphans, Distinct, Sound, Numbered, NoBlank
<1>4. CASE work' = Image(p)
  BY <1>1, <1>2, <1>4 DEF FileData, GoodWork, Successor, Orphans, Distinct, Sound,
                          Numbered, NoBlank, GoodImage, IsImage
<1>. QED  BY <1>1, <1>3, <1>4

LEMMA FileDataWrite ==
  ASSUME FileData, NEW p \in Process, NEW image, GoodWork(image), Write(p, image)
  PROVE  FileData' /\ Image(p)' = image /\ db' = db
<1>1. db' = db /\ work' = image /\ writer' = p
  BY DEF Write
<1>. QED  BY <1>1 DEF FileData, GoodWork, Successor, Orphans, Distinct, Sound, Numbered,
                      NoBlank, Image

LEMMA DataWhenIdle ==
  ASSUME FileType', FileData', NEW p \in Process, pc'[p] = "idle", writer' # p
  PROVE  HasData(p)'
BY DEF FileData, HasData, Loose, Image

LEMMA DataAfterFinish ==
  ASSUME FileType, LocalType, FileLocks, FileData, NEW p \in Process, NEW answer,
         Finish(p, answer),
         Rollback(p) \/ (Commit(p) /\ NoBlank(Image(p)) /\ Orphans(Image(p)) = {})
  PROVE  FileData' /\ HasData(p)'
<1>1. FileData'
  BY FileDataKept, FileDataCommit
<1>2. FileType'
  BY FileTypeKept
<1>3. pc'[p] = "idle" /\ writer' # p
  BY NoneIsNoProcess DEF LocalType, Finish, Commit, Rollback, Unlock
<1>. QED  BY <1>1, <1>2, <1>3, DataWhenIdle

(* What a step that leaves the image of p alone has to show about p.         *)
LEMMA SameImage ==
  ASSUME FileLocks, NEW p \in Process, Share(p) \/ AwaitReaders(p) \/ UNCHANGED fileVars
  PROVE  Image(p)' = Image(p) /\ db' = db
BY DEF Share, AwaitReaders, fileVars, Image

LEMMA DataAfterFail ==
  ASSUME FileType, LocalType, FileLocks, FileData, NEW p \in Process,
         Fail(p) \/ Abort(p) \/ Crash(p)
  PROVE  FileData' /\ HasData(p)'
BY DataAfterFinish DEF Fail, Abort, Crash

LEMMA DataOfNative ==
  ASSUME FileType, LocalType, LockInv, DataInv, NEW p \in Process, Native(p)
  PROVE  FileData' /\ HasData(p)'
<1> USE DEF RowStatements
<1>a. FileLocks /\ HasLocks(p) /\ FileData /\ HasData(p)
  BY DEF LockInv, DataInv
<1>b. GoodImage(Image(p)) /\ GoodWork(Image(p))
  BY <1>a, ImageType, GoodImages
<1>c. CASE Fail(p)
  BY <1>a, <1>c, DataAfterFail
<1>1. CASE NativeOpen(p)
  <2>1. CASE Goto(p, "begin") /\ UNCHANGED fileVars
    <3>1. Image(p)' = Image(p) /\ FileData'
      BY <1>a, <2>1, SameImage, FileDataKept
    <3>2. pc'[p] = "begin"
      BY <2>1 DEF Goto, LocalType
    <3>. QED  BY <1>1, <1>a, <3>1, <3>2 DEF NativeOpen, HasData, Loose, NoBlank, Orphans
  <2>. QED  BY <1>1, <1>c, <2>1 DEF NativeOpen
<1>2. CASE NativeBegin(p)
  <2>1. CASE Write(p, db) /\ Goto(p, "symbols")
    <3>1. GoodWork(db)
      BY <1>a, DbIsGood
    <3>2. FileData' /\ Image(p)' = db
      BY <1>a, <2>1, <3>1, FileDataWrite DEF FileType
    <3>3. pc'[p] = "symbols"
      BY <2>1 DEF Goto, LocalType
    <3>4. NoBlank(Image(p))' /\ Orphans(Image(p))' = {}
      BY <1>a, <3>2 DEF FileData, NoBlank, Orphans
    <3>. QED  BY <3>2, <3>3, <3>4 DEF HasData, Loose
  <2>. QED  BY <1>2, <1>c, <2>1 DEF NativeBegin, WriteOrFail
<1>3. CASE NativeResolveSymbols(p)
  <2> DEFINE new == WithSymbols(Image(p), Row(p))
  <2>1. Row(p) \in Contents
    BY <1>3, RowType DEF NativeResolveSymbols
  <2>2. /\ GoodWork(new) /\ NoBlank(new) /\ Atoms(Row(p)) \subseteq new.symbols
        /\ Orphans(new) \subseteq Atoms(Row(p))
    <3>1. NoBlank(Image(p)) /\ Orphans(Image(p)) = {}
      BY <1>3, <1>a DEF NativeResolveSymbols, HasData, Loose
    <3>. QED  BY <1>b, <2>1, <3>1, SymbolsData
  <2>3. Write(p, new) /\ Goto(p, "find")
    BY <1>3 DEF NativeResolveSymbols
  <2>4. FileData' /\ Image(p)' = new
    BY <1>a, <2>2, <2>3, FileDataWrite
  <2>5. pc'[p] = "find" /\ rest' = rest
    BY <2>3 DEF Goto, LocalType
  <2>. QED  BY <2>2, <2>4, <2>5 DEF HasData, Loose, Row, NoBlank, Orphans
<1>4. CASE NativeMatch(p)
  <2>1. PICK t \in Image(p).terms : t.content = Row(p) /\ Commit(p) /\ Finish(p, Ok(t.id))
    BY <1>4 DEF NativeMatch, IsFirstMatch, Matches
  <2>2. NoBlank(Image(p)) /\ Orphans(Image(p)) \subseteq Atoms(Row(p))
    BY <1>4, <1>a DEF NativeMatch, HasData, Loose
  <2>3. Orphans(Image(p)) = {}
    BY <2>1, <2>2 DEF Orphans
  <2>. QED  BY <1>a, <2>1, <2>2, <2>3, DataAfterFinish
<1>5. CASE NativeMiss(p)
  <2>1. Absent(Image(p), Row(p))
    BY <1>5 DEF NativeMiss, Matches, Absent
  <2>2. Image(p)' = Image(p) /\ FileData'
    BY <1>5, <1>a, SameImage, FileDataKept DEF NativeMiss
  <2>3. pc'[p] = "newterm" /\ rest' = rest
    BY <1>5 DEF NativeMiss, Goto, LocalType
  <2>. QED  BY <1>5, <1>a, <2>1, <2>2, <2>3
            DEF NativeMiss, HasData, Loose, Row, Absent, NoBlank, Orphans
<1>6. CASE NativeInsertTerm(p)
  <2> DEFINE new == WithTerm(Image(p))
  <2>1. Row(p) \in Contents
    BY <1>6, RowType DEF NativeInsertTerm
  <2>2. /\ NoBlank(Image(p)) /\ Absent(Image(p), Row(p))
        /\ Orphans(Image(p)) \subseteq Atoms(Row(p))
        /\ Atoms(Row(p)) \subseteq Image(p).symbols
    BY <1>6, <1>a DEF NativeInsertTerm, HasData, Loose
  <2>3. /\ GoodWork(new)
        /\ NewId(Image(p)) > db.seq /\ NewId(Image(p)) <= new.seq
        /\ \A t \in new.terms : t.content = <<>> <=> t.id = NewId(Image(p))
        /\ new.symbols = Image(p).symbols
        /\ Absent(new, Row(p))
        /\ Orphans(new) \subseteq Orphans(Image(p))
    BY <1>b, <2>1, <2>2, TermData
  <2>4. FileData' /\ Image(p)' = new /\ db' = db
    BY <1>6, <1>a, <2>3, FileDataWrite DEF NativeInsertTerm
  <2>5. pc'[p] = "fill" /\ rest' = rest /\ value'[p] = NewId(Image(p))
    BY <1>6 DEF NativeInsertTerm, LocalType
  <2>. QED  BY <2>2, <2>3, <2>4, <2>5 DEF HasData, Loose, Row, Absent, Orphans
<1>7. CASE NativeInsertRelations(p)
  <2> DEFINE new == WithRelations(Image(p), value[p], Row(p))
  <2>1. Row(p) \in Contents /\ value[p] \in Nat
    BY <1>7, RowType DEF NativeInsertRelations, LocalType
  <2>2. /\ Absent(Image(p), Row(p)) /\ Atoms(Row(p)) \subseteq Image(p).symbols
        /\ Orphans(Image(p)) \subseteq Atoms(Row(p))
        /\ value[p] > db.seq /\ value[p] <= Image(p).seq
        /\ \A t \in Image(p).terms : t.content = <<>> <=> t.id = value[p]
    BY <1>7, <1>a DEF NativeInsertRelations, HasData, Loose
  <2>3. GoodWork(new) /\ NoBlank(new) /\ Orphans(new) = {}
    BY <1>b, <2>1, <2>2, RelationsData
  <2>4. FileData' /\ Image(p)' = new
    BY <1>7, <1>a, <2>3, FileDataWrite DEF NativeInsertRelations
  <2>5. pc'[p] = "end"
    BY <1>7 DEF NativeInsertRelations, Goto, LocalType
  <2>. QED  BY <2>3, <2>4, <2>5 DEF HasData, Loose, NoBlank, Orphans
<1>8. CASE NativeCommit(p)
  <2>1. NoBlank(Image(p)) /\ Orphans(Image(p)) = {}
    BY <1>8, <1>a DEF NativeCommit, HasData, Loose
  <2>. QED  BY <1>8, <1>a, <1>c, <2>1, DataAfterFinish DEF NativeCommit
<1>. QED  BY <1>1, <1>2, <1>3, <1>4, <1>5, <1>6, <1>7, <1>8 DEF Native

(* A row is resolved: what is asked of the image afterwards.                  *)
LEMMA DataAfterRow ==
  ASSUME LocalType, NEW p \in Process, NEW id, RowResolved(p, id),
         NoBlank(Image(p)'), Orphans(Image(p)') = {}
  PROVE  HasData(p)'
<1>1. pc'[p] \in {"select", "commit"}
  BY DEF RowResolved, LocalType
<1>. QED  BY <1>1 DEF HasData, Loose, NoBlank, Orphans

LEMMA DataOfDjango ==
  ASSUME FileType, LocalType, LockInv, DataInv, NEW p \in Process, Django(p)
  PROVE  FileData' /\ HasData(p)'
<1> USE DEF RowStatements
<1>a. FileLocks /\ HasLocks(p) /\ FileData /\ HasData(p)
  BY DEF LockInv, DataInv
<1>b. GoodImage(Image(p)) /\ GoodWork(Image(p))
  BY <1>a, ImageType, GoodImages
<1>c. CASE Fail(p)
  BY <1>a, <1>c, DataAfterFail
<1>1. CASE ImportCheck(p)
  <2>1. CASE Share(p) /\ Goto(p, IF rest[p] = <<>> THEN "commit" ELSE "select")
    <3>1. Image(p)' = Image(p) /\ FileData'
      BY <1>a, <2>1, SameImage, FileDataKept
    <3>2. pc'[p] \in {"commit", "select"}
      BY <2>1 DEF Goto, LocalType
    <3>. QED  BY <1>1, <1>a, <3>1, <3>2 DEF ImportCheck, HasData, Loose, NoBlank, Orphans
  <2>. QED  BY <1>1, <1>c, <2>1 DEF ImportCheck
<1>2. CASE SelectSymbols(p)
  <2>1. Image(p)' = Image(p) /\ FileData'
    BY <1>2, <1>a, SameImage, FileDataKept DEF SelectSymbols
  <2>2. /\ rest' = rest
        /\ pc'[p] = IF Atoms(Row(p)) \subseteq Image(p).symbols THEN "lookup" ELSE "insert"
    BY <1>2 DEF SelectSymbols, Goto, LocalType
  <2>. QED  BY <1>2, <1>a, <2>1, <2>2 DEF SelectSymbols, HasData, Loose, Row, NoBlank, Orphans
<1>3. CASE InsertSymbols(p)
  <2> DEFINE new == WithSymbols(Image(p), Row(p))
  <2>1. CASE Write(p, new) /\ Goto(p, "term")
    <3>1. Row(p) \in Contents
      BY <1>3, RowType DEF InsertSymbols
    <3>2. /\ NoBlank(Image(p)) /\ Orphans(Image(p)) = {}
          /\ ~(Atoms(Row(p)) \subseteq Image(p).symbols)
      BY <1>3, <1>a DEF InsertSymbols, HasData, Loose
    <3>3. /\ GoodWork(new) /\ NoBlank(new) /\ Atoms(Row(p)) \subseteq new.symbols
          /\ Orphans(new) \subseteq Atoms(Row(p))
      BY <1>b, <3>1, <3>2, SymbolsData
    <3>4. Absent(new, Row(p))
      <4>1. Absent(Image(p), Row(p))
        BY <1>b, <3>2 DEF GoodWork, Sound, Absent
      <4>. QED  BY <1>b, <3>1, <4>1, SymbolsAdded DEF Absent
    <3>5. FileData' /\ Image(p)' = new
      BY <1>a, <2>1, <3>3, FileDataWrite
    <3>6. pc'[p] = "term" /\ rest' = rest
      BY <2>1 DEF Goto, LocalType
    <3>. QED  BY <3>3, <3>4, <3>5, <3>6 DEF HasData, Loose, Row, Absent, NoBlank, Orphans
  <2>. QED  BY <1>3, <1>c, <2>1 DEF InsertSymbols, WriteOrFail
<1>4. CASE FindExact(p)
  <2>1. Image(p)' = Image(p) /\ FileData'
    BY <1>4, <1>a, SameImage, FileDataKept DEF FindExact
  <2>2. NoBlank(Image(p)) /\ Orphans(Image(p)) = {} /\ Atoms(Row(p)) \subseteq Image(p).symbols
    BY <1>4, <1>a DEF FindExact, HasData, Loose
  <2>3. CASE \E t \in Image(p).terms : RowResolved(p, t.id)
    BY <2>1, <2>2, <2>3, DataAfterRow
  <2>4. CASE Matches(Image(p), Row(p)) = {} /\ Goto(p, "term")
    <3>1. Absent(Image(p), Row(p))
      BY <2>4 DEF Matches, Absent
    <3>2. pc'[p] = "term" /\ rest' = rest
      BY <2>4 DEF Goto, LocalType
    <3>. QED  BY <2>1, <2>2, <3>1, <3>2 DEF HasData, Loose, Row, Absent, NoBlank, Orphans
  <2>. QED  BY <1>4, <2>3, <2>4 DEF FindExact
<1>5. CASE InsertTerm(p)
  <2> DEFINE new == WithTerm(Image(p))
  <2>1. CASE ~Fail(p)
    <3>1. Row(p) \in Contents
      BY <1>5, RowType DEF InsertTerm
    <3>2. /\ NoBlank(Image(p)) /\ Absent(Image(p), Row(p))
          /\ Orphans(Image(p)) \subseteq Atoms(Row(p))
          /\ Atoms(Row(p)) \subseteq Image(p).symbols
      BY <1>5, <1>a DEF InsertTerm, HasData, Loose
    <3>3. /\ GoodWork(new)
          /\ NewId(Image(p)) > db.seq /\ NewId(Image(p)) <= new.seq
          /\ \A t \in new.terms : t.content = <<>> <=> t.id = NewId(Image(p))
          /\ new.symbols = Image(p).symbols
          /\ Absent(new, Row(p))
          /\ Orphans(new) \subseteq Orphans(Image(p))
      BY <1>b, <3>1, <3>2, TermData
    <3>4. FileData' /\ Image(p)' = new /\ db' = db
      BY <1>5, <1>a, <2>1, <3>3, FileDataWrite DEF InsertTerm
    <3>5. pc'[p] = "relations" /\ rest' = rest /\ value'[p] = NewId(Image(p))
      BY <1>5, <2>1 DEF InsertTerm, LocalType
    <3>. QED  BY <3>2, <3>3, <3>4, <3>5 DEF HasData, Loose, Row, Absent, Orphans
  <2>. QED  BY <1>c, <2>1
<1>6. CASE InsertRelations(p)
  <2> DEFINE new == WithRelations(Image(p), value[p], Row(p))
  <2>1. Row(p) \in Contents /\ value[p] \in Nat
    BY <1>6, RowType DEF InsertRelations, LocalType
  <2>2. /\ Absent(Image(p), Row(p)) /\ Atoms(Row(p)) \subseteq Image(p).symbols
        /\ Orphans(Image(p)) \subseteq Atoms(Row(p))
        /\ value[p] > db.seq /\ value[p] <= Image(p).seq
        /\ \A t \in Image(p).terms : t.content = <<>> <=> t.id = value[p]
    BY <1>6, <1>a DEF InsertRelations, HasData, Loose
  <2>3. GoodWork(new) /\ NoBlank(new) /\ Orphans(new) = {}
    BY <1>b, <2>1, <2>2, RelationsData
  <2>4. FileData' /\ Image(p)' = new
    BY <1>6, <1>a, <2>3, FileDataWrite DEF InsertRelations
  <2>. QED  BY <1>6, <2>3, <2>4, DataAfterRow DEF InsertRelations
<1>7. CASE CountTerms(p)
  <2>1. Image(p)' = Image(p) /\ FileData'
    BY <1>7, <1>a, SameImage, FileDataKept DEF CountTerms
  <2>2. pc'[p] = "delete"
    BY <1>7 DEF CountTerms, LocalType
  <2>. QED  BY <1>7, <1>a, <2>1, <2>2 DEF CountTerms, HasData, Loose, NoBlank, Orphans
<1>8. CASE DeleteTerms(p)
  <2>1. CASE Share(p) /\ Goto(p, "orphans")
    <3>1. Image(p)' = Image(p) /\ FileData'
      BY <1>a, <2>1, SameImage, FileDataKept
    <3>2. pc'[p] = "orphans"
      BY <2>1 DEF Goto, LocalType
    <3>. QED  BY <1>8, <1>a, <3>1, <3>2 DEF DeleteTerms, HasData, Loose, NoBlank, Orphans
  <2>2. CASE Write(p, WithoutTerms(Image(p))) /\ Goto(p, "orphans")
    <3>1. GoodWork(WithoutTerms(Image(p))) /\ NoBlank(WithoutTerms(Image(p)))
      BY <1>b, RemovalData
    <3>2. FileData' /\ Image(p)' = WithoutTerms(Image(p))
      BY <1>a, <2>2, <3>1, FileDataWrite
    <3>3. pc'[p] = "orphans"
      BY <2>2 DEF Goto, LocalType
    <3>. QED  BY <3>1, <3>2, <3>3 DEF HasData, Loose, NoBlank, Orphans
  <2>. QED  BY <1>8, <1>c, <2>1, <2>2 DEF DeleteTerms, WriteOrFail
<1>9. CASE DeleteOrphans(p)
  <2>0. NoBlank(Image(p))
    BY <1>9, <1>a DEF DeleteOrphans, HasData
  <2>1. CASE Orphans(Image(p)) = {}
    <3>1. Image(p)' = Image(p) /\ FileData'
      BY <1>9, <1>a, <2>1, SameImage, FileDataKept DEF DeleteOrphans
    <3>2. pc'[p] = "commit"
      BY <1>9, <2>1 DEF DeleteOrphans, Goto, LocalType
    <3>. QED  BY <2>0, <2>1, <3>1, <3>2 DEF HasData, Loose, NoBlank, Orphans
  <2>2. CASE Orphans(Image(p)) # {}
    <3> DEFINE new == WithoutOrphans(Image(p))
    <3>1. GoodWork(new) /\ NoBlank(new) /\ Orphans(new) = {}
      BY <1>b, <2>0, RemovalData
    <3>2. FileData' /\ Image(p)' = new
      BY <1>9, <1>a, <2>2, <3>1, FileDataWrite DEF DeleteOrphans
    <3>3. pc'[p] = "commit"
      BY <1>9, <2>2 DEF DeleteOrphans, Goto, LocalType
    <3>. QED  BY <3>1, <3>2, <3>3 DEF HasData, Loose, NoBlank, Orphans
  <2>. QED  BY <2>1, <2>2
<1>10. CASE AtomicCommit(p)
  <2>1. NoBlank(Image(p)) /\ Orphans(Image(p)) = {}
    BY <1>10, <1>a DEF AtomicCommit, HasData, Loose
  <2>2. CASE Commit(p) /\ Finish(p, Answer(p))
    BY <1>a, <2>1, <2>2, DataAfterFinish
  <2>3. CASE AwaitReaders(p) /\ UNCHANGED localVars
    <3>1. Image(p)' = Image(p) /\ FileData'
      BY <1>a, <2>3, SameImage, FileDataKept
    <3>2. pc'[p] = "commit"
      BY <1>10, <2>3 DEF AtomicCommit, localVars
    <3>. QED  BY <2>1, <3>1, <3>2 DEF HasData, Loose, NoBlank, Orphans
  <2>. QED  BY <1>10, <2>2, <2>3 DEF AtomicCommit
<1>11. CASE TimeOut(p)
  BY <1>11, <1>c DEF TimeOut
<1>. QED
  BY <1>1, <1>2, <1>3, <1>4, <1>5, <1>6, <1>7, <1>8, <1>9, <1>10, <1>11 DEF Django

LEMMA DataOfOthers ==
  ASSUME FileType, LocalType, LockInv, DataInv, NEW p \in Process, Start(p) \/ Read(p)
  PROVE  FileData' /\ HasData(p)'
<1>a. FileLocks /\ HasLocks(p) /\ FileData /\ HasData(p)
  BY DEF LockInv, DataInv
<1>b. pc[p] \in {"idle", "query", "cursor", "fetched"}
  BY DEF Start, Read, ReadAll, OpenCursor, CloseCursor, FinishRead
<1>c. NoBlank(Image(p)) /\ Orphans(Image(p)) = {}
  BY <1>a, <1>b DEF HasData, Loose
<1>d. pc'[p] \in {"open", "select", "check", "count", "query", "cursor", "fetched", "idle"}
  <2>1. CASE Start(p)
    <3>1. PICK j \in Jobs : pc' = [pc EXCEPT ![p] = FirstStatement(j.task)]
      BY <2>1 DEF Start
    <3>. QED  BY <3>1 DEF Jobs, FirstStatement, LocalType
  <2>2. CASE Read(p)
    BY <2>2 DEF Read, ReadAll, OpenCursor, CloseCursor, FinishRead, Goto, Finish, LocalType
  <2>. QED  BY <2>1, <2>2
<1>e. CASE Share(p) \/ UNCHANGED fileVars
  <2>1. Image(p)' = Image(p) /\ FileData'
    BY <1>a, <1>e, SameImage, FileDataKept
  <2>. QED  BY <1>c, <1>d, <2>1 DEF HasData, Loose, NoBlank, Orphans
<1>1. CASE CloseCursor(p)
  <2>1. Commit(p)
    BY <1>1 DEF CloseCursor
  <2>2. FileData' /\ FileType'
    BY <1>a, <1>c, <2>1, FileDataCommit, FileTypeKept
  <2>3. Image(p)' = db'
    BY <2>1 DEF Commit, Unlock, Image
  <2>. QED  BY <1>d, <2>2, <2>3 DEF HasData, Loose, FileData, NoBlank, Orphans
<1>. QED  BY <1>e, <1>1 DEF Start, Read, ReadAll, OpenCursor, FinishRead

(* What another process knows survives a step of p: under a lock because it    *)
(* sees the same image, without one because it relies on no more than FileData. *)
LEMMA DataOfBystander ==
  ASSUME FileType, LocalType, LockInv, DataInv, FileData',
         NEW p \in Process, FileStep(p), OthersKeep(p), NEW q \in Process, q # p
  PROVE  HasData(q)'
<1>a. FileLocks /\ HasLocks(q) /\ HasData(q)
  BY DEF LockInv, DataInv
<1>b. pc'[q] = pc[q] /\ rest'[q] = rest[q] /\ value'[q] = value[q]
  BY DEF OthersKeep
<1>1. CASE q \in shared
  <2>1. Image(q)' = Image(q) /\ db' = db
    BY <1>a, <1>1, RepeatableRead
  <2>. QED  BY <1>a, <1>b, <2>1 DEF HasData, Loose, Row, Absent, NoBlank, Orphans
<1>2. CASE q \notin shared
  <2>1. writer # q /\ pc[q] \notin SharedStatements
    BY <1>a, <1>2, NoneIsNoProcess DEF FileLocks, HasLocks
  <2>2. Image(q)' = db'
    <3>1. writer' # q
      BY <1>a, <2>1, RepeatableRead
    <3>. QED  BY <3>1 DEF Image
  <2>. QED
    BY <1>b, <2>1, <2>2
    DEF HasData, Loose, FileData, NoBlank, Orphans, SharedStatements, WriterStatements
<1>. QED  BY <1>1, <1>2

LEMMA DataInvNext ==
  ASSUME TypeInv, LockInv, DataInv, [Next]_vars
  PROVE  DataInv'
<1>a. FileType /\ LocalType /\ FileLocks /\ FileData
  BY DEF TypeInv, LockInv, DataInv
<1>1. CASE UNCHANGED vars
  BY <1>1 DEF DataInv, FileData, GoodWork, Successor, Distinct, Sound, Numbered, NoBlank, Orphans,
              HasData, Loose, Image, Row, Absent, vars, fileVars, localVars
<1>2. ASSUME NEW p \in Process, AnyStep(p)
      PROVE  DataInv'
  <2>1. FileStep(p) /\ OthersKeep(p)
    BY <1>a, <1>2, StepShape
  <2>2. FileData' /\ HasData(p)'
    BY <1>a, <1>2, DataAfterFail, DataOfNative, DataOfDjango, DataOfOthers DEF AnyStep, Step
  <2>3. ASSUME NEW q \in Process, q # p
        PROVE  HasData(q)'
    BY <1>a, <2>1, <2>2, <2>3, DataOfBystander
  <2>. QED  BY <2>2, <2>3 DEF DataInv
<1>. QED  BY <1>1, <1>2 DEF Next, AnyStep

LEMMA DataInvInit == Init => DataInv
<1> SUFFICES ASSUME Init PROVE DataInv
  OBVIOUS
<1>1. db = EmptyImage /\ work = EmptyImage /\ writer = None
  BY DEF Init, FileInit
<1>2. FileData
  BY <1>1 DEF EmptyImage, FileData, GoodWork, Successor, Distinct, Sound, Numbered, NoBlank, Orphans
<1>3. ASSUME NEW p \in Process PROVE HasData(p)
  BY <1>1 DEF Init, EmptyImage, HasData, Loose, Image, NoBlank, Orphans
<1>. QED  BY <1>2, <1>3 DEF DataInv

-----------------------------------------------------------------------------
(* No id stands for two Terms, in the file or in a writer's image. *)

OneTermPerId(image) == \A t, u \in image.terms : t.id = u.id => t = u
IdInv == OneTermPerId(db) /\ OneTermPerId(work)

(* The images a statement of p may leave. *)
Results(p) ==
  {db, work, WithSymbols(Image(p), Row(p)), WithTerm(Image(p)),
   WithRelations(Image(p), value[p], Row(p)),
   WithoutTerms(Image(p)), WithoutOrphans(Image(p))}

LEMMA StepResults ==
  ASSUME NEW p \in Process, AnyStep(p)
  PROVE  db' \in {db, work} /\ work' \in Results(p)
<1>1. CASE Share(p) \/ AwaitReaders(p) \/ UNCHANGED fileVars \/ Commit(p) \/ Rollback(p)
  BY <1>1 DEF Share, AwaitReaders, fileVars, Commit, Rollback, Image, Results
<1>2. CASE Fail(p) \/ Start(p) \/ Abort(p) \/ Crash(p) \/ Read(p)
  BY <1>2, <1>1
  DEF Fail, Start, Abort, Crash, Read, ReadAll, OpenCursor, CloseCursor, FinishRead
<1>3. ASSUME NEW image \in Results(p), Write(p, image)
      PROVE  db' \in {db, work} /\ work' \in Results(p)
  BY <1>3 DEF Write
<1>4. /\ db \in Results(p) /\ WithSymbols(Image(p), Row(p)) \in Results(p)
      /\ WithTerm(Image(p)) \in Results(p)
      /\ WithRelations(Image(p), value[p], Row(p)) \in Results(p)
      /\ WithoutTerms(Image(p)) \in Results(p) /\ WithoutOrphans(Image(p)) \in Results(p)
  BY DEF Results
<1>5. CASE Native(p)
  BY <1>1, <1>2, <1>3, <1>4, <1>5
  DEF Native, NativeOpen, NativeBegin, NativeResolveSymbols, NativeMatch, NativeMiss,
      NativeInsertTerm, NativeInsertRelations, NativeCommit, WriteOrFail
<1>6. CASE Django(p)
  <2>1. CASE ImportCheck(p) \/ SelectSymbols(p) \/ InsertSymbols(p) \/ FindExact(p)
    BY <1>1, <1>2, <1>3, <1>4, <2>1
    DEF ImportCheck, SelectSymbols, InsertSymbols, FindExact, WriteOrFail
  <2>2. CASE InsertTerm(p) \/ InsertRelations(p) \/ CountTerms(p)
    BY <1>1, <1>2, <1>3, <1>4, <2>2 DEF InsertTerm, InsertRelations, CountTerms
  <2>3. CASE DeleteTerms(p) \/ DeleteOrphans(p)
    BY <1>1, <1>2, <1>3, <1>4, <2>3 DEF DeleteTerms, DeleteOrphans, WriteOrFail
  <2>4. CASE AtomicCommit(p) \/ TimeOut(p)
    BY <1>1, <1>2, <2>4 DEF AtomicCommit, TimeOut
  <2>. QED  BY <1>6, <2>1, <2>2, <2>3, <2>4 DEF Django
<1>. QED  BY <1>2, <1>5, <1>6 DEF AnyStep, Step

LEMMA IdsOfResults ==
  ASSUME IInv, IdInv, NEW p \in Process, NEW image \in Results(p)
  PROVE  OneTermPerId(image)
<1>1. /\ GoodImage(Image(p)) /\ OneTermPerId(Image(p))
      /\ \A t \in Image(p).terms : t.id \in Nat /\ t.id <= Image(p).seq
  BY GoodImages DEF IInv, TypeInv, FileType, DataInv, FileData, GoodWork, Numbered, IdInv, Image,
     GoodImage, IsImage
<1>2. CASE image \in {db, work}
  BY <1>2 DEF IdInv
<1>3. CASE image \in {WithSymbols(Image(p), Row(p)), WithoutTerms(Image(p)),
                      WithoutOrphans(Image(p))}
  BY <1>1, <1>3 DEF WithSymbols, WithoutTerms, WithoutOrphans, OneTermPerId, GoodImage, IsImage
<1>4. CASE image = WithTerm(Image(p))
  BY <1>1, <1>4 DEF WithTerm, NewId, OneTermPerId, GoodImage, IsImage
<1>5. CASE image = WithRelations(Image(p), value[p], Row(p))
  BY <1>1, <1>5 DEF WithRelations, OneTermPerId, GoodImage, IsImage
<1>. QED  BY <1>2, <1>3, <1>4, <1>5 DEF Results

LEMMA IdInvNext == ASSUME IInv, IdInv, [Next]_vars PROVE IdInv'
<1>1. CASE UNCHANGED vars
  BY <1>1 DEF vars, fileVars, IdInv, OneTermPerId
<1>2. CASE Next
  <2>1. PICK p \in Process : AnyStep(p)
    BY <1>2 DEF Next, AnyStep
  <2>2. db' \in Results(p) /\ work' \in Results(p)
    BY <2>1, StepResults DEF Results
  <2>3. OneTermPerId(db') /\ OneTermPerId(work')
    BY <2>2, IdsOfResults
  <2>. QED  BY <2>3 DEF IdInv, OneTermPerId
<1>. QED  BY <1>1, <1>2

LEMMA IdInvInit == Init => IdInv
BY DEF Init, FileInit, EmptyImage, IdInv, OneTermPerId

-----------------------------------------------------------------------------
(* Results *)

LEMMA Invariance == Spec => []IInv
<1>1. TypeInv /\ LockInv /\ DataInv /\ [Next]_vars => DataInv'
  BY DataInvNext
<1>. QED  BY <1>1, DataInvInit, TypeInvariant, LockDiscipline, PTL DEF Spec, IInv

LEMMA IdInvariance == Spec => []IdInv
BY IdInvInit, IdInvNext, Invariance, PTL DEF Spec

(* No two committed Terms have the same content, whoever stores what and when. *)
THEOREM Deduplication == Spec => []UniqueContent
<1>1. IInv => UniqueContent
  BY DEF IInv, DataInv, FileData, Distinct, UniqueContent
<1>. QED  BY <1>1, Invariance, PTL

(* Every committed Term is whole and every committed Symbol is used, whatever *)
(* fails, times out or dies between two statements of a write.                *)
THEOREM Completeness == Spec => []GraphComplete
<1>1. IInv => GraphComplete
  BY DEF IInv, DataInv, FileData, Sound, NoBlank, GraphComplete
<1>. QED  BY <1>1, Invariance, PTL

(* No id is ever given a second meaning. *)
THEOREM ReferencesAreStable == Spec => StableReferences
<1> DEFINE Step1 == /\ db'.seq >= db.seq
                    /\ \A t \in db'.terms : t.id <= db.seq => t \in db.terms
<1>1. IInv /\ IInv' /\ [Next]_vars => [Step1]_db
  <2>1. SUFFICES ASSUME IInv, IInv', [Next]_vars, db' # db
                 PROVE  Step1
    OBVIOUS
  <2>2. PICK p \in Process : AnyStep(p)
    BY <2>1 DEF Next, AnyStep, vars, fileVars
  <2>3. FileStep(p)
    BY <2>1, <2>2, StepShape DEF IInv, TypeInv
  <2>4. db' = Image(p)
    BY <2>1, <2>3 DEF FileStep, Share, AwaitReaders, Commit, Rollback, fileVars, Write
  <2>5. GoodWork(Image(p)) /\ GoodImage(Image(p)) /\ GoodImage(db)
    BY <2>1, GoodImages, ImageType DEF IInv, TypeInv, FileType, DataInv
  <2>. QED  BY <2>4, <2>5 DEF GoodWork, Successor, GoodImage, IsImage
<1>. QED  BY <1>1, Invariance, PTL DEF Spec, StableReferences
=============================================================================
