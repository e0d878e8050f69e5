------------------------ MODULE StoreRefinementProofs ------------------------
(***************************************************************************)
(* SubstrateStore implements TermStore, for every set of processes,           *)
(* observations and files: every statement is a stutter of the abstract       *)
(* store, except the last one of a request, at which the whole request takes   *)
(* effect or none of it.                                                      *)
(*                                                                          *)
(* Beyond IInv this needs to know how far each request has come: which of its *)
(* rows its image already holds, and what it is going to answer (Progress).   *)
(***************************************************************************)
EXTENDS SubstrateStoreProofs

-----------------------------------------------------------------------------
(* How far a request has come *)

StatementsOf(task) ==
  LET row == {"select", "insert", "lookup", "term", "relations", "commit"}
  IN  CASE task = "native" -> {"open", "begin", "symbols", "find", "newterm", "fill", "end"}
        [] task = "record" -> row
        [] task = "import" -> {"check"} \cup row
        [] task = "reset"  -> {"count", "delete", "orphans", "commit"}
        [] task = "read"   -> {"query", "cursor", "fetched"}

JobInv(p) ==
  /\ pc[p] = "idle" <=> job[p] = NoJob
  /\ pc[p] # "idle" => job[p] \in Jobs /\ pc[p] \in StatementsOf(job[p].task)

(* Only an import resolves rows before its last one. *)
RowsInv(p) ==
  /\ job[p].task = "native" => rest[p] = job[p].rows
  /\ job[p].task = "record" /\ pc[p] # "commit" => rest[p] = job[p].rows
  /\ job[p].task = "import" /\ pc[p] = "check" => rest[p] = job[p].rows
  /\ pc[p] = "commit" /\ job[p].task # "reset" => rest[p] = <<>>

(* What p's image holds and what p still has to store make up what the file    *)
(* held and what p was asked to store.                                        *)
Stored(p) == Store!Held(Image(p).terms) \ {<<>>}
Due(p) == IF pc[p] = "end" THEN {} ELSE Store!ContentsOf(rest[p])
DueInv(p) ==
  job[p].task \in {"native", "record", "import"} =>
    /\ db.terms \subseteq Image(p).terms
    /\ Stored(p) \cup Due(p) = Store!Held(db.terms) \cup Store!ContentsOf(job[p].rows)

(* A recording that is about to end answers with the Term of its row. *)
AnswerInv(p) ==
  pc[p] = "end" \/ (pc[p] = "commit" /\ job[p].task = "record") =>
    \E t \in Image(p).terms : t.id = value[p] /\ t.content = job[p].rows[1]

(* What an import has checked stays true until it ends. *)
ImportInv(p) ==
  job[p].task = "import" /\ pc[p] # "check" => p \in shared /\ db.terms = {}

ResetInv(p) ==
  job[p].task = "reset" =>
    /\ Image(p).seq = db.seq
    /\ pc[p] # "count" => value[p] = Cardinality(db.terms)
    /\ pc[p] \in {"orphans", "commit"} => Image(p).terms = {}

Progress(p) ==
  JobInv(p) /\ RowsInv(p) /\ DueInv(p) /\ AnswerInv(p) /\ ImportInv(p) /\ ResetInv(p)

RInv == \A p \in Process : Progress(p)

-----------------------------------------------------------------------------
(* Requests *)

LEMMA NoJobAsked == NoJob \notin Jobs
BY DEF NoJob, Jobs

LEMMA JobShape ==
  ASSUME NEW j \in Jobs
  PROVE  /\ j.task \in {"native", "record", "import", "reset", "read"}
         /\ j.task \in {"native", "record"} => \E c \in Contents : j.rows = <<c>>
         /\ j.task \in {"reset", "read"} => j.rows = <<>>
<1>1. CASE j \in [task : {"native", "record"}, rows : {<<c>> : c \in Contents}]
  BY <1>1
<1>2. CASE j \in [task : {"import"}, rows : Files]
  BY <1>2
<1>3. CASE j \in [task : {"reset", "read"}, rows : {<<>>}]
  BY <1>3
<1>. QED  BY <1>1, <1>2, <1>3 DEF Jobs

LEMMA ContentNotBlank ==
  ASSUME NEW c \in Contents
  PROVE  c # <<>>
BY ContentsAreSequences

(* The rows of a nonempty file: the first one and the others. *)
LEMMA RowsSplit ==
  ASSUME NEW rows \in Seq(Contents), rows # <<>>
  PROVE  Store!ContentsOf(rows) = {Head(rows)} \cup Store!ContentsOf(Tail(rows))
<1>1. /\ Head(rows) = rows[1] /\ Len(rows) \in Nat \ {0}
      /\ Tail(rows) \in Seq(Contents) /\ Len(Tail(rows)) = Len(rows) - 1
      /\ \A i \in 1..Len(Tail(rows)) : Tail(rows)[i] = rows[i + 1]
  BY HeadTailProperties, LenProperties, EmptySeq
<1>2. DOMAIN rows = 1..Len(rows) /\ DOMAIN Tail(rows) = 1..Len(Tail(rows))
  BY <1>1, LenProperties
<1>3. ASSUME NEW i \in DOMAIN rows
      PROVE  rows[i] \in {Head(rows)} \cup Store!ContentsOf(Tail(rows))
  <2>1. CASE i = 1
    BY <1>1, <2>1
  <2>2. CASE i # 1
    <3>1. i - 1 \in DOMAIN Tail(rows) /\ rows[i] = Tail(rows)[i - 1]
      BY <1>1, <1>2, <2>2
    <3>. QED  BY <3>1 DEF Store!ContentsOf
  <2>. QED  BY <2>1, <2>2
<1>4. ASSUME NEW i \in DOMAIN Tail(rows)
      PROVE  Tail(rows)[i] \in Store!ContentsOf(rows)
  <2>1. i + 1 \in DOMAIN rows /\ Tail(rows)[i] = rows[i + 1]
    BY <1>1, <1>2
  <2>. QED  BY <2>1 DEF Store!ContentsOf
<1>5. Head(rows) \in Store!ContentsOf(rows)
  BY <1>1, <1>2 DEF Store!ContentsOf
<1>. QED  BY <1>3, <1>4, <1>5 DEF Store!ContentsOf

LEMMA OneRow ==
  ASSUME NEW c
  PROVE  Store!ContentsOf(<<c>>) = {c} /\ Head(<<c>>) = c /\ Store!ContentsOf(<<>>) = {}
BY DEF Store!ContentsOf

-----------------------------------------------------------------------------
(* The end of a request *)

(* An image that was committed stores what it holds beyond the file. *)
LEMMA GrownStores ==
  ASSUME FileType, FileData, IdInv, NEW p \in Process, NEW contents,
         NoBlank(Image(p)), db.terms \subseteq Image(p).terms,
         Stored(p) = Store!Held(db.terms) \cup contents, db' = Image(p)
  PROVE  Store!StoreAll(contents)
<1> DEFINE image == Image(p)
           added == image.terms \ db.terms
<1>1. GoodWork(image) /\ GoodImage(image) /\ GoodImage(db) /\ OneTermPerId(image)
  BY GoodImages, ImageType DEF FileType, IdInv, Image
<1>2. Store!Held(image.terms) = Store!Held(db.terms) \cup contents
  <2>1. <<>> \notin Store!Held(image.terms)
    BY DEF Store!Held, NoBlank
  <2>. QED  BY <2>1 DEF Stored
<1>3. Store!Held(added) = contents \ Store!Held(db.terms)
  <2>1. ASSUME NEW t \in added
        PROVE  t.content \in contents \ Store!Held(db.terms)
    <3>1. t.content \notin Store!Held(db.terms)
      BY <1>1, <2>1 DEF GoodWork, Distinct, Store!Held
    <3>. QED  BY <1>2, <2>1, <3>1 DEF Store!Held
  <2>2. ASSUME NEW c \in contents \ Store!Held(db.terms)
        PROVE  \E t \in added : t.content = c
    BY <1>2, <2>2 DEF Store!Held
  <2>. QED  BY <2>1, <2>2 DEF Store!Held
<1>4. \A t, u \in added : t.content = u.content \/ t.id = u.id => t = u
  BY <1>1 DEF GoodWork, Distinct, OneTermPerId
<1>5. \A t \in added : db.seq < t.id /\ t.id <= image.seq
  BY <1>1 DEF GoodWork, Successor, Numbered, GoodImage, IsImage
<1>6. image.seq >= db.seq
  BY <1>1 DEF GoodWork, Successor
<1>. QED  BY <1>3, <1>4, <1>5, <1>6 DEF Store!StoreAll

LEMMA AnswersAre ==
  ASSUME LocalType, NEW p \in Process, NEW answer, Finish(p, answer), Progress(p), pc[p] # "idle"
  PROVE  Store!Answer(p, answer)
BY NoJobAsked DEF LocalType, Finish, Progress, JobInv, Store!Answer

LEMMA RecordingRefines ==
  ASSUME FileType, FileData, LocalType, IdInv, NEW p \in Process, Progress(p),
         job[p].task \in {"native", "record"}, pc[p] # "idle", NEW t \in Image(p).terms,
         t.content = job[p].rows[1], NoBlank(Image(p)), 
         Due(p) \subseteq {t.content}, db' = Image(p), Finish(p, Ok(t.id))
  PROVE  Store!Record(p)
<1>1. PICK c \in Contents : job[p].rows = <<c>> /\ t.content = c
  BY JobShape DEF Progress, JobInv
<1>2. t.content \in Stored(p)
  BY <1>1, ContentNotBlank DEF Stored, Store!Held
<1>3. /\ db.terms \subseteq Image(p).terms
      /\ Stored(p) = Store!Held(db.terms) \cup Store!ContentsOf(job[p].rows)
  BY <1>2 DEF Progress, DueInv
<1>4. Store!StoreAll(Store!ContentsOf(job[p].rows))
  BY <1>3, GrownStores
<1>5. Store!Answer(p, Store!Ok(t.id))
  BY AnswersAre DEF Ok, Store!Ok
<1>. QED  BY <1>4, <1>5 DEF Store!Record

LEMMA ImportRefines ==
  ASSUME FileType, FileData, LocalType, IdInv, NEW p \in Process, Progress(p),
         job[p].task = "import", pc[p] = "commit", NoBlank(Image(p)),
         db' = Image(p), Finish(p, Answer(p))
  PROVE  Store!Import(p)
<1>1. rest[p] = <<>> /\ db.terms = {}
  BY DEF Progress, RowsInv, ImportInv
<1>2. /\ db.terms \subseteq Image(p).terms
      /\ Stored(p) = Store!Held(db.terms) \cup Store!ContentsOf(job[p].rows)
  BY <1>1, OneRow DEF Progress, DueInv, Due
<1>3. Store!StoreAll(Store!ContentsOf(job[p].rows))
  BY <1>2, GrownStores
<1>4. Store!Answer(p, Store!Ok(Len(job[p].rows)))
  BY AnswersAre DEF Answer, Ok, Store!Ok
<1>. QED  BY <1>1, <1>3, <1>4 DEF Store!Import

LEMMA ResetRefines ==
  ASSUME LocalType, NEW p \in Process, Progress(p),
         job[p].task = "reset", pc[p] = "commit",
         db' = Image(p), Finish(p, Answer(p))
  PROVE  Store!Reset(p)
<1>1. Image(p).terms = {} /\ Image(p).seq = db.seq /\ value[p] = Cardinality(db.terms)
  BY DEF Progress, ResetInv
<1>2. Store!Answer(p, Store!Ok(Cardinality(db.terms)))
  BY <1>1, AnswersAre DEF Answer, Ok, Store!Ok
<1>3. Store!Cardinality(db.terms) = Cardinality(db.terms)
  BY DEF Store!Cardinality, Cardinality
<1>. QED  BY <1>1, <1>2, <1>3 DEF Store!Reset

LEMMA FailureRefines ==
  ASSUME LocalType, NEW p \in Process, Progress(p), pc[p] # "idle"
  PROVE  /\ Fail(p) => Store!Refuse(p)
         /\ Rollback(p) /\ Finish(p, NoReply) => Store!Vanish(p)
<1>1. Failed = Store!Failed
  BY DEF Failed, Store!Failed
<1>2. ASSUME Fail(p) PROVE Store!Refuse(p)
  <2>1. Store!Answer(p, Store!Failed)
    BY <1>1, <1>2, AnswersAre DEF Fail
  <2>. QED  BY <1>2, <2>1 DEF Fail, Rollback, Store!Refuse
<1>3. ASSUME Rollback(p), Finish(p, NoReply) PROVE Store!Vanish(p)
  <2>1. Store!Answer(p, NoReply)
    BY <1>3, AnswersAre
  <2>. QED  BY <1>3, <2>1 DEF Rollback, Store!Vanish
<1>. QED  BY <1>2, <1>3

(* A statement that neither ends a request nor commits is a stutter. *)
Silent == db' = db /\ UNCHANGED <<job, reply>>

LEMMA SilentStutters == Silent => UNCHANGED Store!vars
BY DEF Silent, Store!vars

-----------------------------------------------------------------------------
(* Every statement of every operation *)

LEMMA NativeRefines ==
  ASSUME FileType, LocalType, LockInv, DataInv, IdInv,
         NEW p \in Process, Progress(p), Native(p)
  PROVE  Silent \/ Store!Record(p) \/ Store!Refuse(p)
<1>a. FileData /\ HasData(p) /\ HasLocks(p)
  BY DEF DataInv, LockInv
<1>b. pc[p] # "idle"
  BY DEF Native, NativeOpen, NativeBegin, NativeResolveSymbols, NativeMatch, NativeMiss,
         NativeInsertTerm, NativeInsertRelations, NativeCommit
<1>c. pc[p] \in {"find", "end"} =>
        job[p].task = "native" /\ rest[p] = job[p].rows /\ writer = p /\ NoBlank(Image(p))
  <2>1. pc[p] \in {"find", "end"} => job[p].task = "native"
    BY <1>b, JobShape DEF Progress, JobInv, StatementsOf
  <2>. QED  BY <1>a, <2>1 DEF Progress, RowsInv, HasLocks, WriterStatements, HasData
<1>1. CASE Fail(p)
  BY <1>1, <1>b, FailureRefines
<1>2. CASE NativeOpen(p)
  BY <1>1, <1>2 DEF NativeOpen, Goto, fileVars, Silent
<1>3. CASE NativeBegin(p)
  BY <1>1, <1>3 DEF NativeBegin, WriteOrFail, Write, Goto, Silent
<1>4. CASE NativeResolveSymbols(p) \/ NativeInsertRelations(p)
  BY <1>4 DEF NativeResolveSymbols, NativeInsertRelations, Write, Goto, Silent
<1>5. CASE NativeMiss(p)
  BY <1>5 DEF NativeMiss, Goto, fileVars, Silent
<1>6. CASE NativeInsertTerm(p)
  BY <1>6 DEF NativeInsertTerm, Write, Silent
<1>7. CASE NativeMatch(p)
  <2>1. PICK t \in Image(p).terms : t.content = Row(p) /\ Commit(p) /\ Finish(p, Ok(t.id))
    BY <1>7 DEF NativeMatch, IsFirstMatch, Matches
  <2>2. /\ job[p].task = "native" /\ rest[p] = job[p].rows /\ NoBlank(Image(p))
        /\ pc[p] = "find"
    BY <1>7, <1>c DEF NativeMatch
  <2>3. PICK c \in Contents : job[p].rows = <<c>>
    BY <1>b, <2>2, JobShape DEF Progress, JobInv
  <2>4. t.content = job[p].rows[1] /\ Due(p) \subseteq {t.content}
    BY <2>1, <2>2, <2>3, OneRow DEF Row, Due
  <2>5. db' = Image(p)
    BY <2>1 DEF Commit
  <2>. QED  BY <1>a, <1>b, <2>1, <2>2, <2>4, <2>5, RecordingRefines
<1>8. CASE NativeCommit(p)
  <2>1. CASE Commit(p) /\ Finish(p, Ok(value[p]))
    <3>1. pc[p] = "end"
      BY <1>8 DEF NativeCommit
    <3>2. PICK t \in Image(p).terms : t.id = value[p] /\ t.content = job[p].rows[1]
      BY <3>1 DEF Progress, AnswerInv
    <3>3. Due(p) = {} /\ db' = Image(p)
      BY <2>1, <3>1 DEF Due, Commit
    <3>. QED  BY <1>a, <1>b, <1>c, <2>1, <3>1, <3>2, <3>3, RecordingRefines
  <2>. QED  BY <1>1, <1>8, <2>1 DEF NativeCommit
<1>. QED  BY <1>2, <1>3, <1>4, <1>5, <1>6, <1>7, <1>8 DEF Native

LEMMA CommitRefines ==
  ASSUME FileType, LocalType, LockInv, DataInv, IdInv,
         NEW p \in Process, Progress(p), AtomicCommit(p)
  PROVE  Silent \/ Store!Record(p) \/ Store!Import(p) \/ Store!Reset(p)
<1>a. pc[p] = "commit" /\ FileData /\ NoBlank(Image(p))
  BY DEF AtomicCommit, DataInv, HasData
<1>b. job[p].task \in {"record", "import", "reset"}
  BY <1>a, JobShape DEF Progress, JobInv, StatementsOf
<1>1. CASE AwaitReaders(p) /\ UNCHANGED localVars
  BY <1>1 DEF AwaitReaders, localVars, Silent
<1>2. CASE Commit(p) /\ Finish(p, Answer(p))
  <2>1. db' = Image(p)
    BY <1>2 DEF Commit
  <2>2. CASE job[p].task = "record"
    <3>1. PICK t \in Image(p).terms : t.id = value[p] /\ t.content = job[p].rows[1]
      BY <1>a, <2>2 DEF Progress, AnswerInv
    <3>2. Due(p) = {}
      BY <1>a, <2>2, OneRow DEF Progress, RowsInv, Due
    <3>3. Finish(p, Ok(t.id))
      BY <1>2, <2>2, <3>1 DEF Answer
    <3>. QED  BY <1>a, <2>1, <2>2, <3>1, <3>2, <3>3, RecordingRefines
  <2>3. CASE job[p].task = "import"
    BY <1>2, <1>a, <2>1, <2>3, ImportRefines
  <2>4. CASE job[p].task = "reset"
    BY <1>2, <1>a, <2>1, <2>4, ResetRefines
  <2>. QED  BY <1>b, <2>2, <2>3, <2>4
<1>. QED  BY <1>1, <1>2 DEF AtomicCommit

LEMMA DjangoRefines ==
  ASSUME FileType, LocalType, LockInv, DataInv, IdInv,
         NEW p \in Process, Progress(p), Django(p)
  PROVE  \/ Silent \/ Store!Refuse(p)
         \/ Store!Record(p) \/ Store!Import(p) \/ Store!Reset(p)
<1>b. pc[p] # "idle"
  BY DEF Django, ImportCheck, SelectSymbols, InsertSymbols, FindExact, InsertTerm, InsertRelations,
         CountTerms, DeleteTerms, DeleteOrphans, AtomicCommit, TimeOut, Waiting
<1>1. CASE Fail(p)
  BY <1>1, <1>b, FailureRefines
<1>2. CASE ImportCheck(p)
  BY <1>1, <1>2 DEF ImportCheck, Share, Goto, Silent
<1>3. CASE SelectSymbols(p)
  BY <1>3 DEF SelectSymbols, Share, Goto, Silent
<1>4. CASE InsertSymbols(p)
  BY <1>1, <1>4 DEF InsertSymbols, WriteOrFail, Write, Goto, Silent
<1>5. CASE FindExact(p)
  BY <1>5 DEF FindExact, Share, RowResolved, Goto, Silent
<1>6. CASE InsertTerm(p)
  BY <1>1, <1>6 DEF InsertTerm, Write, Silent
<1>7. CASE InsertRelations(p)
  BY <1>7 DEF InsertRelations, Write, RowResolved, Silent
<1>8. CASE CountTerms(p)
  BY <1>8 DEF CountTerms, Share, Silent
<1>9. CASE DeleteTerms(p)
  BY <1>1, <1>9 DEF DeleteTerms, WriteOrFail, Share, Write, Goto, Silent
<1>10. CASE DeleteOrphans(p)
  BY <1>10 DEF DeleteOrphans, Share, Write, Goto, Silent
<1>11. CASE AtomicCommit(p)
  BY <1>11, CommitRefines
<1>12. CASE TimeOut(p)
  BY <1>1, <1>12 DEF TimeOut
<1>. QED  BY <1>2, <1>3, <1>4, <1>5, <1>6, <1>7, <1>8, <1>9, <1>10, <1>11, <1>12 DEF Django

LEMMA OthersRefine ==
  ASSUME FileType, LocalType, LockInv,
         NEW p \in Process, Progress(p), Start(p) \/ Read(p)
  PROVE  Silent \/ Store!Ask(p) \/ Store!Read(p)
<1>1. CASE Start(p)
  <2>1. job[p] = NoJob
    BY <1>1 DEF Start, Progress, JobInv
  <2>. QED  BY <1>1, <2>1 DEF Start, fileVars, Store!Ask
<1>2. CASE ReadAll(p)
  BY <1>2 DEF ReadAll, Goto, fileVars, Silent
<1>3. CASE OpenCursor(p)
  BY <1>3 DEF OpenCursor, Share, Goto, Silent
<1>4. CASE CloseCursor(p)
  <2>1. writer # p
    BY <1>4 DEF CloseCursor, LockInv, HasLocks, WritingStatements, WriterStatements
  <2>. QED  BY <1>4, <2>1 DEF CloseCursor, Commit, Image, Goto, Silent
<1>5. CASE FinishRead(p)
  <2>1. pc[p] = "fetched" /\ db' = db /\ Finish(p, Ok(0))
    BY <1>5 DEF FinishRead, fileVars
  <2>2. job[p].task = "read"
    BY <2>1, JobShape DEF Progress, JobInv, StatementsOf
  <2>3. Store!Answer(p, Store!Ok(0))
    BY <2>1, AnswersAre DEF Ok, Store!Ok
  <2>. QED  BY <2>1, <2>2, <2>3 DEF Store!Read
<1>. QED  BY <1>1, <1>2, <1>3, <1>4, <1>5 DEF Read

-----------------------------------------------------------------------------
(* Progress of the process that takes the step *)

LEMMA ProgressWhenDone ==
  ASSUME LocalType, NEW p \in Process, NEW answer, Finish(p, answer)
  PROVE  Progress(p)'
<1>1. pc'[p] = "idle" /\ job'[p] = NoJob
  BY DEF LocalType, Finish
<1>. QED
  BY <1>1 DEF NoJob, Progress, JobInv, RowsInv, DueInv, AnswerInv, ImportInv, ResetInv

(* A statement that stores no row leaves as much to do as there was. *)
LEMMA ProgressOnward ==
  ASSUME NEW p \in Process, Progress(p), job[p].task \in {"native", "record", "import"},
         pc[p] \notin {"idle", "end", "commit"}, UNCHANGED <<job, rest, db>>,
         pc'[p] \in StatementsOf(job[p].task) \ {"end", "commit", "check"},
         db.terms \subseteq Image(p)'.terms, Stored(p)' = Stored(p),
         job[p].task = "import" => p \in shared' /\ db.terms = {}
  PROVE  Progress(p)'
<1>1. job[p] \in Jobs /\ pc'[p] # "idle" /\ job[p] # NoJob
  BY NoJobAsked DEF Progress, JobInv, StatementsOf
<1>2. JobInv(p)' /\ RowsInv(p)' /\ AnswerInv(p)' /\ ImportInv(p)' /\ ResetInv(p)'
  BY <1>1 DEF Progress, JobInv, RowsInv, AnswerInv, ImportInv, ResetInv
<1>3. DueInv(p)'
  BY DEF Progress, DueInv, Due
<1>. QED  BY <1>2, <1>3 DEF Progress

(* The next row is stored, or was found to be. *)
LEMMA ProgressRow ==
  ASSUME LocalType, NEW p \in Process, Progress(p), job[p].task \in {"record", "import"},
         pc[p] \in {"lookup", "relations"}, db' = db, NEW id, RowResolved(p, id),
         db.terms \subseteq Image(p)'.terms, Stored(p)' = Stored(p) \cup {Row(p)},
         \E t \in Image(p)'.terms : t.id = id /\ t.content = Row(p),
         job[p].task = "import" => p \in shared' /\ db.terms = {}
  PROVE  Progress(p)'
<1>1. /\ rest[p] \in Seq(Contents) /\ rest[p] # <<>>
      /\ rest'[p] = Tail(rest[p]) /\ value'[p] = id /\ job' = job
      /\ pc'[p] = IF Len(rest[p]) > 1 THEN "select" ELSE "commit"
  BY DEF LocalType, RowResolved, RowStatements
<1>2. /\ Tail(rest[p]) \in Seq(Contents) /\ Len(Tail(rest[p])) = Len(rest[p]) - 1
      /\ Len(rest[p]) \in Nat \ {0}
  BY <1>1, HeadTailProperties, LenProperties, EmptySeq
<1>3. pc'[p] = "commit" => rest'[p] = <<>>
  BY <1>1, <1>2, EmptySeq
<1>4. job[p] \in Jobs /\ job[p] # NoJob
  BY NoJobAsked DEF Progress, JobInv
<1>5. job[p].task = "record" =>
        \E c \in Contents : job[p].rows = <<c>> /\ rest[p] = <<c>> /\ pc'[p] = "commit"
  <2>1. SUFFICES ASSUME job[p].task = "record"
        PROVE  \E c \in Contents : job[p].rows = <<c>> /\ rest[p] = <<c>> /\ pc'[p] = "commit"
    OBVIOUS
  <2>2. rest[p] = job[p].rows
    BY <2>1 DEF Progress, RowsInv
  <2>3. PICK c \in Contents : job[p].rows = <<c>>
    BY <1>4, <2>1, JobShape
  <2>4. Len(rest[p]) = 1
    BY <2>2, <2>3
  <2>. QED  BY <1>1, <2>2, <2>3, <2>4
<1>6. JobInv(p)'
  BY <1>1, <1>4 DEF JobInv, StatementsOf
<1>7. RowsInv(p)'
  BY <1>1, <1>3, <1>5 DEF RowsInv
<1>8. AnswerInv(p)'
  <2>1. ASSUME job[p].task = "record" PROVE Row(p) = job[p].rows[1]
    BY <1>5, <2>1, OneRow DEF Row
  <2>. QED  BY <1>1, <2>1 DEF AnswerInv
<1>9. DueInv(p)'
  <2>1. Store!ContentsOf(rest[p]) = {Row(p)} \cup Store!ContentsOf(Tail(rest[p]))
    BY <1>1, RowsSplit DEF Row
  <2>2. Due(p) = Store!ContentsOf(rest[p]) /\ Due(p)' = Store!ContentsOf(Tail(rest[p]))
    BY <1>1 DEF Due
  <2>. QED  BY <1>1, <2>1, <2>2 DEF Progress, DueInv
<1>10. ImportInv(p)' /\ ResetInv(p)'
  BY <1>1 DEF ImportInv, ResetInv
<1>. QED  BY <1>6, <1>7, <1>8, <1>9, <1>10 DEF Progress

(* What a write does to the rows that an image holds. *)
LEMMA StoredAfter ==
  ASSUME FileType, FileData, NEW image, GoodImage(image), db.terms \subseteq image.terms,
         NEW content \in Contents, NEW id \in Nat,
         \A t \in image.terms : t.content = <<>> <=> t.id = id
  PROVE  LET new == WithRelations(image, id, content)
         IN  /\ db.terms \subseteq new.terms
             /\ Store!Held(new.terms) \ {<<>>} = (Store!Held(image.terms) \ {<<>>}) \cup {content}
             /\ \E t \in new.terms : t.id = id /\ t.content = content
<1> DEFINE new == WithRelations(image, id, content)
           row == [id |-> id, content |-> content]
<1>1. new.terms = {t \in image.terms : t.id # id} \cup {row} /\ content # <<>>
  BY RelationsAdded, ContentNotBlank
<1>2. db.terms \subseteq new.terms
  BY <1>1 DEF FileData, NoBlank
<1>3. ASSUME NEW t \in new.terms, t.content # <<>>
      PROVE  t.content \in (Store!Held(image.terms) \ {<<>>}) \cup {content}
  BY <1>1, <1>3 DEF Store!Held
<1>4. ASSUME NEW t \in image.terms, t.content # <<>>
      PROVE  t.content \in Store!Held(new.terms)
  BY <1>1, <1>4 DEF Store!Held
<1>5. row \in new.terms /\ row.id = id /\ row.content = content
  BY <1>1
<1>6. Store!Held(new.terms) \ {<<>>} = (Store!Held(image.terms) \ {<<>>}) \cup {content}
  <2>1. ASSUME NEW c \in Store!Held(new.terms) \ {<<>>}
        PROVE  c \in (Store!Held(image.terms) \ {<<>>}) \cup {content}
    <3>1. PICK t \in new.terms : t.content = c
      BY <2>1 DEF Store!Held
    <3>. QED  BY <1>3, <2>1, <3>1
  <2>2. ASSUME NEW c \in Store!Held(image.terms) \ {<<>>}
        PROVE  c \in Store!Held(new.terms)
    <3>1. PICK t \in image.terms : t.content = c
      BY <2>2 DEF Store!Held
    <3>. QED  BY <1>4, <2>2, <3>1
  <2>3. content \in Store!Held(new.terms) \ {<<>>}
    BY <1>1, <1>5 DEF Store!Held
  <2>. QED  BY <2>1, <2>2, <2>3
<1>. QED  BY <1>2, <1>5, <1>6

LEMMA StoredWithTerm ==
  ASSUME NEW image, GoodImage(image)
  PROVE  /\ image.terms \subseteq WithTerm(image).terms
         /\ Store!Held(WithTerm(image).terms) \ {<<>>} = Store!Held(image.terms) \ {<<>>}
<1> DEFINE row == [id |-> NewId(image), content |-> <<>>]
<1>1. WithTerm(image).terms = image.terms \cup {row}
  BY TermAdded
<1>. QED  BY <1>1 DEF Store!Held

-----------------------------------------------------------------------------
(* Progress, statement by statement *)

LEMMA ProgressOfNative ==
  ASSUME FileType, LocalType, LockInv, DataInv, NEW p \in Process, Progress(p), Native(p)
  PROVE  Progress(p)'
<1>a. /\ FileData /\ FileLocks /\ HasData(p) /\ HasLocks(p)
      /\ GoodImage(Image(p)) /\ GoodImage(db)
  BY ImageType DEF DataInv, LockInv, FileType
<1>b. pc[p] \in {"open", "begin", "symbols", "find", "newterm", "fill", "end"}
  BY DEF Native, NativeOpen, NativeBegin, NativeResolveSymbols, NativeMatch, NativeMiss,
         NativeInsertTerm, NativeInsertRelations, NativeCommit
<1>c. /\ job[p] \in Jobs /\ job[p] # NoJob /\ job[p].task = "native"
      /\ rest[p] = job[p].rows
  <2>1. job[p] \in Jobs /\ job[p].task = "native"
    BY <1>b, JobShape DEF Progress, JobInv, StatementsOf
  <2>. QED  BY <2>1, NoJobAsked DEF Progress, RowsInv
<1>d. db.terms \subseteq Image(p).terms
  BY <1>c DEF Progress, DueInv
<1>e. pc[p] \in RowStatements
  BY <1>b DEF RowStatements
<1>f. Row(p) \in Contents /\ rest[p] # <<>>
  BY <1>e, RowType
<1>1. ASSUME NEW answer, Finish(p, answer) PROVE Progress(p)'
  BY <1>1, ProgressWhenDone
<1>2. CASE NativeOpen(p)
  <2>1. CASE Goto(p, "begin") /\ UNCHANGED fileVars
    <3>1. pc'[p] = "begin" /\ UNCHANGED <<job, rest, db>> /\ Image(p)' = Image(p)
      BY <2>1 DEF LocalType, Goto, fileVars, Image
    <3>2. Stored(p)' = Stored(p)
      BY <3>1 DEF Stored
    <3>. QED
      BY <1>2, <1>c, <1>d, <3>1, <3>2, ProgressOnward DEF NativeOpen, StatementsOf
  <2>. QED  BY <1>1, <1>2, <2>1 DEF NativeOpen, Fail
<1>3. CASE NativeBegin(p)
  <2>1. CASE Write(p, db) /\ Goto(p, "symbols")
    <3>1. pc'[p] = "symbols" /\ UNCHANGED <<job, rest, db>> /\ Image(p)' = db
      BY <2>1 DEF LocalType, Goto, Write, Image
    <3>2. Image(p) = db
      BY <1>3, <1>a DEF NativeBegin, HasLocks, WritingStatements, WriterStatements, Image
    <3>3. Stored(p)' = Stored(p)
      BY <3>1, <3>2 DEF Stored
    <3>. QED
      BY <1>3, <1>c, <3>1, <3>3, ProgressOnward DEF NativeBegin, StatementsOf
  <2>. QED  BY <1>1, <1>3, <2>1 DEF NativeBegin, WriteOrFail, Fail
<1>4. CASE NativeResolveSymbols(p)
  <2>1. /\ pc'[p] = "find" /\ UNCHANGED <<job, rest, db>>
        /\ Image(p)' = WithSymbols(Image(p), Row(p))
    BY <1>4 DEF NativeResolveSymbols, LocalType, Goto, Write, Image
  <2>2. Image(p)'.terms = Image(p).terms
    BY <1>a, <1>f, <2>1, SymbolsAdded
  <2>3. Stored(p)' = Stored(p)
    BY <2>2 DEF Stored
  <2>. QED
    BY <1>4, <1>c, <1>d, <2>1, <2>2, <2>3, ProgressOnward DEF NativeResolveSymbols, StatementsOf
<1>5. CASE NativeMatch(p)
  BY <1>1, <1>5 DEF NativeMatch
<1>6. CASE NativeMiss(p)
  <2>1. pc'[p] = "newterm" /\ UNCHANGED <<job, rest, db>> /\ Image(p)' = Image(p)
    BY <1>6 DEF NativeMiss, LocalType, Goto, fileVars, Image
  <2>2. Stored(p)' = Stored(p)
    BY <2>1 DEF Stored
  <2>. QED
    BY <1>6, <1>c, <1>d, <2>1, <2>2, ProgressOnward DEF NativeMiss, StatementsOf
<1>7. CASE NativeInsertTerm(p)
  <2>1. /\ pc'[p] = "fill" /\ UNCHANGED <<job, rest, db>>
        /\ Image(p)' = WithTerm(Image(p))
    BY <1>7 DEF NativeInsertTerm, LocalType, Write, Image
  <2>2. Image(p).terms \subseteq Image(p)'.terms /\ Stored(p)' = Stored(p)
    BY <1>a, <2>1, StoredWithTerm DEF Stored
  <2>. QED
    BY <1>7, <1>c, <1>d, <2>1, <2>2, ProgressOnward DEF NativeInsertTerm, StatementsOf
<1>8. CASE NativeInsertRelations(p)
  <2>1. pc[p] = "fill" /\ pc'[p] = "end" /\ UNCHANGED <<job, rest, db, value>>
    BY <1>8 DEF NativeInsertRelations, LocalType, Goto, Write
  <2>a. Image(p)' = WithRelations(Image(p), value[p], Row(p))
    BY <1>8 DEF NativeInsertRelations, Write, Image
  <2>2. value[p] \in Nat /\ \A t \in Image(p).terms : t.content = <<>> <=> t.id = value[p]
    BY <1>a, <2>1 DEF LocalType, HasData
  <2>3. /\ db.terms \subseteq Image(p)'.terms
        /\ Stored(p)' = Stored(p) \cup {Row(p)}
        /\ \E t \in Image(p)'.terms : t.id = value[p] /\ t.content = Row(p)
    <3> DEFINE new == WithRelations(Image(p), value[p], Row(p))
    <3>1. /\ db.terms \subseteq new.terms
          /\ Store!Held(new.terms) \ {<<>>} = (Store!Held(Image(p).terms) \ {<<>>}) \cup {Row(p)}
          /\ \E t \in new.terms : t.id = value[p] /\ t.content = Row(p)
      BY <1>a, <1>d, <1>f, <2>2, StoredAfter
    <3>. QED  BY <2>a, <3>1 DEF Stored
  <2>4. PICK c \in Contents : job[p].rows = <<c>>
    BY <1>c, JobShape
  <2>5. Row(p) = job[p].rows[1] /\ Due(p) = {Row(p)} /\ Due(p)' = {}
    BY <1>c, <2>1, <2>4, OneRow DEF Row, Due
  <2>6. DueInv(p)'
    BY <2>1, <2>3, <2>5 DEF Progress, DueInv
  <2>7. AnswerInv(p)'
    BY <2>1, <2>3, <2>5 DEF AnswerInv
  <2>8. JobInv(p)' /\ RowsInv(p)' /\ ImportInv(p)' /\ ResetInv(p)'
    BY <1>c, <2>1 DEF JobInv, RowsInv, ImportInv, ResetInv, StatementsOf
  <2>. QED  BY <2>6, <2>7, <2>8 DEF Progress
<1>9. CASE NativeCommit(p)
  BY <1>1, <1>9 DEF NativeCommit, Fail
<1>. QED  BY <1>2, <1>3, <1>4, <1>5, <1>6, <1>7, <1>8, <1>9 DEF Native

(* Statements of resolve_clear, for a row of a recording or of an import. *)
LEMMA ProgressOfRow ==
  ASSUME FileType, LocalType, LockInv, DataInv, NEW p \in Process, Progress(p),
         ImportCheck(p) \/ SelectSymbols(p) \/ InsertSymbols(p) \/ FindExact(p)
           \/ InsertTerm(p) \/ InsertRelations(p)
  PROVE  Progress(p)'
<1>a. /\ FileData /\ FileLocks /\ HasData(p) /\ HasLocks(p)
      /\ GoodImage(Image(p)) /\ GoodImage(db)
  BY ImageType DEF DataInv, LockInv, FileType
<1>b. pc[p] \in {"check", "select", "insert", "lookup", "term", "relations"}
  BY DEF ImportCheck, SelectSymbols, InsertSymbols, FindExact, InsertTerm, InsertRelations
<1>c. /\ job[p] \in Jobs /\ job[p] # NoJob
      /\ job[p].task = "import" \/ (pc[p] # "check" /\ job[p].task = "record")
  <2>1. /\ job[p] \in Jobs
        /\ job[p].task = "import" \/ (pc[p] # "check" /\ job[p].task = "record")
    BY <1>b, JobShape DEF Progress, JobInv, StatementsOf
  <2>. QED  BY <2>1, NoJobAsked
<1>d. /\ db.terms \subseteq Image(p).terms
      /\ Stored(p) \cup Due(p) = Store!Held(db.terms) \cup Store!ContentsOf(job[p].rows)
  BY <1>c DEF Progress, DueInv
<1>e. job[p].task = "import" /\ pc[p] # "check" => p \in shared /\ db.terms = {}
  BY DEF Progress, ImportInv
<1>f. pc[p] # "check" => Row(p) \in Contents /\ rest[p] # <<>>
  <2>1. pc[p] # "check" => pc[p] \in RowStatements
    BY <1>b DEF RowStatements
  <2>. QED  BY <2>1, RowType
<1>1. CASE Fail(p)
  BY <1>1, ProgressWhenDone DEF Fail
<1>2. CASE ImportCheck(p)
  <2>1. CASE /\ Image(p).terms = {} /\ Share(p)
             /\ Goto(p, IF rest[p] = <<>> THEN "commit" ELSE "select")
    <3>1. /\ pc[p] = "check" /\ UNCHANGED <<job, rest, db>> /\ Image(p)' = Image(p)
          /\ p \in shared' /\ db.terms = {}
          /\ pc'[p] = IF rest[p] = <<>> THEN "commit" ELSE "select"
      BY <1>2, <1>d, <2>1 DEF ImportCheck, LocalType, Share, Goto, Image
    <3>2. Stored(p)' = Stored(p) /\ Due(p)' = Due(p)
      BY <3>1 DEF Stored, Due
    <3>3. JobInv(p)' /\ RowsInv(p)' /\ AnswerInv(p)' /\ ImportInv(p)' /\ ResetInv(p)'
      BY <1>c, <3>1 DEF JobInv, RowsInv, AnswerInv, ImportInv, ResetInv, StatementsOf
    <3>4. DueInv(p)'
      BY <1>d, <3>1, <3>2 DEF DueInv
    <3>. QED  BY <3>3, <3>4 DEF Progress
  <2>. QED  BY <1>1, <1>2, <2>1 DEF ImportCheck
<1>3. CASE SelectSymbols(p)
  <2>1. /\ pc'[p] \in {"lookup", "insert"} /\ UNCHANGED <<job, rest, db>>
        /\ Image(p)' = Image(p) /\ p \in shared'
    BY <1>3 DEF SelectSymbols, LocalType, Share, Goto, Image
  <2>2. Stored(p)' = Stored(p)
    BY <2>1 DEF Stored
  <2>. QED
    BY <1>3, <1>c, <1>d, <1>e, <2>1, <2>2, ProgressOnward DEF SelectSymbols, StatementsOf
<1>4. CASE InsertSymbols(p)
  <2>1. CASE Write(p, WithSymbols(Image(p), Row(p))) /\ Goto(p, "term")
    <3>1. /\ pc'[p] = "term" /\ UNCHANGED <<job, rest, db>> /\ p \in shared'
          /\ Image(p)' = WithSymbols(Image(p), Row(p))
      BY <2>1 DEF LocalType, Goto, Write, Image
    <3>2. pc[p] = "insert" /\ Row(p) \in Contents
      BY <1>4, <1>f DEF InsertSymbols
    <3>3. Image(p)'.terms = Image(p).terms
      BY <1>a, <3>1, <3>2, SymbolsAdded
    <3>4. Stored(p)' = Stored(p)
      BY <3>3 DEF Stored
    <3>. QED
      BY <1>c, <1>d, <1>e, <3>1, <3>2, <3>3, <3>4, ProgressOnward DEF StatementsOf
  <2>. QED  BY <1>1, <1>4, <2>1 DEF InsertSymbols, WriteOrFail
<1>5. CASE FindExact(p)
  <2>1. pc[p] = "lookup" /\ Share(p) /\ Row(p) \in Contents
    BY <1>5, <1>f DEF FindExact
  <2>2. db' = db /\ Image(p)' = Image(p) /\ p \in shared'
    BY <2>1 DEF Share, Image
  <2>3. Stored(p)' = Stored(p)
    BY <2>2 DEF Stored
  <2>4. CASE \E t \in Image(p).terms : IsFirstMatch(t, Image(p), Row(p)) /\ RowResolved(p, t.id)
    <3>1. PICK t \in Image(p).terms : t.content = Row(p) /\ RowResolved(p, t.id)
      BY <2>4 DEF IsFirstMatch, Matches
    <3>2. Row(p) \in Stored(p)
      BY <2>1, <3>1, ContentNotBlank DEF Stored, Store!Held
    <3>. QED
      BY <1>c, <1>d, <1>e, <2>1, <2>2, <2>3, <3>1, <3>2, ProgressRow
  <2>5. CASE Goto(p, "term")
    <3>1. pc'[p] = "term" /\ UNCHANGED <<job, rest>>
      BY <2>5 DEF LocalType, Goto
    <3>. QED
      BY <1>c, <1>d, <1>e, <2>1, <2>2, <2>3, <3>1, ProgressOnward DEF StatementsOf
  <2>. QED  BY <1>5, <2>4, <2>5 DEF FindExact
<1>6. CASE InsertTerm(p)
  <2>1. CASE Write(p, WithTerm(Image(p))) /\ pc' = [pc EXCEPT ![p] = "relations"]
             /\ UNCHANGED <<job, rest>>
    <3>1. /\ pc[p] = "term" /\ pc'[p] = "relations" /\ UNCHANGED <<job, rest, db>>
          /\ p \in shared' /\ Image(p)' = WithTerm(Image(p))
      BY <1>6, <2>1 DEF InsertTerm, LocalType, Write, Image
    <3>2. Image(p).terms \subseteq Image(p)'.terms /\ Stored(p)' = Stored(p)
      BY <1>a, <3>1, StoredWithTerm DEF Stored
    <3>. QED
      BY <1>c, <1>d, <1>e, <3>1, <3>2, ProgressOnward DEF StatementsOf
  <2>. QED  BY <1>1, <1>6, <2>1 DEF InsertTerm
<1>7. CASE InsertRelations(p)
  <2>1. /\ pc[p] = "relations" /\ db' = db /\ p \in shared' /\ RowResolved(p, value[p])
        /\ Image(p)' = WithRelations(Image(p), value[p], Row(p))
    BY <1>7 DEF InsertRelations, Write, Image
  <2>2. /\ value[p] \in Nat /\ Row(p) \in Contents
        /\ \A t \in Image(p).terms : t.content = <<>> <=> t.id = value[p]
    BY <1>a, <1>f, <2>1 DEF LocalType, HasData
  <2>3. /\ db.terms \subseteq Image(p)'.terms
        /\ Stored(p)' = Stored(p) \cup {Row(p)}
        /\ \E t \in Image(p)'.terms : t.id = value[p] /\ t.content = Row(p)
    BY <1>a, <1>d, <2>1, <2>2, StoredAfter DEF Stored
  <2>. QED  BY <1>c, <1>e, <2>1, <2>2, <2>3, ProgressRow
<1>. QED  BY <1>2, <1>3, <1>4, <1>5, <1>6, <1>7

LEMMA ProgressOfReset ==
  ASSUME FileType, LocalType, LockInv, DataInv, NEW p \in Process, Progress(p),
         CountTerms(p) \/ DeleteTerms(p) \/ DeleteOrphans(p)
  PROVE  Progress(p)'
<1>a. GoodImage(Image(p)) /\ GoodImage(db) /\ HasLocks(p)
  BY ImageType DEF LockInv, FileType
<1>b. pc[p] \in {"count", "delete", "orphans"}
  BY DEF CountTerms, DeleteTerms, DeleteOrphans
<1>c. job[p] \in Jobs /\ job[p] # NoJob /\ job[p].task = "reset"
  <2>1. job[p] \in Jobs /\ job[p].task = "reset"
    BY <1>b, JobShape DEF Progress, JobInv, StatementsOf
  <2>. QED  BY <2>1, NoJobAsked
<1>d. /\ Image(p).seq = db.seq
      /\ pc[p] # "count" => value[p] = Cardinality(db.terms)
      /\ pc[p] = "orphans" => Image(p).terms = {}
  BY <1>c DEF Progress, ResetInv
<1>e. pc[p] \in {"count", "delete"} => Image(p) = db
  BY <1>a DEF HasLocks, WritingStatements, WriterStatements, Image
<1>f. ASSUME pc'[p] \in {"delete", "orphans", "commit"}, job' = job, ResetInv(p)'
      PROVE  Progress(p)'
  BY <1>c, <1>f DEF Progress, JobInv, RowsInv, DueInv, AnswerInv, ImportInv, StatementsOf
<1>1. CASE Fail(p)
  BY <1>1, ProgressWhenDone DEF Fail
<1>2. CASE CountTerms(p)
  <2>1. /\ pc[p] = "count" /\ pc'[p] = "delete" /\ job' = job /\ db' = db
        /\ Image(p)' = Image(p) /\ value'[p] = Cardinality(Image(p).terms)
    BY <1>2 DEF CountTerms, LocalType, Share, Image
  <2>. QED  BY <1>d, <1>e, <1>f, <2>1 DEF ResetInv
<1>3. CASE DeleteTerms(p)
  <2>1. pc[p] = "delete"
    BY <1>3 DEF DeleteTerms
  <2>2. CASE Share(p) /\ Image(p).terms = {} /\ Goto(p, "orphans")
    <3>1. /\ pc'[p] = "orphans" /\ job' = job /\ db' = db /\ value' = value
          /\ Image(p)' = Image(p)
      BY <2>2 DEF LocalType, Share, Goto, Image
    <3>. QED  BY <1>d, <1>f, <2>1, <2>2, <3>1 DEF ResetInv
  <2>3. CASE Write(p, WithoutTerms(Image(p))) /\ Goto(p, "orphans")
    <3>1. /\ pc'[p] = "orphans" /\ job' = job /\ db' = db /\ value' = value
          /\ Image(p)' = WithoutTerms(Image(p))
      BY <2>3 DEF LocalType, Write, Goto, Image
    <3>2. Image(p)'.terms = {} /\ Image(p)'.seq = Image(p).seq
      BY <1>a, <3>1, TermsRemoved
    <3>. QED  BY <1>d, <1>f, <2>1, <3>1, <3>2 DEF ResetInv
  <2>. QED  BY <1>1, <1>3, <2>2, <2>3 DEF DeleteTerms, WriteOrFail
<1>4. CASE DeleteOrphans(p)
  <2>1. /\ pc[p] = "orphans" /\ pc'[p] = "commit" /\ job' = job /\ db' = db /\ value' = value
        /\ Image(p)' = Image(p) \/ Image(p)' = WithoutOrphans(Image(p))
    BY <1>4 DEF DeleteOrphans, LocalType, Share, Write, Goto, Image
  <2>2. Image(p)'.terms = Image(p).terms /\ Image(p)'.seq = Image(p).seq
    BY <1>a, <2>1, OrphansRemoved
  <2>. QED  BY <1>d, <1>f, <2>1, <2>2 DEF ResetInv
<1>. QED  BY <1>2, <1>3, <1>4

LEMMA ProgressOfCommit ==
  ASSUME LocalType, NEW p \in Process, Progress(p), AtomicCommit(p)
  PROVE  Progress(p)'
<1>1. CASE Commit(p) /\ Finish(p, Answer(p))
  BY <1>1, ProgressWhenDone
<1>2. CASE AwaitReaders(p) /\ UNCHANGED localVars
  <2>1. Image(p)' = Image(p) /\ UNCHANGED <<db, shared, pc, job, rest, value>>
    BY <1>2 DEF AwaitReaders, localVars, Image
  <2>. QED
    BY <2>1 DEF Progress, JobInv, RowsInv, DueInv, Stored, Due, AnswerInv, ImportInv, ResetInv
<1>. QED  BY <1>1, <1>2 DEF AtomicCommit

LEMMA ProgressOfStart ==
  ASSUME FileType, LocalType, LockInv, DataInv, NEW p \in Process, Progress(p), Start(p)
  PROVE  Progress(p)'
<1>1. PICK j \in Jobs :
        /\ job' = [job EXCEPT ![p] = j] /\ rest' = [rest EXCEPT ![p] = j.rows]
        /\ pc' = [pc EXCEPT ![p] = FirstStatement(j.task)]
  BY DEF Start
<1>2. /\ job'[p] = j /\ rest'[p] = j.rows /\ pc'[p] = FirstStatement(j.task)
      /\ j # NoJob /\ db' = db /\ UNCHANGED fileVars
  BY <1>1, NoJobAsked DEF LocalType, Start, fileVars
<1>3. /\ j.task \in {"native", "record", "import", "reset", "read"}
      /\ FirstStatement(j.task) \in StatementsOf(j.task) \ {"idle", "end", "commit"}
      /\ j.task = "import" => FirstStatement(j.task) = "check"
      /\ j.task = "reset" => FirstStatement(j.task) = "count"
  BY JobShape DEF FirstStatement, StatementsOf
<1>4. Image(p)' = db
  BY <1>2 DEF Start, LockInv, HasLocks, WritingStatements, WriterStatements, Image, fileVars
<1>5. Stored(p)' = Store!Held(db.terms)
  BY <1>4 DEF Stored, Store!Held, DataInv, FileData, NoBlank
<1>6. JobInv(p)' /\ RowsInv(p)' /\ AnswerInv(p)' /\ ImportInv(p)'
  BY <1>2, <1>3 DEF JobInv, RowsInv, AnswerInv, ImportInv
<1>7. DueInv(p)'
  BY <1>2, <1>3, <1>4, <1>5 DEF DueInv, Due
<1>8. ResetInv(p)'
  BY <1>2, <1>3, <1>4 DEF ResetInv
<1>. QED  BY <1>6, <1>7, <1>8 DEF Progress

LEMMA ProgressOfRead ==
  ASSUME LocalType, NEW p \in Process, Progress(p), Read(p)
  PROVE  Progress(p)'
<1>1. CASE FinishRead(p)
  BY <1>1, ProgressWhenDone DEF FinishRead
<1>2. CASE ReadAll(p) \/ OpenCursor(p) \/ CloseCursor(p)
  <2>1. /\ pc[p] \in {"query", "cursor"} /\ pc'[p] \in {"cursor", "fetched"} /\ job' = job
    BY <1>2 DEF ReadAll, OpenCursor, CloseCursor, Goto, LocalType
  <2>2. job[p] \in Jobs /\ job[p].task = "read"
    BY <2>1, JobShape DEF Progress, JobInv, StatementsOf
  <2>. QED
    BY <2>1, <2>2, NoJobAsked
    DEF Progress, JobInv, RowsInv, DueInv, AnswerInv, ImportInv, ResetInv, StatementsOf
<1>. QED  BY <1>1, <1>2 DEF Read

LEMMA ProgressOfStep ==
  ASSUME FileType, LocalType, LockInv, DataInv, NEW p \in Process, Progress(p), AnyStep(p)
  PROVE  Progress(p)'
<1>1. CASE Fail(p) \/ Abort(p) \/ Crash(p) \/ TimeOut(p)
  BY <1>1, ProgressWhenDone DEF Fail, Abort, Crash, TimeOut
<1>2. CASE Django(p)
  BY <1>1, <1>2, ProgressOfRow, ProgressOfReset, ProgressOfCommit DEF Django
<1>. QED
  BY <1>1, <1>2, ProgressOfNative, ProgressOfStart, ProgressOfRead DEF AnyStep, Step

-----------------------------------------------------------------------------
(* Progress of the others *)

LEMMA JobsKept ==
  ASSUME LocalType, NEW p \in Process, AnyStep(p), NEW q \in Process, q # p
  PROVE  job'[q] = job[q]
<1>1. ASSUME NEW next, Goto(p, next) PROVE job'[q] = job[q]
  BY <1>1 DEF Goto
<1>2. ASSUME NEW answer, Finish(p, answer) PROVE job'[q] = job[q]
  BY <1>2 DEF LocalType, Finish
<1>3. ASSUME NEW id, RowResolved(p, id) PROVE job'[q] = job[q]
  BY <1>3 DEF RowResolved
<1>4. CASE Start(p)
  BY <1>4 DEF LocalType, Start
<1>5. CASE Fail(p) \/ Abort(p) \/ Crash(p)
  BY <1>2, <1>5 DEF Fail, Abort, Crash
<1>6. CASE Native(p)
  BY <1>1, <1>2, <1>5, <1>6
  DEF Native, NativeOpen, NativeBegin, WriteOrFail, NativeResolveSymbols, NativeMatch, NativeMiss,
      NativeInsertTerm, NativeInsertRelations, NativeCommit
<1>7. CASE Django(p)
  BY <1>1, <1>2, <1>3, <1>5, <1>7
  DEF Django, ImportCheck, SelectSymbols, InsertSymbols, WriteOrFail, FindExact, InsertTerm,
      InsertRelations, CountTerms, DeleteTerms, DeleteOrphans, AtomicCommit, TimeOut, localVars
<1>8. CASE Read(p)
  BY <1>1, <1>2, <1>8 DEF Read, ReadAll, OpenCursor, CloseCursor, FinishRead
<1>. QED  BY <1>4, <1>5, <1>6, <1>7, <1>8 DEF AnyStep, Step

(* Under a lock a process sees the same file; without one it has not got beyond *)
(* its first statement.                                                       *)
LEMMA ProgressOfBystander ==
  ASSUME FileType, LocalType, LockInv, FileData', NEW p \in Process, AnyStep(p),
         NEW q \in Process, q # p, Progress(q)
  PROVE  Progress(q)'
<1>a. /\ FileStep(p) /\ FileLocks /\ HasLocks(q)
      /\ pc'[q] = pc[q] /\ rest'[q] = rest[q] /\ value'[q] = value[q] /\ job'[q] = job[q]
  BY StepShape, JobsKept DEF LockInv, OthersKeep
<1>1. CASE q \in shared
  <2>1. Image(q)' = Image(q) /\ db' = db /\ q \in shared'
    BY <1>a, <1>1, RepeatableRead
  <2>. QED
    BY <1>a, <1>1, <2>1
    DEF Progress, JobInv, RowsInv, DueInv, Stored, Due, AnswerInv, ImportInv, ResetInv
<1>2. CASE q \notin shared
  <2>1. writer # q /\ pc[q] \notin SharedStatements
    BY <1>a, <1>2, NoneIsNoProcess DEF FileLocks, HasLocks
  <2>2. Image(q)' = db'
    <3>1. writer' # q
      BY <1>a, <2>1, RepeatableRead
    <3>. QED  BY <3>1 DEF Image
  <2>3. JobInv(q)' /\ RowsInv(q)'
    BY <1>a DEF Progress, JobInv, RowsInv
  <2>4. AnswerInv(q)' /\ ImportInv(q)'
    BY <1>a, <1>2, <2>1
    DEF Progress, ImportInv, AnswerInv, SharedStatements, WriterStatements
  <2>5. ResetInv(q)'
    <3>1. job[q].task = "reset" => pc[q] = "count"
      BY <2>1 DEF Progress, JobInv, StatementsOf, SharedStatements, NoJob
    <3>. QED  BY <1>a, <2>2, <3>1 DEF ResetInv
  <2>6. DueInv(q)'
    <3>1. SUFFICES ASSUME job[q].task \in {"native", "record", "import"}
                   PROVE  Stored(q)' \cup Due(q)' = Store!Held(db.terms)' \cup Store!ContentsOf(job[q].rows)
      BY <1>a, <2>2 DEF DueInv
    <3>2. rest[q] = job[q].rows /\ pc[q] # "end"
      BY <1>2, <2>1, <3>1 DEF Progress, RowsInv, ImportInv, SharedStatements, WriterStatements
    <3>3. Stored(q)' = Store!Held(db.terms)'
      BY <2>2 DEF Stored, Store!Held, FileData, NoBlank
    <3>4. Due(q)' = Store!ContentsOf(job[q].rows)
      BY <1>a, <3>2 DEF Due
    <3>. QED  BY <3>3, <3>4
  <2>. QED  BY <2>3, <2>4, <2>5, <2>6 DEF Progress
<1>. QED  BY <1>1, <1>2

-----------------------------------------------------------------------------
(* Results *)

LEMMA RInvNext ==
  ASSUME IInv, IInv', RInv, [Next]_vars
  PROVE  RInv'
<1>a. FileType /\ LocalType /\ LockInv /\ DataInv /\ FileData'
  BY DEF IInv, TypeInv, DataInv
<1>1. CASE UNCHANGED vars
  BY <1>1
  DEF RInv, Progress, JobInv, RowsInv, DueInv, Stored, Due, AnswerInv, ImportInv,
      ResetInv, Image, vars, fileVars, localVars
<1>2. ASSUME NEW p \in Process, AnyStep(p)
      PROVE  RInv'
  <2>1. Progress(p)'
    BY <1>a, <1>2, ProgressOfStep DEF RInv
  <2>2. ASSUME NEW q \in Process, q # p PROVE Progress(q)'
    BY <1>a, <1>2, <2>2, ProgressOfBystander DEF RInv
  <2>. QED  BY <2>1, <2>2 DEF RInv
<1>. QED  BY <1>1, <1>2 DEF Next, AnyStep

LEMMA RInvInit == Init => RInv
<1> SUFFICES ASSUME Init PROVE RInv
  OBVIOUS
<1>1. ASSUME NEW p \in Process PROVE Progress(p)
  BY DEF Init, NoJob, Progress, JobInv, RowsInv, DueInv, AnswerInv, ImportInv, ResetInv
<1>. QED  BY <1>1 DEF RInv

(* Whatever the processes do, somebody who sees only the committed Terms, the   *)
(* requests and the answers sees the store of TermStore: every request takes    *)
(* effect at one instant, wholly or not at all (SubstrateStore!ImplementsStore). *)
THEOREM StoreRefinement == Spec => ImplementsStore
<1>1. Init => Store!Init
  BY DEF Init, FileInit, EmptyImage, Store!Init
<1>2. IInv /\ IdInv /\ RInv /\ [Next]_vars => [Store!Next]_Store!vars
  <2> SUFFICES ASSUME IInv, IdInv, RInv, [Next]_vars PROVE [Store!Next]_Store!vars
    OBVIOUS
  <2>a. FileType /\ LocalType /\ LockInv /\ DataInv
    BY DEF IInv, TypeInv
  <2>1. CASE UNCHANGED vars
    BY <2>1 DEF vars, fileVars, localVars, Store!vars
  <2>2. ASSUME NEW p \in Process, AnyStep(p)
        PROVE  [Store!Next]_Store!vars
    <3>a. Progress(p)
      BY DEF RInv
    <3>1. CASE Silent
      BY <3>1, SilentStutters
    <3>2. CASE Abort(p) \/ Crash(p)
      <4>1. Store!Refuse(p) \/ Store!Vanish(p)
        BY <2>a, <3>a, <3>2, FailureRefines DEF Abort, Crash
      <4>. QED  BY <4>1 DEF Store!Next
    <3>3. CASE Native(p)
      BY <2>a, <3>a, <3>1, <3>3, NativeRefines DEF Store!Next
    <3>4. CASE Django(p)
      BY <2>a, <3>a, <3>1, <3>4, DjangoRefines DEF Store!Next
    <3>5. CASE Start(p) \/ Read(p)
      BY <2>a, <3>a, <3>1, <3>5, OthersRefine DEF Store!Next
    <3>. QED  BY <2>2, <3>2, <3>3, <3>4, <3>5 DEF AnyStep, Step
  <2>. QED  BY <2>1, <2>2 DEF Next, AnyStep
<1>3. IInv /\ IInv' /\ RInv /\ [Next]_vars => RInv'
  BY RInvNext
<1>. QED
  BY <1>1, <1>2, <1>3, RInvInit, Invariance, IdInvariance, PTL DEF Spec, ImplementsStore, Store!Spec
=============================================================================
