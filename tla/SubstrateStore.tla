--------------------------- MODULE SubstrateStore ---------------------------
(***************************************************************************)
(* The Symbol/Term substrate: every operation that reads or writes the three *)
(* tables core_symbol, core_term and core_termsymbol, statement by           *)
(* statement, by processes that share nothing but the file of SqliteFile.    *)
(*                                                                          *)
(*   Sensor   native/enpiro-record, one observation per timer tick           *)
(*   Admin    manage.py record_sensor and manage.py import_readings_csv      *)
(*   Web      the gunicorn worker: reset, history and CSV export             *)
(*                                                                          *)
(* A Symbol is its blob (core_symbol.symbol is UNIQUE).  A Term is a row     *)
(* [id, content]: content is the sequence of its Symbols by order, <<>>      *)
(* between the insert into core_term and the insert into core_termsymbol.    *)
(***************************************************************************)
EXTENDS SqliteFile, Sequences, FiniteSets

CONSTANTS
  Web, Sensor, Admin,   \* the processes, by role
  Contents,             \* the observations, encoded: nonempty sequences of blobs
  Files,                \* the CSV files, as sequences of encoded rows
  MaxSeq                \* bound: no write starts once this many ids are issued

ASSUME Roles ==
  /\ Process = Web \cup Sensor \cup Admin
  /\ Web \cap Sensor = {} /\ Web \cap Admin = {} /\ Sensor \cap Admin = {}
ASSUME ContentsAreSequences == \A c \in Contents : c \in Seq(UNION {{c[i] : i \in DOMAIN c}}) /\ c # <<>>
ASSUME FilesHoldContents == Files \subseteq Seq(Contents)
ASSUME IdsAreBounded == MaxSeq \in Nat

VARIABLES
  pc,         \* the statement each process runs next
  job,        \* the request it serves: [task, rows]
  rest,       \* the rows it has not resolved yet
  value,      \* what it will answer: a Term id, or a number of deleted Terms
  reply       \* its last answer

localVars == <<pc, job, rest, value, reply>>
vars == <<fileVars, localVars>>

-----------------------------------------------------------------------------
(* Data *)

Atoms(content) == {content[i] : i \in DOMAIN content}
Blobs == UNION {Atoms(c) : c \in Contents}

NoJob == [task |-> "none", rows |-> <<>>]
Jobs ==
  [task : {"native", "record"}, rows : {<<c>> : c \in Contents}]
    \cup [task : {"import"}, rows : Files]
    \cup [task : {"reset", "read"}, rows : {<<>>}]

TasksOf(p) ==
  CASE p \in Sensor -> {"native"}
    [] p \in Admin  -> {"record", "import"}
    [] p \in Web    -> {"reset", "read"}

FirstStatement(task) ==
  CASE task = "native" -> "open"
    [] task = "record" -> "select"
    [] task = "import" -> "check"
    [] task = "reset"  -> "count"
    [] task = "read"   -> "query"

NoReply == [status |-> "none", value |-> 0]
Failed == [status |-> "failed", value |-> 0]
Ok(v) == [status |-> "ok", value |-> v]

EmptyImage == [symbols |-> {}, terms |-> {}, seq |-> 0]

WithSymbols(image, content) ==
  [image EXCEPT !.symbols = @ \cup Atoms(content)]

(* Mutated NewId: a plain INTEGER PRIMARY KEY, as the recorder's own schema has *)
(* it, gives ids out again after a reset.                                      *)
NewIdAfterHighest(image) == Cardinality(image.terms) + 1

(* AUTOINCREMENT: the id after the highest one ever issued. *)
NewId(image) == image.seq + 1

WithTerm(image) ==
  [image EXCEPT !.terms = @ \cup {[id |-> NewId(image), content |-> <<>>]},
                !.seq = NewId(image)]

(* Mutated WithRelations: the relations are numbered from 1, the first Symbol  *)
(* is passed over.                                                             *)
WithRelationsButFirst(image, id, content) ==
  [image EXCEPT !.terms = {t \in @ : t.id # id} \cup {[id |-> id, content |-> Tail(content)]}]

WithRelations(image, id, content) ==
  [image EXCEPT !.terms = {t \in @ : t.id # id} \cup {[id |-> id, content |-> content]}]

WithoutTerms(image) == [image EXCEPT !.terms = {}]

Orphans(image) ==
  {s \in image.symbols : \A t \in image.terms : s \notin Atoms(t.content)}

WithoutOrphans(image) == [image EXCEPT !.symbols = @ \ Orphans(image)]

(* The Terms whose Symbols are exactly content, in order. *)
Matches(image, content) == {t \in image.terms : t.content = content}

(* Both lookups take the match with the lowest id. *)
IsFirstMatch(t, image, content) ==
  /\ t \in Matches(image, content)
  /\ \A u \in Matches(image, content) : t.id <= u.id

Row(p) == Head(rest[p])

Init ==
  /\ FileInit(EmptyImage)
  /\ pc = [p \in Process |-> "idle"]
  /\ job = [p \in Process |-> NoJob]
  /\ rest = [p \in Process |-> <<>>]
  /\ value = [p \in Process |-> 0]
  /\ reply = [p \in Process |-> NoReply]

-----------------------------------------------------------------------------
(* Control *)

Goto(p, statement) ==
  /\ pc' = [pc EXCEPT ![p] = statement]
  /\ UNCHANGED <<job, rest, value, reply>>

Finish(p, answer) ==
  /\ pc' = [pc EXCEPT ![p] = "idle"]
  /\ job' = [job EXCEPT ![p] = NoJob]
  /\ rest' = [rest EXCEPT ![p] = <<>>]
  /\ value' = [value EXCEPT ![p] = 0]
  /\ reply' = [reply EXCEPT ![p] = answer]

(* The error path of every operation: roll back, report. *)
Fail(p) == Rollback(p) /\ Finish(p, Failed)

(* A request comes in: the timer fires, a command is run, a page is asked for. *)
Start(p) ==
  /\ pc[p] = "idle"
  /\ \E j \in Jobs :
       /\ j.task \in TasksOf(p)
       /\ j.rows # <<>> => db.seq < MaxSeq
       /\ job' = [job EXCEPT ![p] = j]
       /\ rest' = [rest EXCEPT ![p] = j.rows]
       /\ pc' = [pc EXCEPT ![p] = FirstStatement(j.task)]
  /\ reply' = [reply EXCEPT ![p] = NoReply]
  /\ UNCHANGED <<fileVars, value>>

(* Mutated WriteOrFail: wait for the other writer instead of failing. *)
WriteOrWait(p, image, next) == Write(p, image) /\ Goto(p, next)

(* A statement that changes p's image, when p may write; otherwise the        *)
(* statement fails at once: a connection that already reads is not made to    *)
(* wait for another writer, and the recorder never waits.                     *)
WriteOrFail(p, image, next) ==
  \/ Write(p, image) /\ Goto(p, next)
  \/ ~CanReserve(p) /\ Fail(p)

-----------------------------------------------------------------------------
(* The recorder: enpiro_record.c, ep_store_open, ep_store_resolve_term.  It   *)
(* sets no busy timeout, so a lock it cannot have ends the run.               *)

NativeOpen(p) ==
  /\ pc[p] = "open"
  /\ \/ CanShare(p) /\ Goto(p, "begin") /\ UNCHANGED fileVars
     \/ ~CanShare(p) /\ Fail(p)

NativeBegin(p) ==
  /\ pc[p] = "begin"
  /\ WriteOrFail(p, db, "symbols")

NativeResolveSymbols(p) ==
  /\ pc[p] = "symbols"
  /\ Write(p, WithSymbols(Image(p), Row(p)))
  /\ Goto(p, "find")

(* The COMMIT after a match is not checked; nothing is dirty then.            *)
NativeMatch(p) ==
  /\ pc[p] = "find"
  /\ \E t \in Image(p).terms :
       /\ IsFirstMatch(t, Image(p), Row(p))
       /\ Commit(p)
       /\ Finish(p, Ok(t.id))

NativeMiss(p) ==
  /\ pc[p] = "find"
  /\ Matches(Image(p), Row(p)) = {}
  /\ Goto(p, "newterm")
  /\ UNCHANGED fileVars

NativeInsertTerm(p) ==
  /\ pc[p] = "newterm"
  /\ Write(p, WithTerm(Image(p)))
  /\ value' = [value EXCEPT ![p] = NewId(Image(p))]
  /\ pc' = [pc EXCEPT ![p] = "fill"]
  /\ UNCHANGED <<job, rest, reply>>

NativeInsertRelations(p) ==
  /\ pc[p] = "fill"
  /\ Write(p, WithRelations(Image(p), value[p], Row(p)))
  /\ Goto(p, "end")

NativeCommit(p) ==
  /\ pc[p] = "end"
  /\ \/ Commit(p) /\ Finish(p, Ok(value[p]))
     \/ ~CanCommit(p) /\ Fail(p)

Native(p) ==
  \/ NativeOpen(p) \/ NativeBegin(p) \/ NativeResolveSymbols(p)
  \/ NativeMatch(p) \/ NativeMiss(p)
  \/ NativeInsertTerm(p) \/ NativeInsertRelations(p) \/ NativeCommit(p)

-----------------------------------------------------------------------------
(* The management commands: TermManager.resolve_clear in transaction.atomic,  *)
(* once for record_sensor, once per row inside the import's own transaction.  *)

(* The row is resolved to Term id; the rest of the file follows. *)
RowResolved(p, id) ==
  /\ rest' = [rest EXCEPT ![p] = Tail(@)]
  /\ value' = [value EXCEPT ![p] = id]
  /\ pc' = [pc EXCEPT ![p] = IF Len(rest[p]) > 1 THEN "select" ELSE "commit"]
  /\ UNCHANGED <<job, reply>>

(* Mutated ImportCheck: the check runs before the transaction begins. *)
ImportCheckOutside(p) ==
  /\ pc[p] = "check"
  /\ CanShare(p)
  /\ \/ /\ Image(p).terms = {}
        /\ Goto(p, IF rest[p] = <<>> THEN "commit" ELSE "select")
        /\ UNCHANGED fileVars
     \/ Image(p).terms # {} /\ Fail(p)

(* if Term.objects.exists(): raise CommandError *)
ImportCheck(p) ==
  /\ pc[p] = "check"
  /\ \/ /\ Image(p).terms = {}
        /\ Share(p)
        /\ Goto(p, IF rest[p] = <<>> THEN "commit" ELSE "select")
     \/ Image(p).terms # {} /\ CanShare(p) /\ Fail(p)

(* A novel Symbol makes the lookup of an existing Term superfluous. *)
SelectSymbols(p) ==
  /\ pc[p] = "select"
  /\ Share(p)
  /\ Goto(p, IF Atoms(Row(p)) \subseteq Image(p).symbols THEN "lookup" ELSE "insert")

InsertSymbols(p) ==
  /\ pc[p] = "insert"
  /\ WriteOrFail(p, WithSymbols(Image(p), Row(p)), "term")

FindExact(p) ==
  /\ pc[p] = "lookup"
  /\ Share(p)
  /\ \/ \E t \in Image(p).terms :
          IsFirstMatch(t, Image(p), Row(p)) /\ RowResolved(p, t.id)
     \/ Matches(Image(p), Row(p)) = {} /\ Goto(p, "term")

InsertTerm(p) ==
  /\ pc[p] = "term"
  /\ \/ /\ Write(p, WithTerm(Image(p)))
        /\ value' = [value EXCEPT ![p] = NewId(Image(p))]
        /\ pc' = [pc EXCEPT ![p] = "relations"]
        /\ UNCHANGED <<job, rest, reply>>
     \/ ~CanReserve(p) /\ Fail(p)

InsertRelations(p) ==
  /\ pc[p] = "relations"
  /\ Write(p, WithRelations(Image(p), value[p], Row(p)))
  /\ RowResolved(p, value[p])

-----------------------------------------------------------------------------
(* reset_dataset, in transaction.atomic *)

CountTerms(p) ==
  /\ pc[p] = "count"
  /\ Share(p)
  /\ value' = [value EXCEPT ![p] = Cardinality(Image(p).terms)]
  /\ pc' = [pc EXCEPT ![p] = "delete"]
  /\ UNCHANGED <<job, rest, reply>>

(* A queryset that selects no row issues no DELETE. *)
DeleteTerms(p) ==
  /\ pc[p] = "delete"
  /\ IF Image(p).terms = {}
     THEN Share(p) /\ Goto(p, "orphans")
     ELSE WriteOrFail(p, WithoutTerms(Image(p)), "orphans")

DeleteOrphans(p) ==
  /\ pc[p] = "orphans"
  /\ IF Orphans(Image(p)) = {}
     THEN Share(p) /\ Goto(p, "commit")
     ELSE Write(p, WithoutOrphans(Image(p))) /\ Goto(p, "commit")

-----------------------------------------------------------------------------
(* The end of a transaction.atomic block.  Django's connections wait up to    *)
(* five seconds for a lock.                                                   *)

Answer(p) ==
  IF job[p].task = "import" THEN Ok(Len(job[p].rows)) ELSE Ok(value[p])

AtomicCommit(p) ==
  /\ pc[p] = "commit"
  /\ \/ Commit(p) /\ Finish(p, Answer(p))
     \/ AwaitReaders(p) /\ UNCHANGED localVars

Waiting(p) ==
  \/ pc[p] \in {"check", "select", "count", "query", "fetched"} /\ ~CanShare(p)
  \/ pc[p] = "commit" /\ ~CanCommit(p) /\ pending

TimeOut(p) ==
  /\ Waiting(p)
  /\ Fail(p)

Django(p) ==
  \/ ImportCheck(p) \/ SelectSymbols(p) \/ InsertSymbols(p) \/ FindExact(p)
  \/ InsertTerm(p) \/ InsertRelations(p)
  \/ CountTerms(p) \/ DeleteTerms(p) \/ DeleteOrphans(p)
  \/ AtomicCommit(p) \/ TimeOut(p)

-----------------------------------------------------------------------------
(* History and CSV export, outside any transaction.  A first statement finds  *)
(* the Terms; while its cursor has rows left it holds SHARED.  A second one   *)
(* (the prefetch) reads their Symbols and holds its lock only while it runs.  *)
(* HistoryReads says what the two of them return.                             *)

(* The first statement runs to its end at once. *)
ReadAll(p) ==
  /\ pc[p] = "query"
  /\ CanShare(p)
  /\ Goto(p, "fetched")
  /\ UNCHANGED fileVars

(* Mutated OpenCursor: a cursor that keeps no lock. *)
OpenCursorUnlocked(p) ==
  /\ pc[p] = "query"
  /\ CanShare(p)
  /\ Goto(p, "cursor")
  /\ UNCHANGED fileVars

OpenCursor(p) ==
  /\ pc[p] = "query"
  /\ Share(p)
  /\ Goto(p, "cursor")

CloseCursor(p) ==
  /\ pc[p] = "cursor"
  /\ Commit(p)
  /\ Goto(p, "fetched")

FinishRead(p) ==
  /\ pc[p] = "fetched"
  /\ Finish(p, Ok(0))
  /\ UNCHANGED fileVars

Read(p) == ReadAll(p) \/ OpenCursor(p) \/ CloseCursor(p) \/ FinishRead(p)

-----------------------------------------------------------------------------
(* Failures: an exception or an I/O error inside a request (a CSV row that    *)
(* does not parse, a full disk), and the death of the process.                *)

Abort(p) == pc[p] # "idle" /\ Fail(p)

Crash(p) == pc[p] # "idle" /\ Rollback(p) /\ Finish(p, NoReply)

Step(p) == Native(p) \/ Django(p) \/ Read(p)

Next == \E p \in Process : Start(p) \/ Step(p) \/ Abort(p) \/ Crash(p)

Spec == Init /\ [][Next]_vars

(* Every process runs; nobody has to send a request, nothing has to fail, and *)
(* a connection that waits for a lock need not ever give up.                  *)
FairSpec == Spec /\ \A p \in Process : WF_vars(Step(p) /\ ~TimeOut(p))

-----------------------------------------------------------------------------
(* Properties *)

Tasks == {"native", "record", "import", "reset", "read"}
Statements ==
  {"idle",
   "open", "begin", "symbols", "find", "newterm", "fill", "end",
   "check", "select", "insert", "lookup", "term", "relations",
   "count", "delete", "orphans", "commit",
   "query", "cursor", "fetched"}

IsImage(image) ==
  image \in [symbols : SUBSET Blobs,
             terms : SUBSET [id : Nat, content : Contents \cup {<<>>}],
             seq : Nat]

(* Every variable has the shape the code gives it. *)
TypeOK ==
  /\ IsImage(db) /\ IsImage(work)
  /\ shared \subseteq Process
  /\ writer \in Process \cup {None}
  /\ pending \in BOOLEAN
  /\ pc \in [Process -> Statements]
  /\ job \in [Process -> Jobs \cup {NoJob}]
  /\ rest \in [Process -> Seq(Contents)]
  /\ value \in [Process -> Nat]
  /\ reply \in [Process -> [status : {"none", "ok", "failed"}, value : Nat]]

(* Deduplication: two implementations of "resolve", in C and in Python, look  *)
(* a Term up and insert it in separate statements, yet no content is ever     *)
(* committed twice (core/models.py:113-135, native/enpiro_store.c:225-314).   *)
UniqueContent ==
  \A t, u \in db.terms : t.content = u.content => t = u

(* A committed Term is whole: it has its relations, its Symbols are stored,   *)
(* and no Symbol is stored that no Term uses.  A writer that fails, loses a   *)
(* lock or dies between two of its inserts leaves no part of its work behind. *)
GraphComplete ==
  /\ \A t \in db.terms : t.content # <<>> /\ Atoms(t.content) \subseteq db.symbols
  /\ Orphans(db) = {}

(* A reference to a Term stays good: an id that was ever given out never comes *)
(* to stand for another content, across resets and refused or crashed writes   *)
(* included ("Stable references between stored values",                        *)
(* docs/data-substrate-and-semantics.md:13).                                   *)
StableReferences ==
  [][/\ db'.seq >= db.seq
     /\ \A t \in db'.terms : t.id <= db.seq => t \in db.terms]_db

(* The file, its locks and the statements implement the promise of TermStore. *)
Store == INSTANCE TermStore WITH terms <- db.terms, issued <- db.seq
ImplementsStore == Store!Spec

(* Whatever locks the others hold, every request comes to an end.             *)
EveryRequestAnswered ==
  \A p \in Process : pc[p] # "idle" ~> pc[p] = "idle"
=============================================================================
