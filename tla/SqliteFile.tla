----------------------------- MODULE SqliteFile -----------------------------
(***************************************************************************)
(* The one SQLite database file that the web process, the management        *)
(* commands and the native recorder share (README, "The shared file").      *)
(*                                                                          *)
(* SQLite is not under src/: this module is the behaviour of its rollback    *)
(* journal that the code relies on.  Locks are SHARED (any number of         *)
(* connections), RESERVED (one connection, which buffers its changes) and    *)
(* PENDING (the writer waits for the readers to leave and lets no new one    *)
(* in).  EXCLUSIVE lasts only as long as the commit itself and is part of    *)
(* the step Commit.                                                          *)
(***************************************************************************)
EXTENDS Naturals

CONSTANTS
  Process,    \* the operating-system processes that open the file
  None        \* "no process"

ASSUME NoneIsNoProcess == None \notin Process

VARIABLES
  db,         \* the committed image of the file
  work,       \* the image as its writer sees it; db while nobody writes
  shared,     \* the processes that hold SHARED
  writer,     \* the process that holds RESERVED, or None
  pending     \* the writer holds PENDING: its COMMIT waits for the readers

fileVars == <<db, work, shared, writer, pending>>

FileInit(image) ==
  /\ db = image
  /\ work = image
  /\ shared = {}
  /\ writer = None
  /\ pending = FALSE

(* What a statement of p reads: the pages in p's own cache if p writes, the  *)
(* file otherwise.  Isolation is not built in: it rests on the locks.        *)
Image(p) == IF writer = p THEN work ELSE db

(* SHARED is refused to newcomers while a commit is pending. *)
CanShare(p) == p \in shared \/ ~pending

(* RESERVED is refused while another process holds it. *)
CanReserve(p) == CanShare(p) /\ writer \in {p, None}

(* A transaction has something to write back to the file. *)
Dirty(p) == writer = p /\ work # db

(* The file is written only under EXCLUSIVE: every other reader is gone. *)
CanCommit(p) == Dirty(p) => shared = {p}

(* Mutated Share: every statement in a transaction of its own. *)
ShareForStatementOnly(p) == CanShare(p) /\ UNCHANGED fileVars

(* A read inside an explicit transaction, or of a cursor left open: SHARED   *)
(* stays held when the statement is over.                                    *)
Share(p) ==
  /\ CanShare(p)
  /\ shared' = shared \cup {p}
  /\ UNCHANGED <<db, work, writer, pending>>

(* A statement that writes leaves p with RESERVED and the changed image. *)
Write(p, image) ==
  /\ CanReserve(p)
  /\ shared' = shared \cup {p}
  /\ writer' = p
  /\ work' = image
  /\ UNCHANGED <<db, pending>>

(* p waits in COMMIT with PENDING. *)
AwaitReaders(p) ==
  /\ Dirty(p) /\ ~pending /\ ~CanCommit(p)
  /\ pending' = TRUE
  /\ UNCHANGED <<db, work, shared, writer>>

(* All of p's locks are given up. *)
Unlock(p) ==
  /\ shared' = shared \ {p}
  /\ writer' = IF writer = p THEN None ELSE writer
  /\ pending' = (pending /\ writer # p)

Commit(p) ==
  /\ CanCommit(p)
  /\ db' = Image(p)
  /\ work' = IF writer = p THEN Image(p) ELSE work
  /\ Unlock(p)

(* Mutated Rollback: an error path that commits what was done so far. *)
RollbackKeepsWork(p) ==
  /\ db' = Image(p)
  /\ work' = IF writer = p THEN Image(p) ELSE work
  /\ Unlock(p)

(* ROLLBACK, and equally the death of the process: the locks die with it and *)
(* the next reader plays a hot journal back.                                 *)
Rollback(p) ==
  /\ db' = db
  /\ work' = IF writer = p THEN db ELSE work
  /\ Unlock(p)
=============================================================================
