---------------------------- MODULE LegacyUpgrade ----------------------------
(***************************************************************************)
(* manage.py migrate over the two migrations that turn the older,            *)
(* encrypted-capable substrate into the present one:                         *)
(*                                                                          *)
(*   0002_simplify_legacy_substrate   atomic = False: every statement commits *)
(*                                    by itself, so that a crash or an error *)
(*                                    leaves what the ones before it did     *)
(*   0002_termsymbol_lookup_index     one statement, in a transaction        *)
(*                                                                          *)
(* beside a native recorder that the systemd timer starts every three        *)
(* minutes and that creates whatever table of its own schema is missing.     *)
(***************************************************************************)
EXTENDS Integers, Sequences, FiniteSetsExt, Functions

CONSTANTS
  Originals,        \* the legacy substrates the upgrade may find: [Table -> rows]
  Blob,             \* the one Symbol of the reading that the recorder resolves
  MaxRuns,          \* bound: how often manage.py migrate is run
  MaxCrashes,       \* bound: how often it is killed
  Recording         \* does the timer keep firing during the upgrade?

Table == {"term", "symbol", "termsymbol"}

ASSUME BoundsAreNumbers == MaxRuns \in Nat /\ MaxCrashes \in Nat /\ Recording \in BOOLEAN
ASSUME OriginalsAreGraphs ==
  \A o \in Originals :
    /\ DOMAIN o = Table
    /\ \A r \in o["termsymbol"] : /\ r.term \in {t.id : t \in o["term"]}
                                  /\ r.symbol \in {s.id : s \in o["symbol"]}

VARIABLES
  core,         \* the tables core_<t> that exist, with their rows
  legacy,       \* the tables legacy_core_<t> that exist, with their rows
  old,          \* the core tables that still have the columns of the legacy schema
  index,        \* where core_ts_ord_sym_term_idx is: "none", "core" or "legacy"
  applied,      \* the migrations recorded in django_migrations
  pc,           \* what the migrator does next
  step,         \* in Script: the statement it runs next
  runs, crashes,
  recorder,     \* the statement the native recorder runs next
  committed     \* history: every row anyone was told is stored, by table

tables == <<core, legacy, old, index>>
vars == <<core, legacy, old, index, applied, pc, step, runs, crashes, recorder, committed>>

Rows(t) == IF t \in DOMAIN core THEN core[t] ELSE {}
LegacyRows(t) == IF t \in DOMAIN legacy THEN legacy[t] ELSE {}

(* A row the present schema cannot hold: an encrypted or file Symbol, or a      *)
(* relation with a mutation.                                                  *)
Unsupported == {"encrypted"}
HasUnsupported(rows) == \E r \in rows["symbol"] : r.blob \in Unsupported
ASSUME ReadingIsSupported == Blob \notin Unsupported

(* Mutated Script: the new tables are created before the old ones make room.   *)
ScriptCreatingFirst ==
  << <<"create", "term">>, <<"create", "symbol">>, <<"create", "termsymbol">>,
     <<"rename", "termsymbol">>, <<"rename", "symbol">>, <<"rename", "term">>,
     <<"copy", "term">>, <<"copy", "symbol">>, <<"copy", "termsymbol">>,
     <<"drop", "termsymbol">>, <<"drop", "symbol">>, <<"drop", "term">> >>

(* The statements of simplify_legacy_substrate that touch the three tables. The *)
(* two tables of keys it drops last are left out: nothing refers to them.      *)
Script ==
  << <<"rename", "termsymbol">>, <<"rename", "symbol">>, <<"rename", "term">>,
     <<"create", "term">>, <<"create", "symbol">>, <<"create", "termsymbol">>,
     <<"copy", "term">>, <<"copy", "symbol">>, <<"copy", "termsymbol">>,
     <<"drop", "termsymbol">>, <<"drop", "symbol">>, <<"drop", "term">> >>

Init ==
  /\ \E o \in Originals :
       core = o /\ committed = o
  /\ legacy = <<>>
  /\ old \in {Table, {}}
  /\ old = {} => ~HasUnsupported(core)
  /\ index \in {"none", "core"}
  /\ applied = {} /\ pc = "idle" /\ step = 1 /\ runs = 0 /\ crashes = 0
  /\ recorder = "idle"

-----------------------------------------------------------------------------
(* The statements.  Each says what it does when it succeeds. *)

(* The tables f, and t with these rows beside them. *)
WithTable(f, t, rows) == [u \in DOMAIN f \cup {t} |-> IF u = t THEN rows ELSE f[u]]

Rename(t) ==
  /\ t \in DOMAIN core /\ t \notin DOMAIN legacy
  /\ legacy' = WithTable(legacy, t, core[t])
  /\ core' = Restrict(core, DOMAIN core \ {t})
  /\ old' = old \ {t}
  /\ index' = IF t = "termsymbol" /\ index = "core" THEN "legacy" ELSE index

Create(t) ==
  /\ t \notin DOMAIN core
  /\ core' = WithTable(core, t, {})
  /\ UNCHANGED <<legacy, old, index>>

(* Ids are primary keys, and a Symbol's blob is unique. *)
Clash(t, rows, more) ==
  \E r \in rows, m \in more :
    r.id = m.id \/ (t = "symbol" /\ r.blob = m.blob)

(* Mutated Copy: INSERT OR IGNORE. *)
CopyOrIgnore(t) ==
  /\ t \in DOMAIN core /\ t \in DOMAIN legacy
  /\ core' = [core EXCEPT ![t] = @ \cup {m \in legacy[t] : ~Clash(t, @, {m})}]
  /\ UNCHANGED <<legacy, old, index>>

Copy(t) ==
  /\ t \in DOMAIN core /\ t \in DOMAIN legacy
  /\ ~Clash(t, core[t], legacy[t])
  /\ core' = [core EXCEPT ![t] = @ \cup legacy[t]]
  /\ UNCHANGED <<legacy, old, index>>

Drop(t) ==
  /\ t \in DOMAIN legacy
  /\ legacy' = Restrict(legacy, DOMAIN legacy \ {t})
  /\ index' = IF t = "termsymbol" /\ index = "legacy" THEN "none" ELSE index
  /\ UNCHANGED <<core, old>>

Statement(k) ==
  LET op == Script[k][1]
      t  == Script[k][2]
  IN \/ op = "rename" /\ Rename(t)
     \/ op = "create" /\ Create(t)
     \/ op = "copy"   /\ Copy(t)
     \/ op = "drop"   /\ Drop(t)

-----------------------------------------------------------------------------
(* manage.py migrate *)

Goto(l, k) == pc' = l /\ step' = k /\ UNCHANGED <<runs, crashes, recorder, committed>>

Migrate ==
  /\ pc = "idle" /\ runs < MaxRuns
  /\ applied # {"simplify", "index"}
  /\ pc' = IF "simplify" \in applied THEN "index" ELSE "inspect"
  /\ runs' = runs + 1
  /\ UNCHANGED <<tables, applied, step, crashes, recorder, committed>>

(* created_at is not a column of core_symbol: nothing to do. *)
AlreadySimple ==
  /\ pc = "inspect"
  /\ "symbol" \in DOMAIN core \ old
  /\ applied' = applied \cup {"simplify"}
  /\ UNCHANGED tables /\ Goto("index", 1)

(* Mutated Simplify: the check for unsupported Symbols is gone. *)
SimplifyUnchecked ==
  /\ pc = "inspect"
  /\ "symbol" \in DOMAIN core \cap old
  /\ DOMAIN legacy = {}
  /\ UNCHANGED <<tables, applied>> /\ Goto("script", 1)

(* Every check of simplify_legacy_substrate passes. *)
Simplify ==
  /\ pc = "inspect"
  /\ "symbol" \in DOMAIN core \cap old
  /\ DOMAIN legacy = {}
  /\ ~HasUnsupported(core)
  /\ UNCHANGED <<tables, applied>> /\ Goto("script", 1)

(* One of them fails, or core_symbol does not exist: the command ends. *)
Refuse ==
  /\ pc = "inspect"
  /\ \/ "symbol" \notin DOMAIN core
     \/ /\ "symbol" \in old
        /\ DOMAIN legacy # {} \/ HasUnsupported(core)
  /\ UNCHANGED <<tables, applied>> /\ Goto("idle", 1)

Execute ==
  /\ pc = "script"
  /\ Statement(step)
  /\ UNCHANGED applied
  /\ IF step < Len(Script) THEN Goto("script", step + 1) ELSE Goto("check", 1)

(* A statement fails (a table exists, an id is taken): the command ends, what  *)
(* the statements before it did stays.                                        *)
StatementFails ==
  /\ pc = "script"
  /\ ~ENABLED Statement(step)
  /\ UNCHANGED <<tables, applied>> /\ Goto("idle", 1)

References ==
  \A r \in Rows("termsymbol") : /\ r.term \in {t.id : t \in Rows("term")}
                                /\ r.symbol \in {s.id : s \in Rows("symbol")}

CheckConstraints ==
  /\ pc = "check"
  /\ UNCHANGED tables
  /\ IF References
     THEN applied' = applied \cup {"simplify"} /\ Goto("index", 1)
     ELSE UNCHANGED applied /\ Goto("idle", 1)

(* AddIndex fails when the recorder has created the index of the same name. *)
AddIndex ==
  /\ pc = "index"
  /\ UNCHANGED <<core, legacy, old>>
  /\ IF index = "none" /\ "termsymbol" \in DOMAIN core
     THEN index' = "core" /\ applied' = applied \cup {"index"}
     ELSE UNCHANGED <<index, applied>>
  /\ Goto("idle", 1)

(* The command is killed, or a statement gives up on a lock the recorder holds. *)
Crash ==
  /\ pc # "idle" /\ crashes < MaxCrashes
  /\ pc' = "idle" /\ step' = 1
  /\ crashes' = crashes + 1
  /\ UNCHANGED <<tables, applied, runs, recorder, committed>>

-----------------------------------------------------------------------------
(* The native recorder *)

RecorderGoto(s) == recorder' = s /\ UNCHANGED <<applied, pc, step, runs, crashes>>

RecorderStart ==
  /\ Recording /\ recorder = "idle"
  /\ UNCHANGED <<tables, committed>> /\ RecorderGoto("term")

NextStatement ==
  [term |-> "symbol", symbol |-> "termsymbol", termsymbol |-> "index"]

(* CREATE TABLE IF NOT EXISTS core_<t> *)
RecorderCreate ==
  /\ recorder \in Table
  /\ Create(recorder) \/ (recorder \in DOMAIN core /\ UNCHANGED tables)
  /\ UNCHANGED committed /\ RecorderGoto(NextStatement[recorder])

(* Mutated RecorderIndex: the failure of CREATE INDEX goes unnoticed. *)
RecorderIndexAnyway ==
  /\ recorder = "index"
  /\ index' = IF index = "none" THEN "core" ELSE index
  /\ UNCHANGED <<core, legacy, old, committed>> /\ RecorderGoto("write")

(* CREATE INDEX IF NOT EXISTS: an index of that name on any table will do. *)
RecorderIndex ==
  /\ recorder = "index"
  /\ "termsymbol" \in DOMAIN core
  /\ index' = IF index = "none" THEN "core" ELSE index
  /\ UNCHANGED <<core, legacy, old, committed>> /\ RecorderGoto("write")

FreshId(t) == Max({0} \cup {r.id : r \in core[t]}) + 1

(* Is the Symbol with this id, and nothing else, a stored Term? *)
IsTerm(symbol) ==
  \E t \in core["term"] :
    {r.symbol : r \in {q \in core["termsymbol"] : q.term = t.id}} = {symbol}

(* The reading's Symbol and Term, found or inserted in one transaction.  The    *)
(* columns of the legacy schema that the recorder does not fill are NOT NULL.  *)
RecorderWrite ==
  /\ recorder = "write"
  /\ DOMAIN core = Table /\ old = {}
  /\ LET found == {s \in core["symbol"] : s.blob = Blob}
     IN \E s \in IF found # {} THEN found ELSE {[id |-> FreshId("symbol"), blob |-> Blob]} :
          IF IsTerm(s.id)
          THEN UNCHANGED <<core, committed>>
          ELSE LET term == FreshId("term")
                   new == [term       |-> {[id |-> term]},
                           symbol     |-> {s},
                           termsymbol |-> {[id |-> FreshId("termsymbol"),
                                            term |-> term, symbol |-> s.id]}]
               IN /\ core' = [t \in Table |-> core[t] \cup new[t]]
                  /\ committed' = [t \in Table |-> committed[t] \cup new[t]]
  /\ UNCHANGED <<legacy, old, index>> /\ RecorderGoto("idle")

(* A lock is held, a column or a table is not there: the reading is lost. *)
RecorderFails ==
  /\ recorder # "idle"
  /\ UNCHANGED <<tables, committed>> /\ RecorderGoto("idle")

Upgrade ==
  \/ AlreadySimple \/ Simplify \/ Refuse \/ Execute \/ StatementFails
  \/ CheckConstraints \/ AddIndex
Recorder == RecorderStart \/ RecorderCreate \/ RecorderIndex \/ RecorderWrite \/ RecorderFails

Next == Migrate \/ Upgrade \/ Crash \/ Recorder

Spec == Init /\ [][Next]_vars

(* A command that was started goes on to its next statement. *)
FairSpec == Spec /\ WF_vars(Upgrade)

-----------------------------------------------------------------------------
(* Every variable has its type, and the index lies on a table that exists. *)
TypeOK ==
  /\ DOMAIN core \subseteq Table /\ DOMAIN legacy \subseteq Table
  /\ old \subseteq DOMAIN core
  /\ index = "core" => "termsymbol" \in DOMAIN core
  /\ index = "legacy" => "termsymbol" \in DOMAIN legacy
  /\ pc \in {"idle", "inspect", "script", "check", "index"} /\ step \in DOMAIN Script
  /\ applied \subseteq {"simplify", "index"}
  /\ recorder \in {"idle", "index", "write"} \cup Table
  /\ DOMAIN committed = Table

(* Whatever is killed, fails or runs in between, no row of the substrate that *)
(* was found and no reading recorded since is lost: it is in the core table or *)
(* in the legacy table it was set aside in.                                   *)
NoRowLost ==
  \A t \in Table : committed[t] \subseteq Rows(t) \cup LegacyRows(t)

(* A Symbol that the present schema cannot hold is never moved, however often  *)
(* the command is run.                                                        *)
UnsupportedStaysPut ==
  HasUnsupported(committed) => core = committed /\ DOMAIN legacy = {}

(* The guard of the upgrade says that one that did not finish is refused: with *)
(* the migration recorded no row is left behind in a legacy table.             *)
UncleanUpgradeIsRefused ==
  "simplify" \in applied => \A t \in Table : committed[t] \subseteq Rows(t)

(* A run that finds a legacy substrate, and that neither a crash nor the        *)
(* recorder disturbs, records the migration with every row in the core tables. *)
Completed ==
  /\ "simplify" \in applied
  /\ DOMAIN legacy = {}
  /\ \A t \in Table : Rows(t) = committed[t]

UpgradeCompletes ==
  (pc = "inspect" /\ DOMAIN legacy = {} /\ ~HasUnsupported(committed))
    ~> (Completed \/ crashes > 0 \/ recorder # "idle")
==============================================================================
