------------------------ MODULE LegacyUpgradeProofs ------------------------
(* No row is lost by the legacy upgrade, for any substrates found, any number   *)
(* of runs and crashes, with and without a recorder beside it.                *)
EXTENDS LegacyUpgrade, TLAPS

(* The number of the statement that copies a table. *)
CopyAt == [term |-> 7, symbol |-> 8, termsymbol |-> 9]

(* Past that statement the core table holds whatever the legacy table holds:   *)
(* only this makes it safe to drop the latter.                                *)
Copied ==
  pc = "script" =>
    \A t \in DOMAIN legacy :
      step > CopyAt[t] => t \in DOMAIN core /\ legacy[t] \subseteq core[t]

(* A substrate with an unsupported Symbol is never worked on, and is not one   *)
(* the recorder could write to.                                               *)
Untouched ==
  HasUnsupported(committed) =>
    core = committed /\ DOMAIN legacy = {} /\ pc # "script" /\ old # {}

UpgradeInv == TypeOK /\ NoRowLost /\ Copied /\ Untouched

-----------------------------------------------------------------------------
LEMMA ScriptLength == Len(Script) = 12 /\ DOMAIN Script = 1..12
  BY DEF Script

(* What each statement of the script is, by its number. *)
LEMMA StatementOf ==
  ASSUME NEW k \in 1..12, Statement(k)
  PROVE  \E t \in Table :
           \/ k \in 1..3   /\ Rename(t)
           \/ k \in 4..6   /\ Create(t)
           \/ k = CopyAt[t] /\ Copy(t)
           \/ k \in 10..12 /\ Drop(t)
<1>1. k \in 1..3 \/ k \in 4..6 \/ k \in 7..9 \/ k \in 10..12
  OBVIOUS
<1>2. CASE k \in 1..3
  <2>1. Script[k][1] = "rename" /\ Script[k][2] \in Table
    BY <1>2 DEF Script, Table
  <2> QED  BY <1>2, <2>1 DEF Statement
<1>3. CASE k \in 4..6
  <2>1. Script[k][1] = "create" /\ Script[k][2] \in Table
    BY <1>3 DEF Script, Table
  <2> QED  BY <1>3, <2>1 DEF Statement
<1>4. CASE k \in 7..9
  <2>1. Script[k][1] = "copy" /\ Script[k][2] \in Table /\ k = CopyAt[Script[k][2]]
    BY <1>4 DEF Script, Table, CopyAt
  <2> QED  BY <1>4, <2>1 DEF Statement
<1>5. CASE k \in 10..12
  <2>1. Script[k][1] = "drop" /\ Script[k][2] \in Table
    BY <1>5 DEF Script, Table
  <2> QED  BY <1>5, <2>1 DEF Statement
<1> QED  BY <1>1, <1>2, <1>3, <1>4, <1>5

LEMMA CopyPlaces == \A t \in Table : CopyAt[t] \in 7..9
  BY DEF CopyAt, Table

-----------------------------------------------------------------------------
LEMMA InitUpgradeInv == Init => UpgradeInv
<1> SUFFICES ASSUME Init PROVE UpgradeInv
  OBVIOUS
<1>1. core \in Originals /\ committed = core /\ DOMAIN core = Table
  BY OriginalsAreGraphs DEF Init
<1>2. DOMAIN legacy = {}
  BY DEF Init
<1>3. TypeOK
  BY <1>1, <1>2, ScriptLength DEF Init, TypeOK, Table
<1>4. NoRowLost
  BY <1>1, <1>2 DEF NoRowLost, Rows, LegacyRows
<1>5. Copied
  BY <1>2 DEF Copied
<1>6. Untouched
  BY <1>1, <1>2 DEF Init, Untouched, Table
<1> QED  BY <1>3, <1>4, <1>5, <1>6 DEF UpgradeInv

-----------------------------------------------------------------------------
(* One lemma per kind of statement.  Each says what becomes of the tables; pc   *)
(* and step are dealt with where the statement is run.                        *)

LEMMA RenameKeeps ==
  ASSUME TypeOK, NoRowLost, NEW t \in Table, Rename(t), UNCHANGED committed
  PROVE  /\ NoRowLost'
         /\ DOMAIN core' = DOMAIN core \ {t} /\ DOMAIN legacy' = DOMAIN legacy \cup {t}
         /\ old' \subseteq DOMAIN core'
         /\ index' = "core" => "termsymbol" \in DOMAIN core'
         /\ index' = "legacy" => "termsymbol" \in DOMAIN legacy'
<1>1. /\ legacy' = [u \in DOMAIN legacy \cup {t} |-> IF u = t THEN core[t] ELSE legacy[u]]
      /\ core' = [u \in DOMAIN core \ {t} |-> core[u]]
  BY DEF Rename, WithTable, Restrict
<1>2. t \in DOMAIN core /\ t \notin DOMAIN legacy
  BY DEF Rename
<1>3. NoRowLost'
  BY <1>1, <1>2 DEF NoRowLost, Rows, LegacyRows
<1>4. DOMAIN core' = DOMAIN core \ {t} /\ DOMAIN legacy' = DOMAIN legacy \cup {t}
  BY <1>1
<1> QED  BY <1>3, <1>4 DEF Rename, TypeOK

LEMMA CreateKeeps ==
  ASSUME TypeOK, NoRowLost, NEW t \in Table, Create(t), UNCHANGED committed
  PROVE  /\ NoRowLost'
         /\ DOMAIN core' = DOMAIN core \cup {t}
         /\ \A u \in DOMAIN core : core'[u] = core[u]
         /\ UNCHANGED <<legacy, old, index>>
<1>1. core' = [u \in DOMAIN core \cup {t} |-> IF u = t THEN {} ELSE core[u]] /\ t \notin DOMAIN core
  BY DEF Create, WithTable
<1>2. UNCHANGED <<legacy, old, index>>
  BY DEF Create
<1>3. NoRowLost'
  BY <1>1, <1>2 DEF NoRowLost, Rows, LegacyRows
<1> QED  BY <1>1, <1>2, <1>3

LEMMA CopyKeeps ==
  ASSUME TypeOK, NoRowLost, NEW t \in Table, Copy(t), UNCHANGED committed
  PROVE  /\ NoRowLost'
         /\ DOMAIN core' = DOMAIN core
         /\ \A u \in DOMAIN core : core[u] \subseteq core'[u]
         /\ t \in DOMAIN core /\ legacy[t] \subseteq core'[t]
         /\ UNCHANGED <<legacy, old, index>>
<1>1. /\ core' = [core EXCEPT ![t] = core[t] \cup legacy[t]]
      /\ t \in DOMAIN core /\ UNCHANGED <<legacy, old, index>>
  BY DEF Copy
<1>2. NoRowLost'
  BY <1>1 DEF NoRowLost, Rows, LegacyRows
<1> QED  BY <1>1, <1>2

(* The copy of the table is what replaces the rows that go. *)
LEMMA DropKeeps ==
  ASSUME TypeOK, NoRowLost, NEW t \in Table, Drop(t), UNCHANGED committed,
         t \in DOMAIN core, legacy[t] \subseteq core[t]
  PROVE  /\ NoRowLost'
         /\ DOMAIN legacy' = DOMAIN legacy \ {t}
         /\ \A u \in DOMAIN legacy' : legacy'[u] = legacy[u]
         /\ index' = "core" => "termsymbol" \in DOMAIN core'
         /\ index' = "legacy" => "termsymbol" \in DOMAIN legacy'
         /\ UNCHANGED <<core, old>>
<1>1. legacy' = [u \in DOMAIN legacy \ {t} |-> legacy[u]]
  BY DEF Drop, Restrict
<1>2. t \in DOMAIN legacy /\ UNCHANGED <<core, old>>
  BY DEF Drop
<1>3. NoRowLost'
  BY <1>1, <1>2 DEF NoRowLost, Rows, LegacyRows
<1> QED  BY <1>1, <1>2, <1>3 DEF Drop, TypeOK

-----------------------------------------------------------------------------
(* The script *)

LEMMA ExecuteKeeps == UpgradeInv /\ Execute => UpgradeInv'
<1> SUFFICES ASSUME UpgradeInv, Execute PROVE UpgradeInv'
  OBVIOUS
<1>1. /\ pc = "script" /\ step \in 1..12 /\ Statement(step)
      /\ UNCHANGED <<applied, runs, crashes, recorder, committed>>
      /\ \/ step < 12 /\ pc' = "script" /\ step' = step + 1
         \/ pc' = "check" /\ step' = 1
  BY ScriptLength DEF Execute, Goto, UpgradeInv, TypeOK
<1>2. TypeOK /\ NoRowLost
  BY DEF UpgradeInv
<1>3. ~HasUnsupported(committed) /\ Untouched'
  BY <1>1 DEF UpgradeInv, Untouched
<1>4. /\ pc' \in {"script", "check"} /\ step' \in 1..12
      /\ applied' \subseteq {"simplify", "index"}
      /\ recorder' \in {"idle", "index", "write"} \cup Table
      /\ DOMAIN committed' = Table
  BY <1>1, <1>2 DEF TypeOK
<1>5. DOMAIN core \subseteq Table /\ DOMAIN legacy \subseteq Table /\ old \subseteq DOMAIN core
  BY <1>2 DEF TypeOK
<1>6. \A t \in DOMAIN legacy :
        step > CopyAt[t] => t \in DOMAIN core /\ legacy[t] \subseteq core[t]
  BY <1>1 DEF UpgradeInv, Copied
<1>7. PICK t \in Table :
        \/ step \in 1..3    /\ Rename(t)
        \/ step \in 4..6    /\ Create(t)
        \/ step = CopyAt[t] /\ Copy(t)
        \/ step \in 10..12  /\ Drop(t)
  BY <1>1, StatementOf
<1>8. CASE step \in 1..3 /\ Rename(t)
  <2>1. /\ NoRowLost'
        /\ DOMAIN core' = DOMAIN core \ {t} /\ DOMAIN legacy' = DOMAIN legacy \cup {t}
        /\ old' \subseteq DOMAIN core'
        /\ index' = "core" => "termsymbol" \in DOMAIN core'
        /\ index' = "legacy" => "termsymbol" \in DOMAIN legacy'
    BY <1>1, <1>2, <1>8, RenameKeeps
  <2>2. TypeOK'
    BY <1>4, <1>5, <2>1, ScriptLength DEF TypeOK
  <2>3. Copied'
    BY <1>1, <1>5, <1>8, <2>1, CopyPlaces DEF Copied
  <2> QED  BY <1>3, <2>1, <2>2, <2>3 DEF UpgradeInv
<1>9. CASE step \in 4..6 /\ Create(t)
  <2>1. /\ NoRowLost' /\ DOMAIN core' = DOMAIN core \cup {t}
        /\ UNCHANGED <<legacy, old, index>>
    BY <1>1, <1>2, <1>9, CreateKeeps
  <2>2. TypeOK'
    BY <1>2, <1>4, <2>1, ScriptLength DEF TypeOK
  <2>3. Copied'
    BY <1>1, <1>5, <1>9, <2>1, CopyPlaces DEF Copied
  <2> QED  BY <1>3, <2>1, <2>2, <2>3 DEF UpgradeInv
<1>10. CASE step = CopyAt[t] /\ Copy(t)
  <2>1. /\ NoRowLost' /\ DOMAIN core' = DOMAIN core
        /\ \A u \in DOMAIN core : core[u] \subseteq core'[u]
        /\ t \in DOMAIN core /\ legacy[t] \subseteq core'[t]
        /\ UNCHANGED <<legacy, old, index>>
    BY <1>1, <1>2, <1>10, CopyKeeps
  <2>2. TypeOK'
    BY <1>2, <1>4, <2>1, ScriptLength DEF TypeOK
  <2>3. ASSUME NEW u \in DOMAIN legacy, step' > CopyAt[u], pc' = "script"
        PROVE  u \in DOMAIN core' /\ legacy'[u] \subseteq core'[u]
    <3>1. CASE u = t
      BY <2>1, <3>1
    <3>2. CASE u # t
      <4>1. CopyAt[u] # CopyAt[t]
        BY <1>5, <3>2 DEF CopyAt, Table
      <4>2. step > CopyAt[u]
        BY <1>1, <1>5, <1>10, <2>3, <4>1, CopyPlaces
      <4> QED  BY <1>6, <2>1, <4>2
    <3> QED  BY <3>1, <3>2
  <2>4. Copied'
    BY <2>1, <2>3 DEF Copied
  <2> QED  BY <1>3, <2>1, <2>2, <2>4 DEF UpgradeInv
<1>11. CASE step \in 10..12 /\ Drop(t)
  <2>1. t \in DOMAIN legacy
    BY <1>11 DEF Drop
  <2>2. t \in DOMAIN core /\ legacy[t] \subseteq core[t]
    BY <1>6, <1>11, <2>1, CopyPlaces
  <2>3. /\ NoRowLost' /\ DOMAIN legacy' = DOMAIN legacy \ {t}
        /\ \A u \in DOMAIN legacy' : legacy'[u] = legacy[u]
        /\ index' = "core" => "termsymbol" \in DOMAIN core'
        /\ index' = "legacy" => "termsymbol" \in DOMAIN legacy'
        /\ UNCHANGED <<core, old>>
    BY <1>1, <1>2, <1>11, <2>2, DropKeeps
  <2>4. TypeOK'
    BY <1>4, <1>5, <2>3, ScriptLength DEF TypeOK
  <2>5. \A u \in DOMAIN legacy : u \in DOMAIN core /\ legacy[u] \subseteq core[u]
    BY <1>5, <1>6, <1>11, CopyPlaces
  <2>6. Copied'
    BY <2>3, <2>5 DEF Copied
  <2> QED  BY <1>3, <2>3, <2>4, <2>6 DEF UpgradeInv
<1> QED  BY <1>7, <1>8, <1>9, <1>10, <1>11

-----------------------------------------------------------------------------
(* The rest of the command: it changes no row. *)

LEMMA CommandKeeps ==
  ASSUME UpgradeInv,
         \/ Migrate \/ AlreadySimple \/ Simplify \/ Refuse \/ StatementFails
         \/ CheckConstraints \/ AddIndex \/ Crash
  PROVE  UpgradeInv'
<1>1. UNCHANGED <<core, legacy, old, recorder, committed>>
  <2>1. CASE StatementFails
    <3>1. UNCHANGED tables /\ Goto("idle", 1)
      BY <2>1, Zenon DEF StatementFails
    <3> QED  BY <3>1 DEF tables, Goto
  <2> QED
    BY <2>1 DEF Migrate, AlreadySimple, Simplify, Refuse, CheckConstraints, AddIndex, Crash,
                Goto, tables
<1>2. TypeOK /\ NoRowLost /\ Untouched
  BY DEF UpgradeInv
<1>3. \/ pc' \in {"idle", "inspect", "check", "index"}
      \/ pc' = "script" /\ step' = 1 /\ ~HasUnsupported(core)
  <2>1. CASE StatementFails
    BY <2>1, Zenon DEF StatementFails, Goto
  <2> QED
    BY <2>1 DEF Migrate, AlreadySimple, Simplify, Refuse, CheckConstraints, AddIndex, Crash, Goto
<1>4. step' \in 1..12
  <2>1. CASE StatementFails
    <3>1. Goto("idle", 1)
      BY <2>1, Zenon DEF StatementFails
    <3> QED  BY <3>1 DEF Goto
  <2> QED
    BY <1>2, <2>1, ScriptLength
       DEF TypeOK, Migrate, AlreadySimple, Simplify, Refuse, CheckConstraints, AddIndex, Crash, Goto
<1>5. applied' \subseteq {"simplify", "index"}
  <2>1. CASE StatementFails
    <3>1. UNCHANGED applied
      BY <2>1, Zenon DEF StatementFails
    <3> QED  BY <1>2, <3>1 DEF TypeOK
  <2> QED
    BY <1>2, <2>1
       DEF TypeOK, Migrate, AlreadySimple, Simplify, Refuse, CheckConstraints, AddIndex, Crash, Goto
<1>6. /\ index' = "core" => "termsymbol" \in DOMAIN core
      /\ index' = "legacy" => "termsymbol" \in DOMAIN legacy
  <2>1. CASE StatementFails
    <3>1. UNCHANGED tables
      BY <2>1, Zenon DEF StatementFails
    <3> QED  BY <1>2, <3>1 DEF TypeOK, tables
  <2> QED
    BY <1>2, <2>1
       DEF TypeOK, Migrate, AlreadySimple, Simplify, Refuse, CheckConstraints, AddIndex, Crash,
           Goto, tables
<1>7. TypeOK'
  BY <1>1, <1>2, <1>3, <1>4, <1>5, <1>6, ScriptLength DEF TypeOK
<1>8. NoRowLost'
  BY <1>1, <1>2 DEF NoRowLost, Rows, LegacyRows
<1>9. Copied'
  BY <1>1, <1>2, <1>3, CopyPlaces DEF Copied, TypeOK
<1>10. Untouched'
  BY <1>1, <1>2, <1>3 DEF Untouched, HasUnsupported
<1> QED  BY <1>7, <1>8, <1>9, <1>10 DEF UpgradeInv

-----------------------------------------------------------------------------
(* The recorder: it only adds rows. *)

LEMMA RecorderKeeps == UpgradeInv /\ Recorder => UpgradeInv'
<1> SUFFICES ASSUME UpgradeInv, Recorder PROVE UpgradeInv'
  OBVIOUS
<1>1. TypeOK /\ NoRowLost /\ Copied /\ Untouched
  BY DEF UpgradeInv
<1>2. UNCHANGED <<applied, pc, step, legacy, old>>
  BY DEF Recorder, RecorderStart, RecorderCreate, Create, RecorderIndex, RecorderWrite,
         RecorderFails, RecorderGoto, tables
<1>3. recorder' \in {"idle", "index", "write"} \cup Table
  BY DEF Recorder, RecorderStart, RecorderCreate, RecorderIndex, RecorderWrite, RecorderFails,
         RecorderGoto, NextStatement, Table
<1>4. SUFFICES /\ NoRowLost'
               /\ DOMAIN core \subseteq DOMAIN core' /\ DOMAIN core' \subseteq Table
               /\ \A u \in DOMAIN core : core[u] \subseteq core'[u]
               /\ index' = "core" => "termsymbol" \in DOMAIN core'
               /\ index' = "legacy" => "termsymbol" \in DOMAIN legacy
               /\ DOMAIN committed' = Table
               /\ Untouched'
  <2>1. TypeOK'
    BY <1>1, <1>2, <1>3, <1>4 DEF TypeOK
  <2>2. Copied'
    BY <1>1, <1>2, <1>4 DEF Copied
  <2> QED  BY <1>4, <2>1, <2>2 DEF UpgradeInv
<1>5. CASE RecorderStart \/ RecorderIndex \/ RecorderFails
  <2>1. /\ UNCHANGED <<core, committed>>
        /\ index' = index \/ (index' = "core" /\ "termsymbol" \in DOMAIN core)
    BY <1>5 DEF RecorderStart, RecorderIndex, RecorderFails, tables
  <2>2. NoRowLost'
    BY <1>1, <1>2, <2>1 DEF NoRowLost, Rows, LegacyRows
  <2>3. Untouched'
    BY <1>1, <1>2, <2>1 DEF Untouched, HasUnsupported
  <2> QED  BY <1>1, <2>1, <2>2, <2>3 DEF TypeOK
<1>6. CASE RecorderCreate
  <2>1. CASE UNCHANGED tables
    <3>1. UNCHANGED <<core, committed, index>>
      BY <1>6, <2>1 DEF tables, RecorderCreate
    <3>2. NoRowLost'
      BY <1>1, <1>2, <3>1 DEF NoRowLost, Rows, LegacyRows
    <3>3. Untouched'
      BY <1>1, <1>2, <3>1 DEF Untouched, HasUnsupported
    <3> QED  BY <1>1, <3>1, <3>2, <3>3 DEF TypeOK
  <2>2. CASE Create(recorder)
    <3>1. recorder \in Table /\ UNCHANGED committed
      BY <1>6 DEF RecorderCreate
    <3>2. /\ NoRowLost' /\ DOMAIN core' = DOMAIN core \cup {recorder}
          /\ \A u \in DOMAIN core : core'[u] = core[u]
          /\ UNCHANGED <<legacy, old, index>>
      BY <1>1, <2>2, <3>1, CreateKeeps
    <3>3. ~HasUnsupported(committed)
      <4>1. recorder \notin DOMAIN core
        BY <2>2 DEF Create
      <4> QED  BY <1>1, <3>1, <4>1 DEF Untouched, TypeOK
    <3>4. Untouched'
      BY <3>1, <3>3 DEF Untouched, HasUnsupported
    <3> QED  BY <1>1, <3>1, <3>2, <3>4 DEF TypeOK
  <2> QED  BY <1>6, <2>1, <2>2 DEF RecorderCreate
<1>7. CASE RecorderWrite
  <2>1. DOMAIN core = Table /\ old = {} /\ UNCHANGED index
    BY <1>7 DEF RecorderWrite
  <2>2. ~HasUnsupported(committed)
    BY <1>1, <2>1 DEF Untouched
  <2>3. CASE UNCHANGED <<core, committed>>
    <3>1. NoRowLost'
      BY <1>1, <1>2, <2>3 DEF NoRowLost, Rows, LegacyRows
    <3>2. Untouched'
      BY <2>2, <2>3 DEF Untouched, HasUnsupported
    <3> QED  BY <1>1, <2>1, <2>3, <3>1, <3>2 DEF TypeOK
  <2>4. ASSUME NEW new,
               core' = [t \in Table |-> core[t] \cup new[t]],
               committed' = [t \in Table |-> committed[t] \cup new[t]],
               \A r \in new["symbol"] : r.blob = Blob
        PROVE  NoRowLost' /\ ~HasUnsupported(committed')
    <3>1. NoRowLost'
      BY <1>1, <1>2, <2>1, <2>4 DEF NoRowLost, Rows, LegacyRows
    <3>2. committed'["symbol"] = committed["symbol"] \cup new["symbol"]
      BY <2>4 DEF Table
    <3> QED  BY <2>2, <2>4, <3>1, <3>2, ReadingIsSupported DEF HasUnsupported
  <2>5. \/ UNCHANGED <<core, committed>>
        \/ \E new : /\ core' = [t \in Table |-> core[t] \cup new[t]]
                    /\ committed' = [t \in Table |-> committed[t] \cup new[t]]
                    /\ \A r \in new["symbol"] : r.blob = Blob
    <3> DEFINE found == {s \in core["symbol"] : s.blob = Blob}
    <3>1. PICK s \in IF found # {} THEN found ELSE {[id |-> FreshId("symbol"), blob |-> Blob]} :
             IF IsTerm(s.id)
             THEN UNCHANGED <<core, committed>>
             ELSE LET term == FreshId("term")
                      new == [term       |-> {[id |-> term]},
                              symbol     |-> {s},
                              termsymbol |-> {[id |-> FreshId("termsymbol"),
                                               term |-> term, symbol |-> s.id]}]
                  IN /\ core' = [t \in Table |-> core[t] \cup new[t]]
                     /\ committed' = [t \in Table |-> committed[t] \cup new[t]]
      BY <1>7 DEF RecorderWrite
    <3>2. s.blob = Blob
      BY <3>1
    <3> QED  BY <3>1, <3>2
  <2>6. CASE ~UNCHANGED <<core, committed>>
    <3>1. PICK new : /\ core' = [t \in Table |-> core[t] \cup new[t]]
                     /\ committed' = [t \in Table |-> committed[t] \cup new[t]]
                     /\ \A r \in new["symbol"] : r.blob = Blob
      BY <2>5, <2>6
    <3>2. NoRowLost' /\ ~HasUnsupported(committed')
      BY <2>4, <3>1
    <3>3. Untouched'
      BY <3>2 DEF Untouched, HasUnsupported
    <3> QED  BY <1>1, <2>1, <3>1, <3>2, <3>3 DEF TypeOK, Table
  <2> QED  BY <2>3, <2>6
<1> QED  BY <1>5, <1>6, <1>7 DEF Recorder

-----------------------------------------------------------------------------
LEMMA NextUpgradeInv == UpgradeInv /\ [Next]_vars => UpgradeInv'
<1>1. UpgradeInv /\ UNCHANGED vars => UpgradeInv'
  <2> SUFFICES ASSUME UpgradeInv, UNCHANGED vars PROVE UpgradeInv'
    OBVIOUS
  <2>1. TypeOK'
    BY DEF UpgradeInv, TypeOK, vars
  <2>2. NoRowLost'
    BY DEF UpgradeInv, NoRowLost, Rows, LegacyRows, vars
  <2>3. Copied' /\ Untouched'
    BY DEF UpgradeInv, Copied, Untouched, HasUnsupported, vars
  <2> QED  BY <2>1, <2>2, <2>3 DEF UpgradeInv
<1> QED  BY <1>1, ExecuteKeeps, CommandKeeps, RecorderKeeps DEF Next, Upgrade

THEOREM UpgradeInvariant == Spec => []UpgradeInv
  BY InitUpgradeInv, NextUpgradeInv, PTL DEF Spec

(* Every variable of the upgrade keeps its type, and the index lies on a table *)
(* that exists.                                                              *)
THEOREM UpgradeTypes == Spec => []TypeOK
  BY UpgradeInvariant, PTL DEF UpgradeInv

(* Crashes, failing statements, reruns and a recorder between any two           *)
(* statements lose no row: it is in the core table or in the legacy one.       *)
THEOREM UpgradeLosesNothing == Spec => []NoRowLost
  BY UpgradeInvariant, PTL DEF UpgradeInv

(* A substrate with an encrypted Symbol is left as it was found.               *)
THEOREM UnsupportedIsLeftAlone == Spec => []UnsupportedStaysPut
<1>1. UpgradeInv => UnsupportedStaysPut
  BY DEF UpgradeInv, Untouched, UnsupportedStaysPut
<1> QED  BY <1>1, UpgradeInvariant, PTL
==============================================================================
