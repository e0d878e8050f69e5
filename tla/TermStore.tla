------------------------------ MODULE TermStore ------------------------------
(***************************************************************************)
(* What the substrate promises, with no files, locks or processes in sight:  *)
(* a set of immutable, deduplicated Terms with stable identifiers, on which  *)
(* every request takes effect at one instant or not at all.  SubstrateStore  *)
(* implements it (SubstrateStore!Store).                                     *)
(***************************************************************************)
EXTENDS Naturals, Sequences, FiniteSets

CONSTANTS
  Process,    \* who sends requests
  Contents,   \* what a Term can hold: an ordered sequence of blobs
  Jobs,       \* the requests: records [task, rows]
  NoJob,      \* "no request"
  NoReply     \* "no answer"

VARIABLES
  terms,      \* the Terms: records [id, content]
  issued,     \* the highest identifier given out so far
  job,        \* the request each process is serving
  reply       \* its last answer

vars == <<terms, issued, job, reply>>

Ok(value) == [status |-> "ok", value |-> value]
Failed == [status |-> "failed", value |-> 0]

ContentsOf(rows) == {rows[i] : i \in DOMAIN rows}
Held(ts) == {t.content : t \in ts}

Init ==
  /\ terms = {}
  /\ issued = 0
  /\ job = [p \in Process |-> NoJob]
  /\ reply = [p \in Process |-> NoReply]

Ask(p) ==
  /\ job[p] = NoJob
  /\ \E j \in Jobs : job' = [job EXCEPT ![p] = j]
  /\ reply' = [reply EXCEPT ![p] = NoReply]
  /\ UNCHANGED <<terms, issued>>

Answer(p, r) ==
  /\ job[p] # NoJob
  /\ job' = [job EXCEPT ![p] = NoJob]
  /\ reply' = [reply EXCEPT ![p] = r]

(* Every content not yet held gets one Term, with an identifier never given  *)
(* out before; every Term already held keeps its identifier.                 *)
StoreAll(contents) ==
  LET added == terms' \ terms
  IN  /\ terms \subseteq terms'
      /\ issued' >= issued
      /\ Held(added) = contents \ Held(terms)
      /\ \A t, u \in added : t.content = u.content \/ t.id = u.id => t = u
      /\ \A t \in added : issued < t.id /\ t.id <= issued'

(* Recording one observation answers with the Term that holds it. *)
Record(p) ==
  /\ job[p].task \in {"native", "record"}
  /\ StoreAll(ContentsOf(job[p].rows))
  /\ \E t \in terms' : t.content = job[p].rows[1] /\ Answer(p, Ok(t.id))

(* An import happens only into an empty store, and completely. *)
Import(p) ==
  /\ job[p].task = "import"
  /\ terms = {}
  /\ StoreAll(ContentsOf(job[p].rows))
  /\ Answer(p, Ok(Len(job[p].rows)))

(* A reset says how many Terms it has deleted; their identifiers stay used. *)
Reset(p) ==
  /\ job[p].task = "reset"
  /\ terms' = {}
  /\ issued' = issued
  /\ Answer(p, Ok(Cardinality(terms)))

Read(p) ==
  /\ job[p].task = "read"
  /\ Answer(p, Ok(0))
  /\ UNCHANGED <<terms, issued>>

(* A request that is not carried out changes nothing. *)
Refuse(p) ==
  /\ Answer(p, Failed)
  /\ UNCHANGED <<terms, issued>>

Vanish(p) ==
  /\ Answer(p, NoReply)
  /\ UNCHANGED <<terms, issued>>

Next ==
  \E p \in Process :
    Ask(p) \/ Record(p) \/ Import(p) \/ Reset(p) \/ Read(p) \/ Refuse(p) \/ Vanish(p)

Spec == Init /\ [][Next]_vars
=============================================================================
