---------------------------- MODULE HistoryReads ----------------------------
(***************************************************************************)
(* What history and CSV export return while the substrate changes under      *)
(* them.  Both find Terms by their timestamp Symbol with one statement and    *)
(* read the Terms' Symbols with another (prefetch_related), outside any       *)
(* transaction: measurements/repository.py.  History fetches every Term       *)
(* before it reads; the export alternates between the two, a chunk at a time. *)
(* Its cursor holds SHARED until the last Term has been fetched, so its last  *)
(* chunk is read without a lock.                                              *)
(*                                                                          *)
(* The writers, the locks and the steps of the reader's statements are those  *)
(* of SubstrateStore; this module adds the data the reader carries.           *)
(***************************************************************************)
EXTENDS SubstrateStore

CONSTANTS
  Windows,    \* the selectable ranges: sets of Contents
  ChunkSize   \* environmental_history_iterator(chunk_size=...)

ASSUME WindowsSelectContents == \A window \in Windows : window \subseteq Contents
ASSUME ChunkSizeIsPositive == ChunkSize \in Nat \ {0}

VARIABLES
  window,     \* the range a request asks for
  cursor,     \* the Terms found and not fetched yet
  batch,      \* the Terms fetched and not read yet
  output,     \* the observations returned so far
  snapshot    \* history variable: what the first statement found

readVars == <<window, cursor, batch, output, snapshot>>
readerVars == <<vars, readVars>>

ReadInit ==
  /\ Init
  /\ window = [p \in Process |-> {}]
  /\ cursor = [p \in Process |-> {}]
  /\ batch = [p \in Process |-> {}]
  /\ output = [p \in Process |-> {}]
  /\ snapshot = [p \in Process |-> {}]

-----------------------------------------------------------------------------
Ids(ts) == {t.id : t \in ts}

(* Term.objects.filter(pk__in=<TermSymbols of order 1 within the range>) *)
Selected(p) == {t \in Image(p).terms : t.content \in window[p]}

(* Mutated Decoded: a Term without Symbols is returned instead of skipped. *)
DecodedWithBlanks(p) ==
  {IF \E t \in Image(p).terms : t.id = id
   THEN (CHOOSE t \in Image(p).terms : t.id = id).content
   ELSE <<>> : id \in batch[p]}

(* The prefetch: a Term that is gone by now has no Symbols, fails to decode   *)
(* and is skipped.                                                            *)
Decoded(p) == {t.content : t \in {u \in Image(p).terms : u.id \in batch[p]}}

(* fetchmany: a full chunk, or the rest.                                      *)
IsChunk(chunk, ids) ==
  /\ chunk \subseteq ids
  /\ \/ Cardinality(chunk) = ChunkSize
     \/ chunk = ids /\ Cardinality(ids) < ChunkSize

(* A chunk that is not full ends the statement; whether a full one with       *)
(* nothing after it does depends on the version of Python.                    *)
MayEnd(chunk, ids) == chunk = ids
MayStayOpen(chunk) == Cardinality(chunk) = ChunkSize

BeginRequest(p) ==
  /\ Start(p)
  /\ \E range \in Windows :
       window' = [window EXCEPT ![p] = IF job'[p].task = "read" THEN range ELSE {}]
  /\ cursor' = [cursor EXCEPT ![p] = {}]
  /\ batch' = [batch EXCEPT ![p] = {}]
  /\ output' = [output EXCEPT ![p] = {}]
  /\ snapshot' = [snapshot EXCEPT ![p] = {}]

(* environmental_history: one statement, all of it. *)
FetchHistory(p) ==
  /\ ReadAll(p)
  /\ batch' = [batch EXCEPT ![p] = Ids(Selected(p))]
  /\ snapshot' = [snapshot EXCEPT ![p] = Selected(p)]
  /\ UNCHANGED <<window, cursor, output>>

(* environmental_history_iterator: the first chunk of the cursor. *)
FetchFirst(p) ==
  LET ids == Ids(Selected(p))
  IN  /\ \E chunk \in SUBSET ids :
           /\ IsChunk(chunk, ids)
           /\ \/ MayEnd(chunk, ids) /\ ReadAll(p)
              \/ MayStayOpen(chunk) /\ OpenCursor(p)
           /\ batch' = [batch EXCEPT ![p] = chunk]
           /\ cursor' = [cursor EXCEPT ![p] = ids \ chunk]
      /\ snapshot' = [snapshot EXCEPT ![p] = Selected(p)]
      /\ UNCHANGED <<window, output>>

(* The chunk is decoded and written to the response. *)
ReadChunk(p) ==
  /\ pc[p] = "cursor"
  /\ batch[p] # {}
  /\ output' = [output EXCEPT ![p] = @ \cup Decoded(p)]
  /\ batch' = [batch EXCEPT ![p] = {}]
  /\ UNCHANGED <<vars, window, cursor, snapshot>>

(* Mutated FetchNext: the cursor does not move on. *)
FetchNextAgain(p) ==
  /\ pc[p] = "cursor"
  /\ batch[p] = {}
  /\ \E chunk \in SUBSET cursor[p] :
       /\ IsChunk(chunk, cursor[p])
       /\ \/ MayEnd(chunk, cursor[p]) /\ CloseCursor(p)
          \/ MayStayOpen(chunk) /\ UNCHANGED vars
       /\ batch' = [batch EXCEPT ![p] = chunk]
  /\ UNCHANGED <<window, cursor, output, snapshot>>

FetchNext(p) ==
  /\ pc[p] = "cursor"
  /\ batch[p] = {}
  /\ \E chunk \in SUBSET cursor[p] :
       /\ IsChunk(chunk, cursor[p])
       /\ \/ MayEnd(chunk, cursor[p]) /\ CloseCursor(p)
          \/ MayStayOpen(chunk) /\ UNCHANGED vars
       /\ batch' = [batch EXCEPT ![p] = chunk]
       /\ cursor' = [cursor EXCEPT ![p] = @ \ chunk]
  /\ UNCHANGED <<window, output, snapshot>>

(* The last chunk, and the whole of a history. *)
ReadLast(p) ==
  /\ batch[p] # {} => CanShare(p)
  /\ FinishRead(p)
  /\ output' = [output EXCEPT ![p] = @ \cup Decoded(p)]
  /\ batch' = [batch EXCEPT ![p] = {}]
  /\ UNCHANGED <<window, cursor, snapshot>>

Retrieve(p) ==
  \/ FetchHistory(p) \/ FetchFirst(p) \/ ReadChunk(p) \/ FetchNext(p) \/ ReadLast(p)

(* Everything else SubstrateStore does.  Without a prefetch to run there is   *)
(* nothing to wait for.                                                       *)
Elsewhere(p) ==
  /\ \/ Native(p)
     \/ Django(p) /\ (pc[p] = "fetched" => batch[p] # {})
     \/ Abort(p) \/ Crash(p)
  /\ UNCHANGED readVars

ReadNext ==
  \E p \in Process : BeginRequest(p) \/ Retrieve(p) \/ Elsewhere(p)

ReadSpec == ReadInit /\ [][ReadNext]_readerVars

(* As in SubstrateStore: a connection that waits need not ever give up.       *)
ReadFairness ==
  \A p \in Process :
    WF_readerVars(Retrieve(p) \/ ((Native(p) \/ Django(p)) /\ ~TimeOut(p) /\ UNCHANGED readVars))

-----------------------------------------------------------------------------
(* Properties *)

ReadTypeOK ==
  /\ window \in [Process -> SUBSET Contents]
  /\ cursor \in [Process -> SUBSET Nat]
  /\ batch \in [Process -> SUBSET Nat]
  /\ output \in [Process -> SUBSET Contents]
  /\ \A p \in Process : snapshot[p] \subseteq [id : Nat, content : Contents]

(* A request returns only observations that its first statement found, hence  *)
(* only observations in the range asked for, however the substrate is reset   *)
(* and refilled between the two statements: an id that is given out again     *)
(* would smuggle a foreign observation in.                                    *)
ReadsWithinSnapshot ==
  \A p \in Process : output[p] \subseteq {t.content : t \in snapshot[p]}

(* An export never skips a Term in the middle: of the Terms it has fetched    *)
(* and read before the last chunk, every one is in the file.                  *)
ExportKeepsFullChunks ==
  \A p \in Process :
    pc[p] \in {"cursor", "fetched"} =>
      \A t \in snapshot[p] : t.id \notin cursor[p] \cup batch[p] => t.content \in output[p]

(* Every retrieval ends, an export after finitely many chunks.                *)
EveryReadAnswered ==
  \A p \in Web : pc[p] \in {"query", "cursor", "fetched"} ~> pc[p] = "idle"

(* The composition does nothing to the substrate that SubstrateStore does not. *)
KeepsSubstrate == Spec
=============================================================================
