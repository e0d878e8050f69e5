------------------------------- MODULE Retrieval -------------------------------
(* What readers find among the Terms of a substrate: measurements/repository.py *)
(* and the exact lookups of core/models.py and native/enpiro_store.c.           *)
(*                                                                              *)
(* `rel' maps the id of a Term to its relations, a function from orders to      *)
(* blobs.  Every query starts from the blobs at order 1, compared as bytes, and *)
(* decodes a Term only then.                                                    *)
EXTENDS Codecs

CONSTANTS
  Window,     \* candidates the latest reading is searched among (100 in the code)
  Unbounded   \* no start, or no end

(* memcmp, a prefix first. *)
(* Mutated Before: the last byte counts most. *)
BeforeFromTheEnd(a, b) ==
  \/ \E i \in DOMAIN a \cap DOMAIN b :
       a[i] < b[i] /\ \A j \in DOMAIN a \cap DOMAIN b : j > i => a[j] = b[j]
  \/ Len(a) < Len(b) /\ a = SubSeq(b, 1, Len(a))

Before(a, b) ==
  \/ \E i \in DOMAIN a \cap DOMAIN b : a[i] < b[i] /\ \A j \in 1..i - 1 : a[j] = b[j]
  \/ Len(a) < Len(b) /\ a = SubSeq(b, 1, Len(a))

(* Mutated Candidates: the end of the range is left out. *)
CandidatesBeforeEnd(rel, start, end) ==
  {t \in DOMAIN rel :
     /\ 1 \in DOMAIN rel[t]
     /\ start = Unbounded \/ ~Before(rel[t][1], Pack(start, 8))
     /\ end = Unbounded \/ Before(rel[t][1], Pack(end, 8))}

(* environmental_term_queryset: in the order of the blobs. *)
Candidates(rel, start, end) ==
  {t \in DOMAIN rel :
     /\ 1 \in DOMAIN rel[t]
     /\ start = Unbounded \/ ~Before(rel[t][1], Pack(start, 8))
     /\ end = Unbounded \/ ~Before(Pack(end, 8), rel[t][1])}

(* environmental_history and its iterator skip a ValueError; anything else ends *)
(* the request.                                                                 *)
HistoryBreaks(rel, start, end) ==
  \E t \in Candidates(rel, start, end) : Breaks(AtomsOf(rel[t]))
History(rel, start, end) ==
  {t \in Candidates(rel, start, end) : Decodes(AtomsOf(rel[t]))}

(* latest_environmental_observation: newest blob first, of equal ones the       *)
(* greatest id; the first candidate of the window that is not refused.          *)
Above(rel, t, u) ==
  \/ Before(rel[u][1], rel[t][1])
  \/ rel[t][1] = rel[u][1] /\ t > u

(* Mutated InWindow: the oldest candidates. *)
InWindowOfOldest(rel, t) ==
  LET all == Candidates(rel, Unbounded, Unbounded)
  IN  t \in all /\ Cardinality({u \in all : Above(rel, t, u)}) < Window

InWindow(rel, t) ==
  LET all == Candidates(rel, Unbounded, Unbounded)
  IN  t \in all /\ Cardinality({u \in all : Above(rel, u, t)}) < Window

IsPicked(rel, t) ==
  /\ InWindow(rel, t)
  /\ ~Refused(AtomsOf(rel[t]))
  /\ \A u \in DOMAIN rel :
       InWindow(rel, u) /\ ~Refused(AtomsOf(rel[u])) => u = t \/ Above(rel, t, u)

IsLatest(rel, t) == IsPicked(rel, t) /\ ~Breaks(AtomsOf(rel[t]))

-----------------------------------------------------------------------------
(* Which Terms consist of exactly these atoms, in this order? *)

(* Mutated DjangoFinds: the relations of the Term are not counted. *)
DjangoFindsPrefix(rel, atoms) ==
  {t \in DOMAIN rel :
     Cardinality({o \in DOMAIN rel[t] : o < Len(atoms) /\ rel[t][o] = atoms[o + 1]}) = Len(atoms)}

(* TermManager._find_exact: as many relations match as there are Symbols, and  *)
(* the Term has no other.                                                      *)
DjangoFinds(rel, atoms) ==
  {t \in DOMAIN rel :
     /\ Cardinality({o \in DOMAIN rel[t] : o < Len(atoms) /\ rel[t][o] = atoms[o + 1]}) = Len(atoms)
     /\ Cardinality(DOMAIN rel[t]) = Len(atoms)}

(* ep_find_exact_term: as many relations as Symbols, and in their order the    *)
(* Symbols one after the other, whatever the orders are.                       *)
NativeFinds(rel, atoms) == {t \in DOMAIN rel : AtomsOf(rel[t]) = atoms}
=============================================================================
