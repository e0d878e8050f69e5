------------------------ MODULE DashboardCacheProofs ------------------------
(* What the page promises about its copy and its graphs, for any number of      *)
(* loads, any ranges and retention, and without the bounds on the clock, on    *)
(* faults and on edits playing any part.                                      *)
EXTENDS DashboardCache, SequenceTheorems, FiniteSetTheorems, TLAPS

Kinds == {"rolling", "all", "custom"}
(* The page reads the cache when it starts; whatever is written is written by a *)
(* load, a poll or a reset.                                                   *)
Transactions ==
  {t \in [op : {"get", "put", "delete", "clear"}, times : SUBSET Time,
          by : Load \cup {"page", "poll", "reset"}] : t.op = "get" <=> t.by = "page"}

(* What a load that is writing has yet to ask for: nothing, or its put. *)
Outstanding == {<<>>} \cup {<< <<"put", r>> >> : r \in SUBSET Time}
LoadType ==
  [stage : {"none", "sent", "answered", "writing"}, submitted : BOOLEAN, query : SUBSET Time,
   readings : SUBSET Time, writes : Outstanding]

PageType ==
  /\ now \in 0..MaxTime /\ server \in SUBSET Time
  /\ cache \in SUBSET Time /\ observations \in SUBSET Time
  /\ mode \in Kinds /\ preference \in Kinds /\ bounds \in SUBSET Time
  /\ page \in {"closed", "preference", "cache", "running"}
  /\ loads \in [Load -> LoadType]
  /\ poll \in [stage : {"none", "sent", "answered", "writing"}, reading : 0..MaxTime]
  /\ poll.stage \in {"answered", "writing"} => poll.reading \in Time
  /\ queue \in Seq(Transactions)

-----------------------------------------------------------------------------
(* A set of times that is not empty has a last one. *)

LEMMA StrictSubsets ==
  ASSUME NEW S, NEW A \in SUBSET S, NEW B \in SUBSET S, A \subseteq B, A # B
  PROVE  <<A, B>> \in StrictSubsetOrdering(S)
  BY DEF StrictSubsetOrdering

LEMMA MaxOfTimes ==
  ASSUME NEW n \in Nat, NEW S \in SUBSET (1..n), S # {}
  PROVE  Max(S) \in S
<1> DEFINE Later(x) == {y \in S : y > x}
           R == StrictSubsetOrdering(S)
           T == {Later(x) : x \in S}
<1>1. IsFiniteSet(S)
  <2>1. IsFiniteSet(1..n)
    BY FS_Interval
  <2> QED  BY <2>1, FS_Subset
<1>2. IsWellFoundedOn(R, SUBSET S)
  <2>1. IsWellFoundedOn(R, FiniteSubsetsOf(S))
    BY <1>1, FS_StrictSubsetOrderingWellFounded
  <2>2. FiniteSubsetsOf(S) = SUBSET S
    BY <1>1, FS_FiniteSubsetsOfFinite
  <2> QED  BY <2>1, <2>2
<1>3. T \in SUBSET (SUBSET S) /\ T # {}
  OBVIOUS
<1>4. PICK t \in T : \A u \in T : ~(<<u, t>> \in R)
  <2> HIDE DEF R, T
  <2> QED  BY <1>2, <1>3, WFMin
<1>5. PICK x \in S : t = Later(x)
  BY <1>4
<1>6. \A y \in S : x >= y
  <2> SUFFICES ASSUME NEW y \in S, y > x PROVE FALSE
    OBVIOUS
  <2>1. Later(y) \subseteq Later(x) /\ y \in Later(x) /\ y \notin Later(y)
    <3>1. \A z \in S : z \in Nat
      OBVIOUS
    <3>2. \A z \in S : z > y => z > x
      BY <3>1
    <3>3. Later(y) \subseteq Later(x)
      BY <3>2
    <3> QED  BY <3>1, <3>3
  <2>2. <<Later(y), Later(x)>> \in StrictSubsetOrdering(S)
    <3>1. Later(y) \in SUBSET S /\ Later(x) \in SUBSET S /\ Later(y) # Later(x)
      BY <2>1
    <3>2. Later(y) \subseteq Later(x)
      BY <2>1
    <3> HIDE DEF Later
    <3> QED  BY <3>1, <3>2, StrictSubsets
  <2>3. Later(y) \in T
    OBVIOUS
  <2> QED  BY <1>4, <1>5, <2>2, <2>3
<1> QED  BY <1>6 DEF Max
-----------------------------------------------------------------------------
(* The parts of handlers *)

LEMMA SelectType == ASSUME NEW kind \in Kinds PROVE Bounds(kind) \in SUBSET Time
<1>1. CASE kind = "rolling"
  BY <1>1 DEF Bounds
<1>2. CASE kind = "all"
  BY <1>2 DEF Bounds
<1>3. CASE kind = "custom"
  BY <1>3, CustomIsARange DEF Bounds
<1> QED  BY <1>1, <1>2, <1>3 DEF Kinds

LEMMA RollType ==
  ASSUME PageType, Roll
  PROVE  mode' \in Kinds /\ bounds' \in SUBSET Time
<1>1. CASE UNCHANGED range
  BY <1>1 DEF PageType, range
<1>2. CASE Select(mode)
  BY <1>2, SelectType DEF PageType, Select
<1> QED  BY <1>1, <1>2 DEF Roll

LEMMA NoLoadType == NoLoad \in LoadType /\ NoLoad.stage = "none" /\ NoLoad.writes = <<>>
<1>1. {} \in SUBSET Time /\ <<>> \in Outstanding
  BY DEF Outstanding
<1> QED  BY <1>1 DEF NoLoad, LoadType

(* A load that is sent was none, and the others are as they were. *)
LEMMA SendType ==
  ASSUME PageType, NEW k \in Load, NEW b \in BOOLEAN, Send(k, b)
  PROVE  /\ mode' \in Kinds /\ bounds' \in SUBSET Time
         /\ loads' \in [Load -> LoadType]
         /\ loads[k].stage = "none" /\ loads'[k].stage = "sent"
         /\ \A j \in Load \ {k} : loads'[j] = loads[j]
<1>1. mode' \in Kinds /\ bounds' \in SUBSET Time
  BY RollType DEF Send
<1> DEFINE new == [NoLoad EXCEPT !.stage = "sent", !.submitted = b, !.query = bounds']
<1>2. new \in LoadType /\ new.stage = "sent"
  BY <1>1, NoLoadType DEF LoadType
<1>3. loads' = [loads EXCEPT ![k] = new] /\ loads[k].stage = "none"
  BY DEF Send
<1> HIDE DEF new
<1> QED  BY <1>1, <1>2, <1>3 DEF PageType

(* What is written when a history answer removes and brings readings. *)
LEMMA WritesCases ==
  ASSUME NEW removed \in SUBSET Time, NEW readings \in SUBSET Time
  PROVE  LET writes == Writes(removed, readings)
         IN \/ removed = {} /\ readings = {} /\ writes = <<>>
            \/ removed = {} /\ readings # {} /\ writes = << <<"put", readings>> >>
            \/ removed # {} /\ readings = {} /\ writes = << <<"delete", removed>> >>
            \/ removed # {} /\ readings # {}
               /\ writes = << <<"delete", removed>>, <<"put", readings>> >>
<1>1. Write("delete", removed) = IF removed = {} THEN <<>> ELSE << <<"delete", removed>> >>
  BY DEF Write
<1>2. Write("put", readings) = IF readings = {} THEN <<>> ELSE << <<"put", readings>> >>
  BY DEF Write
<1>3. \A x, y : <<>> \o <<>> = <<>> /\ <<>> \o <<y>> = <<y>> /\ <<x>> \o <<>> = <<x>>
               /\ <<x>> \o <<y>> = <<x, y>>
  <2> TAKE x, y
  <2>1. <<>> \in Seq({x, y}) /\ <<x>> \in Seq({x, y}) /\ <<y>> \in Seq({x, y})
    OBVIOUS
  <2>2. <<>> \o <<>> = <<>> /\ <<>> \o <<y>> = <<y>> /\ <<x>> \o <<>> = <<x>>
    BY <2>1, ConcatEmptySeq
  <2>3. Append(<<x>>, y) = <<x>> \o <<y>>
    BY <2>1, AppendIsConcat
  <2>4. Append(<<x>>, y) = <<x, y>>
    <3> DEFINE s == Append(<<x>>, y)
               t == <<x, y>>
    <3>1. s \in Seq({x, y}) /\ Len(s) = 2 /\ s[1] = x /\ s[2] = y
      <4>1. Len(<<x>>) = 1 /\ <<x>>[1] = x
        OBVIOUS
      <4> QED  BY <2>1, <4>1, AppendProperties
    <3>2. t \in Seq({x, y}) /\ Len(t) = 2 /\ t[1] = x /\ t[2] = y
      OBVIOUS
    <3> HIDE DEF s, t
    <3>3. \A i \in 1..Len(s) : s[i] = t[i]
      BY <3>1, <3>2
    <3>4. s = t
      BY <3>1, <3>2, <3>3, SeqEqual
    <3> QED  BY <3>4 DEF s, t
  <2> QED  BY <2>2, <2>3, <2>4
<1> QED  BY <1>1, <1>2, <1>3 DEF Writes

LEMMA TransactionType ==
  ASSUME NEW op \in {"get", "put", "delete", "clear"}, NEW times \in SUBSET Time,
         NEW by \in Load \cup {"page", "poll", "reset"}, op = "get" <=> by = "page"
  PROVE  /\ Transaction(op, times, by) \in Transactions
         /\ Transaction(op, times, by).op = op /\ Transaction(op, times, by).times = times
         /\ Transaction(op, times, by).by = by
  BY DEF Transaction, Transactions

-----------------------------------------------------------------------------
(* Types *)

LEMMA InitPage == Init => PageType
<1> SUFFICES ASSUME Init PROVE PageType
  OBVIOUS
<1>1. loads \in [Load -> LoadType]
  BY NoLoadType DEF Init
<1>2. queue \in Seq(Transactions)
  BY EmptySeq DEF Init
<1> QED  BY <1>1, <1>2, Widths DEF Init, PageType, Kinds, NoPoll, Time

LEMMA WorldPage ==
  ASSUME PageType, Record \/ ResetElsewhere \/ Close PROVE PageType'
<1>1. CASE Record
  BY <1>1, Widths DEF PageType, Record, stored, range, view, requests, Time
<1>2. CASE ResetElsewhere
  BY <1>2 DEF PageType, ResetElsewhere, stored, range, view, requests
<1>3. CASE Close
  <2>1. loads' \in [Load -> LoadType] /\ queue' \in Seq(Transactions)
    BY <1>3, NoLoadType, EmptySeq DEF Close
  <2> QED  BY <1>3, <2>1, Widths DEF PageType, Close, outside, stored, NoPoll, Kinds, Time
<1> QED  BY <1>1, <1>2, <1>3

LEMMA BootPage == PageType /\ Boot => PageType'
<1> SUFFICES ASSUME PageType, Boot PROVE PageType'
  OBVIOUS
<1>1. CASE Open
  BY <1>1 DEF PageType, Open, outside, stored, range, view, requests
<1>2. CASE RestorePreference
  <2>1. mode' \in Kinds /\ bounds' \in SUBSET Time
    BY <1>2, SelectType DEF RestorePreference, Select, PageType, Kinds
  <2>2. queue' \in Seq(Transactions)
    BY <1>2, <2>1, TransactionType, AppendProperties DEF RestorePreference, PageType
  <2> QED  BY <1>2, <2>1, <2>2 DEF PageType, RestorePreference, outside, stored, view, requests
<1>3. ASSUME NEW k \in Load, RestoreCache(k) PROVE PageType'
  <2>1. /\ mode' \in Kinds /\ bounds' \in SUBSET Time /\ loads' \in [Load -> LoadType]
    BY <1>3, SendType DEF RestoreCache
  <2>2. queue' \in Seq(Transactions)
    BY <1>3, HeadTailProperties DEF RestoreCache, IsNext, PageType
  <2>3. observations' \in SUBSET Time
    BY <1>3 DEF RestoreCache, PageType
  <2> QED  BY <1>3, <2>1, <2>2, <2>3 DEF PageType, RestoreCache, outside, stored
<1> QED  BY <1>1, <1>2, <1>3 DEF Boot

LEMMA LoadStagePage ==
  ASSUME PageType, NEW k \in Load, NEW new \in LoadType, loads' = [loads EXCEPT ![k] = new]
  PROVE  loads' \in [Load -> LoadType] /\ loads'[k] = new /\ \A j \in Load \ {k} : loads'[j] = loads[j]
  BY DEF PageType

LEMMA EditPage == ASSUME PageType, NEW kind \in Kinds, Edit(kind) PROVE PageType'
  BY SelectType DEF PageType, Edit, Select, outside, stored, view, requests

LEMMA RequestPage ==
  ASSUME PageType, NEW k \in Load,
         Resume(k) \/ Submit(k) \/ AnswerLoad(k) \/ FailLoad(k)
  PROVE  PageType'
<1>1. CASE Resume(k)
  <2>1. mode' \in Kinds /\ bounds' \in SUBSET Time /\ loads' \in [Load -> LoadType]
    BY <1>1, SendType DEF Resume
  <2> QED  BY <1>1, <2>1 DEF PageType, Resume, outside, stored, view
<1>2. CASE Submit(k)
  <2>1. mode' \in Kinds /\ bounds' \in SUBSET Time /\ loads' \in [Load -> LoadType]
    BY <1>2, SendType DEF Submit
  <2> QED  BY <1>2, <2>1 DEF PageType, Submit, outside, stored, view
<1>3. CASE AnswerLoad(k)
  <2> DEFINE new == IF loads[k].query \cap Retained = {} THEN NoLoad
                    ELSE [loads[k] EXCEPT !.stage = "answered", !.readings = Answer(loads[k].query)]
  <2>1. Answer(loads[k].query) \in SUBSET Time
    BY DEF Answer, PageType
  <2>2. new \in LoadType
    BY <2>1, NoLoadType DEF PageType, LoadType
  <2>3. loads' = [loads EXCEPT ![k] = new]
    BY <1>3 DEF AnswerLoad
  <2> HIDE DEF new
  <2>4. loads' \in [Load -> LoadType]
    BY <2>2, <2>3, LoadStagePage
  <2> QED  BY <1>3, <2>4 DEF PageType, AnswerLoad, outside, stored, range, view
<1>4. CASE FailLoad(k)
  <2>1. loads' \in [Load -> LoadType]
    BY <1>4, NoLoadType, LoadStagePage DEF FailLoad
  <2> QED  BY <1>4, <2>1 DEF PageType, FailLoad, outside, stored, range, view
<1> QED  BY <1>1, <1>2, <1>3, <1>4

(* A history answer is applied: memory is right at once, and the transaction    *)
(* that is asked for first is the one that deletes.                           *)
LEMMA ApplyLoadIs ==
  ASSUME PageType, NEW k \in Load, ApplyLoad(k)
  PROVE  LET readings == loads[k].readings
             removed == Removed(readings)
         IN /\ loads[k].stage = "answered" /\ MayArrive
            /\ removed \in SUBSET Time /\ readings \in SUBSET Time
            /\ observations' = (observations \ removed) \cup readings
            /\ UNCHANGED <<cache, page, poll, reset, now, server>>
            /\ \/ /\ removed = {} /\ readings = {}
                  /\ UNCHANGED <<queue, range>> /\ Finish(k, observations')
               \/ /\ UNCHANGED <<shown, label, range, preference>>
                  /\ \E t \in Transactions, w \in Outstanding :
                       /\ queue' = Append(queue, t) /\ t.by = k
                       /\ loads' = [loads EXCEPT ![k] = [loads[k] EXCEPT !.stage = "writing", !.writes = w]]
                       /\ \/ removed = {} /\ t.op = "put" /\ t.times = readings /\ w = <<>>
                          \/ t.op = "delete" /\ t.times = removed
                             /\ \/ readings = {} /\ w = <<>>
                                \/ w = << <<"put", readings>> >>
<1> DEFINE readings == loads[k].readings
           removed == Removed(readings)
           writes == Writes(removed, readings)
           memory == (observations \ removed) \cup readings
<1> SUFFICES
      /\ loads[k].stage = "answered" /\ MayArrive
      /\ removed \in SUBSET Time /\ readings \in SUBSET Time
      /\ observations' = memory
      /\ UNCHANGED <<cache, page, poll, reset, now, server>>
      /\ \/ /\ removed = {} /\ readings = {}
            /\ UNCHANGED <<queue, range>> /\ Finish(k, observations')
         \/ /\ UNCHANGED <<shown, label, range, preference>>
            /\ \E t \in Transactions, w \in Outstanding :
                 /\ queue' = Append(queue, t) /\ t.by = k
                 /\ loads' = [loads EXCEPT ![k] = [loads[k] EXCEPT !.stage = "writing", !.writes = w]]
                 /\ \/ removed = {} /\ t.op = "put" /\ t.times = readings /\ w = <<>>
                    \/ t.op = "delete" /\ t.times = removed
                       /\ \/ readings = {} /\ w = <<>>
                          \/ w = << <<"put", readings>> >>
  OBVIOUS
<1>1. removed \in SUBSET Time /\ readings \in SUBSET Time
  BY DEF Removed, PageType, LoadType
<1>2. /\ loads[k].stage = "answered" /\ MayArrive
      /\ UNCHANGED <<cache, page, poll, reset, now, server>>
      /\ IF writes = <<>>
         THEN UNCHANGED <<range, queue>> /\ Finish(k, memory)
         ELSE /\ observations' = memory
              /\ queue' = Append(queue, Transaction(writes[1][1], writes[1][2], k))
              /\ loads' = [loads EXCEPT ![k].stage = "writing", ![k].writes = Tail(writes)]
              /\ UNCHANGED <<shown, label, range, preference>>
  BY DEF ApplyLoad, outside, counters, stored
<1>3. observations' = memory
  BY <1>2 DEF Finish, Redraw
<1>4. ASSUME writes # <<>>
      PROVE  \E t \in Transactions, w \in Outstanding :
               /\ queue' = Append(queue, t) /\ t.by = k
               /\ loads' = [loads EXCEPT ![k] = [loads[k] EXCEPT !.stage = "writing", !.writes = w]]
               /\ \/ removed = {} /\ t.op = "put" /\ t.times = readings /\ w = <<>>
                  \/ t.op = "delete" /\ t.times = removed
                     /\ \/ readings = {} /\ w = <<>>
                        \/ w = << <<"put", readings>> >>
  <2> DEFINE t == Transaction(writes[1][1], writes[1][2], k)
             w == Tail(writes)
  <2>1. k # "page"
    BY LoadsAreNoOthers
  <2>2. \/ /\ removed = {} /\ writes = << <<"put", readings>> >>
        \/ /\ writes = << <<"delete", removed>> >> /\ readings = {}
        \/ /\ writes = << <<"delete", removed>>, <<"put", readings>> >>
    BY <1>1, <1>4, WritesCases
  <2>3. /\ t \in Transactions /\ t.by = k /\ w \in Outstanding
        /\ \/ removed = {} /\ t.op = "put" /\ t.times = readings /\ w = <<>>
           \/ t.op = "delete" /\ t.times = removed
              /\ \/ readings = {} /\ w = <<>>
                 \/ w = << <<"put", readings>> >>
    <3>1. \A op \in {"put", "delete"}, x \in SUBSET Time :
            LET u == Transaction(op, x, k)
            IN u \in Transactions /\ u.op = op /\ u.times = x /\ u.by = k
      BY <2>1, TransactionType
    <3> HIDE DEF readings, removed, writes
    <3>2. CASE removed = {} /\ writes = << <<"put", readings>> >>
      <4>1. writes[1][1] = "put" /\ writes[1][2] = readings /\ w = <<>>
        BY <3>2
      <4>2. t \in Transactions /\ t.by = k /\ t.op = "put" /\ t.times = readings
        BY <1>1, <3>1, <4>1
      <4> QED  BY <3>2, <4>1, <4>2 DEF Outstanding
    <3>3. CASE writes = << <<"delete", removed>> >> /\ readings = {}
      <4>1. writes[1][1] = "delete" /\ writes[1][2] = removed /\ w = <<>>
        BY <3>3
      <4>2. t \in Transactions /\ t.by = k /\ t.op = "delete" /\ t.times = removed
        BY <1>1, <3>1, <4>1
      <4> QED  BY <3>3, <4>1, <4>2 DEF Outstanding
    <3>4. CASE writes = << <<"delete", removed>>, <<"put", readings>> >>
      <4>1. writes[1][1] = "delete" /\ writes[1][2] = removed /\ w = << <<"put", readings>> >>
        BY <3>4
      <4>2. t \in Transactions /\ t.by = k /\ t.op = "delete" /\ t.times = removed
        BY <1>1, <3>1, <4>1
      <4> QED  BY <1>1, <4>1, <4>2 DEF Outstanding
    <3> QED  BY <2>2, <3>2, <3>3, <3>4
  <2>4. /\ queue' = Append(queue, t)
        /\ loads' = [loads EXCEPT ![k] = [loads[k] EXCEPT !.stage = "writing", !.writes = w]]
    BY <1>2, <1>4 DEF PageType
  <2> HIDE DEF t, w, readings, removed
  <2> QED  BY <2>3, <2>4
<1>5. CASE writes = <<>>
  <2> HIDE DEF readings, removed
  <2>1. \/ removed = {} /\ readings = {}
        \/ writes = << <<"put", readings>> >>
        \/ writes = << <<"delete", removed>> >>
        \/ writes = << <<"delete", removed>>, <<"put", readings>> >>
    BY <1>1, WritesCases
  <2> HIDE DEF writes
  <2>2. removed = {} /\ readings = {}
    BY <1>5, <2>1
  <2> QED  BY <1>1, <1>2, <1>3, <1>5, <2>2
<1>6. CASE writes # <<>>
  <2> HIDE DEF readings, removed, writes, memory
  <2>1. /\ UNCHANGED <<shown, label, range, preference>>
        /\ loads[k].stage = "answered" /\ MayArrive
        /\ UNCHANGED <<cache, page, poll, reset, now, server>>
    BY <1>2, <1>6
  <2>2. \E t \in Transactions, w \in Outstanding :
               /\ queue' = Append(queue, t) /\ t.by = k
               /\ loads' = [loads EXCEPT ![k] = [loads[k] EXCEPT !.stage = "writing", !.writes = w]]
               /\ \/ removed = {} /\ t.op = "put" /\ t.times = readings /\ w = <<>>
                  \/ t.op = "delete" /\ t.times = removed
                     /\ \/ readings = {} /\ w = <<>>
                        \/ w = << <<"put", readings>> >>
    BY <1>4, <1>6
  <2> QED  BY <1>1, <1>3, <2>1, <2>2
<1> QED  BY <1>5, <1>6

(* A transaction that writes leaves times in the store. *)
LEMMA AfterType ==
  ASSUME PageType, NEW t \in Transactions, t.op # "get"
  PROVE  After(t) \in SUBSET Time
<1>1. CASE t.op = "put"
  BY <1>1 DEF After, PageType, Transactions
<1>2. CASE t.op = "delete"
  BY <1>2 DEF After, PageType, Transactions
<1>3. CASE t.op = "clear"
  BY <1>3 DEF After, PageType, Transactions
<1> QED  BY <1>1, <1>2, <1>3 DEF Transactions

(* The transaction that runs next is one of these, and a write unless the page  *)
(* itself asked for it.                                                       *)
LEMMA NextTransaction ==
  ASSUME PageType, NEW by, IsNext(by), by # "page"
  PROVE  /\ queue # <<>> /\ Head(queue) \in Transactions /\ Head(queue).op # "get"
         /\ Tail(queue) \in Seq(Transactions) /\ After(Head(queue)) \in SUBSET Time
<1>1. queue # <<>> /\ Head(queue) \in Transactions /\ Tail(queue) \in Seq(Transactions)
  BY HeadTailProperties DEF PageType, IsNext
<1>2. Head(queue).op # "get"
  BY <1>1 DEF IsNext, Transactions
<1> QED  BY <1>1, <1>2, AfterType

(* A transaction of a load has run: the put follows the delete. *)
LEMMA WriteLoadIs ==
  ASSUME PageType, Storage, NEW k \in Load, WriteLoad(k)
  PROVE  /\ loads[k].stage = "writing" /\ IsNext(k)
         /\ cache' = After(Head(queue))
         /\ UNCHANGED <<page, poll, reset, now, server, range>>
         /\ \/ loads[k].writes = <<>> /\ queue' = Tail(queue) /\ Finish(k, observations)
            \/ \E r \in SUBSET Time, t \in Transactions :
                 /\ loads[k].writes = << <<"put", r>> >>
                 /\ t.op = "put" /\ t.times = r /\ t.by = k
                 /\ queue' = Append(Tail(queue), t)
                 /\ loads' = [loads EXCEPT ![k] = [loads[k] EXCEPT !.writes = <<>>]]
                 /\ UNCHANGED <<view, preference>>
<1> DEFINE writes == loads[k].writes
<1>1. /\ loads[k].stage = "writing" /\ IsNext(k)
      /\ cache' = After(Head(queue))
      /\ UNCHANGED <<page, poll, reset, now, server, range>>
      /\ IF writes = <<>>
         THEN queue' = Tail(queue) /\ Finish(k, observations)
         ELSE /\ queue' = Append(Tail(queue), Transaction(writes[1][1], writes[1][2], k))
              /\ loads' = [loads EXCEPT ![k].writes = Tail(writes)]
              /\ UNCHANGED <<view, preference>>
  BY DEF WriteLoad, outside, counters
<1>2. writes \in Outstanding
  BY DEF PageType, LoadType
<1>3. ASSUME NEW r \in SUBSET Time, writes = << <<"put", r>> >>
      PROVE  \E t \in Transactions :
               /\ t.op = "put" /\ t.times = r /\ t.by = k
               /\ queue' = Append(Tail(queue), t)
               /\ loads' = [loads EXCEPT ![k] = [loads[k] EXCEPT !.writes = <<>>]]
  <2> DEFINE t == Transaction("put", r, k)
  <2>1. k # "page"
    BY LoadsAreNoOthers
  <2>2. t \in Transactions /\ t.op = "put" /\ t.times = r /\ t.by = k
    BY <2>1, TransactionType
  <2>3. writes # <<>> /\ writes[1][1] = "put" /\ writes[1][2] = r /\ Tail(writes) = <<>>
    BY <1>3
  <2>4. /\ queue' = Append(Tail(queue), t)
        /\ loads' = [loads EXCEPT ![k] = [loads[k] EXCEPT !.writes = <<>>]]
    BY <1>1, <2>3 DEF PageType
  <2> HIDE DEF t
  <2> QED  BY <2>2, <2>4
<1>4. CASE writes = <<>>
  BY <1>1, <1>4
<1>5. CASE \E r \in SUBSET Time : writes = << <<"put", r>> >>
  <2>1. writes # <<>>
    BY <1>5
  <2> QED  BY <1>1, <1>3, <1>5, <2>1
<1> QED  BY <1>2, <1>4, <1>5 DEF Outstanding

LEMMA FinishType ==
  ASSUME PageType, NEW k \in Load, NEW readings \in SUBSET Time, Finish(k, readings)
  PROVE  /\ observations' = readings /\ shown' = readings \cap bounds' /\ label' = bounds'
         /\ preference' \in Kinds
         /\ loads' \in [Load -> LoadType] /\ loads'[k] = NoLoad
         /\ \A j \in Load \ {k} : loads'[j] = loads[j]
<1>1. loads' = [loads EXCEPT ![k] = NoLoad] /\ preference' \in {mode, preference}
  BY DEF Finish
<1> QED  BY <1>1, NoLoadType, LoadStagePage DEF Finish, Redraw, PageType

LEMMA ApplyLoadPage == ASSUME PageType, NEW k \in Load, ApplyLoad(k) PROVE PageType'
<1> DEFINE readings == loads[k].readings
           removed == Removed(readings)
<1>1. /\ removed \in SUBSET Time /\ readings \in SUBSET Time
      /\ observations' = (observations \ removed) \cup readings
      /\ UNCHANGED <<cache, page, poll, now, server>>
  BY ApplyLoadIs
<1>2. observations' \in SUBSET Time
  BY <1>1 DEF PageType
<1>3. CASE UNCHANGED <<queue, range>> /\ Finish(k, observations')
  <2>1. preference' \in Kinds /\ loads' \in [Load -> LoadType]
    BY <1>2, <1>3, FinishType
  <2> QED  BY <1>1, <1>2, <1>3, <2>1 DEF PageType, range
<1>4. ASSUME UNCHANGED <<shown, label, range, preference>>,
             NEW t \in Transactions, NEW w \in Outstanding,
             queue' = Append(queue, t),
             loads' = [loads EXCEPT ![k] = [loads[k] EXCEPT !.stage = "writing", !.writes = w]]
      PROVE  PageType'
  <2>1. [loads[k] EXCEPT !.stage = "writing", !.writes = w] \in LoadType
    BY DEF PageType, LoadType
  <2>2. loads' \in [Load -> LoadType]
    BY <1>4, <2>1, LoadStagePage
  <2>3. queue' \in Seq(Transactions)
    BY <1>4, AppendProperties DEF PageType
  <2> QED  BY <1>1, <1>2, <1>4, <2>2, <2>3 DEF PageType, range
<1> QED  BY <1>3, <1>4, ApplyLoadIs

LEMMA WriteLoadPage == ASSUME PageType, Storage, NEW k \in Load, WriteLoad(k) PROVE PageType'
<1>1. /\ IsNext(k) /\ cache' = After(Head(queue))
      /\ UNCHANGED <<page, poll, now, server, range>>
  BY WriteLoadIs
<1>2. k # "page"
  BY LoadsAreNoOthers
<1>3. cache' \in SUBSET Time /\ Tail(queue) \in Seq(Transactions)
  BY <1>1, <1>2, NextTransaction
<1>4. CASE queue' = Tail(queue) /\ Finish(k, observations)
  <2>1. /\ observations' = observations /\ preference' \in Kinds
        /\ loads' \in [Load -> LoadType]
    BY <1>4, FinishType DEF PageType
  <2> QED  BY <1>1, <1>3, <1>4, <2>1 DEF PageType, range
<1>5. ASSUME NEW t \in Transactions, queue' = Append(Tail(queue), t),
             loads' = [loads EXCEPT ![k] = [loads[k] EXCEPT !.writes = <<>>]],
             UNCHANGED <<view, preference>>
      PROVE  PageType'
  <2>1. [loads[k] EXCEPT !.writes = <<>>] \in LoadType
    BY DEF PageType, LoadType, Outstanding
  <2>2. loads' \in [Load -> LoadType]
    BY <1>5, <2>1, LoadStagePage
  <2>3. queue' \in Seq(Transactions)
    BY <1>3, <1>5, AppendProperties
  <2> QED  BY <1>1, <1>3, <1>5, <2>2, <2>3 DEF PageType, range, view
<1> QED  BY <1>4, <1>5, WriteLoadIs

LEMMA PollPage == PageType /\ (Polling \/ FailPoll) => PageType'
<1> SUFFICES ASSUME PageType, Polling \/ FailPoll PROVE PageType'
  OBVIOUS
<1> USE DEF outside, stored, range, view, requests, counters
<1>1. CASE Poll \/ FailPoll
  BY <1>1, Widths DEF PageType, Poll, FailPoll, NoPoll
<1>2. CASE AnswerPoll
  <2>1. server # {} => Max(server) \in Time
    BY Widths, MaxOfTimes DEF PageType, Time
  <2>2. poll' \in [stage : {"none", "sent", "answered", "writing"}, reading : 0..MaxTime]
        /\ (poll'.stage \in {"answered", "writing"} => poll'.reading \in Time)
    BY <1>2, <2>1, Widths DEF AnswerPoll, NoPoll, Time
  <2> QED  BY <1>2, <2>2 DEF PageType, AnswerPoll
<1>3. CASE ApplyPoll
  <2>1. poll.reading \in Time
    BY <1>3 DEF ApplyPoll, PageType
  <2>2. queue' \in Seq(Transactions)
    BY <1>3, <2>1, LoadsAreNoOthers, TransactionType, AppendProperties DEF ApplyPoll, PageType
  <2>3. observations' \in SUBSET Time
    BY <1>3, <2>1 DEF ApplyPoll, PageType
  <2> QED  BY <1>3, <2>1, <2>2, <2>3 DEF PageType, ApplyPoll
<1>4. CASE WritePoll
  <2>1. cache' \in SUBSET Time /\ queue' \in Seq(Transactions)
    BY <1>4, NextTransaction DEF WritePoll, PageType
  <2>2. mode' \in Kinds /\ bounds' \in SUBSET Time
    BY <1>4, RollType DEF WritePoll
  <2> QED  BY <1>4, <2>1, <2>2, Widths DEF PageType, WritePoll, Redraw, NoPoll
<1> QED  BY <1>1, <1>2, <1>3, <1>4 DEF Polling

LEMMA ResetPage == PageType /\ (Resetting \/ Reset \/ FailReset) => PageType'
<1> SUFFICES ASSUME PageType, Resetting \/ Reset \/ FailReset PROVE PageType'
  OBVIOUS
<1> USE DEF outside, stored, range, view, requests, counters
<1>1. CASE Reset \/ FailReset \/ AnswerReset
  BY <1>1 DEF PageType, Reset, FailReset, AnswerReset
<1>2. CASE ApplyReset
  <2>1. queue' \in Seq(Transactions)
    BY <1>2, LoadsAreNoOthers, TransactionType, AppendProperties DEF ApplyReset, PageType
  <2> QED  BY <1>2, <2>1 DEF PageType, ApplyReset
<1>3. CASE WriteReset
  <2>1. cache' \in SUBSET Time /\ queue' \in Seq(Transactions)
    BY <1>3, NextTransaction DEF WriteReset, PageType
  <2> QED  BY <1>3, <2>1 DEF PageType, WriteReset
<1> QED  BY <1>1, <1>2, <1>3 DEF Resetting

LEMMA StepPage == Storage /\ PageType /\ [Next]_vars => PageType'
<1> SUFFICES ASSUME Storage, PageType, [Next]_vars PROVE PageType'
  OBVIOUS
<1>1. CASE UNCHANGED vars
  BY <1>1 DEF PageType, vars, outside, stored, range, view, requests, counters
<1>2. CASE User \/ Resuming \/ Faulty
  <2>1. ASSUME NEW kind \in Kinds, Edit(kind) PROVE PageType'
    BY <2>1, EditPage
  <2> QED  BY <1>2, <2>1, RequestPage, ResetPage, PollPage, WorldPage DEF User, Resuming, Faulty, Kinds
<1>3. CASE Loading
  BY <1>3, RequestPage, ApplyLoadPage, WriteLoadPage DEF Loading
<1> QED  BY <1>1, <1>2, <1>3, WorldPage, BootPage, PollPage, ResetPage DEF Next

-----------------------------------------------------------------------------
(* The graphs *)

Busy == (\E k \in Load : loads[k].stage = "writing") \/ poll.stage = "writing"

(* Only a load or a poll between its write and its end may have changed memory  *)
(* without having drawn it.                                                   *)
Drawn == Busy \/ shown = observations \cap label

(* A load that is not writing may come and go. *)
LEMMA BusyStays ==
  ASSUME PageType, Busy, NEW k \in Load, loads[k].stage # "writing", UNCHANGED poll,
         \A j \in Load \ {k} : loads'[j] = loads[j]
  PROVE  Busy'
<1>1. CASE poll.stage = "writing"
  BY <1>1 DEF Busy
<1>2. ASSUME NEW j \in Load, loads[j].stage = "writing" PROVE Busy'
  <2>1. loads'[j] = loads[j]
    BY <1>2
  <2> QED  BY <1>2, <2>1 DEF Busy
<1> QED  BY <1>1, <1>2 DEF Busy

(* Each step on a load that leaves memory and graphs alone. *)
LEMMA RequestQuiet ==
  ASSUME PageType, NEW k \in Load, Resume(k) \/ Submit(k) \/ AnswerLoad(k) \/ FailLoad(k)
  PROVE  /\ UNCHANGED <<view, cache, queue, poll, page, reset>>
         /\ loads[k].stage # "writing" /\ loads'[k].stage # "writing"
         /\ \A j \in Load \ {k} : loads'[j] = loads[j]
<1>1. CASE Resume(k)
  <2>1. UNCHANGED <<view, cache, queue, poll, page, reset>> /\ Send(k, FALSE)
    BY <1>1 DEF Resume, outside, stored
  <2> QED  BY <2>1, SendType
<1>2. CASE Submit(k)
  <2>1. UNCHANGED <<view, cache, queue, poll, page, reset>> /\ Send(k, TRUE)
    BY <1>2 DEF Submit, outside, stored
  <2> QED  BY <2>1, SendType
<1>3. CASE AnswerLoad(k)
  <2> DEFINE new == IF loads[k].query \cap Retained = {} THEN NoLoad
                    ELSE [loads[k] EXCEPT !.stage = "answered", !.readings = Answer(loads[k].query)]
  <2>1. loads' = [loads EXCEPT ![k] = new] /\ loads[k].stage = "sent"
    BY <1>3 DEF AnswerLoad
  <2>2. new.stage \in {"none", "answered"}
    BY NoLoadType DEF PageType, LoadType
  <2> HIDE DEF new
  <2> QED  BY <1>3, <2>1, <2>2 DEF AnswerLoad, outside, stored, range, counters, PageType
<1>4. CASE FailLoad(k)
  <2>1. loads' = [loads EXCEPT ![k] = NoLoad] /\ loads[k].stage \in {"sent", "answered"}
    BY <1>4 DEF FailLoad
  <2> QED  BY <1>4, <2>1, NoLoadType DEF FailLoad, outside, stored, range, PageType
<1> QED  BY <1>1, <1>2, <1>3, <1>4

LEMMA InitDrawn == Init => Drawn
  BY DEF Init, Drawn

LEMMA StepDrawn == Storage /\ PageType /\ Drawn /\ [Next]_vars => Drawn'
<1> SUFFICES ASSUME Storage, PageType, Drawn, [Next]_vars PROVE Drawn'
  OBVIOUS
<1> USE DEF outside, stored, range, view, requests, counters
<1>1. CASE UNCHANGED <<view, loads, poll>>
  BY <1>1 DEF Drawn, Busy
<1>2. ASSUME NEW k \in Load, Resume(k) \/ Submit(k) \/ AnswerLoad(k) \/ FailLoad(k) PROVE Drawn'
  <2>1. /\ UNCHANGED <<view, poll>> /\ loads[k].stage # "writing"
        /\ \A j \in Load \ {k} : loads'[j] = loads[j]
    BY <1>2, RequestQuiet
  <2> QED  BY <2>1, BusyStays DEF Drawn
<1>3. ASSUME NEW k \in Load, ApplyLoad(k) PROVE Drawn'
  <2> DEFINE memory == (observations \ Removed(loads[k].readings)) \cup loads[k].readings
  <2>1. CASE Finish(k, observations')
    BY <2>1 DEF Finish, Redraw, Drawn
  <2>2. ASSUME NEW w \in Outstanding,
               loads' = [loads EXCEPT ![k] = [loads[k] EXCEPT !.stage = "writing", !.writes = w]]
        PROVE  Drawn'
    <3>1. loads'[k].stage = "writing"
      BY <2>2 DEF PageType, LoadType
    <3> QED  BY <3>1 DEF Drawn, Busy
  <2> QED  BY <1>3, <2>1, <2>2, ApplyLoadIs
<1>4. ASSUME NEW k \in Load, WriteLoad(k) PROVE Drawn'
  <2>1. CASE Finish(k, observations)
    BY <2>1 DEF Finish, Redraw, Drawn
  <2>2. CASE loads' = [loads EXCEPT ![k] = [loads[k] EXCEPT !.writes = <<>>]]
    <3>1. loads[k].stage = "writing"
      BY <1>4, WriteLoadIs
    <3>2. loads'[k].stage = "writing"
      BY <2>2, <3>1 DEF PageType, LoadType
    <3> QED  BY <3>2 DEF Drawn, Busy
  <2> QED  BY <1>4, <2>1, <2>2, WriteLoadIs
<1>5. CASE Boot
  <2>1. CASE Open \/ RestorePreference
    BY <1>1, <2>1 DEF Open, RestorePreference
  <2>2. ASSUME NEW k \in Load, RestoreCache(k) PROVE Drawn'
    <3>1. shown' = observations' \cap label'
      BY <2>2 DEF RestoreCache
    <3> QED  BY <3>1 DEF Drawn
  <2> QED  BY <1>5, <2>1, <2>2 DEF Boot
<1>6. CASE Polling \/ FailPoll
  <2>1. CASE Poll \/ AnswerPoll \/ FailPoll
    <3>1. UNCHANGED <<view, loads>> /\ poll.stage # "writing"
      BY <2>1 DEF Poll, AnswerPoll, FailPoll
    <3> QED  BY <3>1 DEF Drawn, Busy
  <2>2. CASE ApplyPoll
    <3>1. poll'.stage = "writing"
      BY <2>2 DEF ApplyPoll, PageType
    <3> QED  BY <3>1 DEF Drawn, Busy
  <2>3. CASE WritePoll
    BY <2>3 DEF WritePoll, Redraw, Drawn
  <2> QED  BY <1>6, <2>1, <2>2, <2>3 DEF Polling
<1>7. CASE Resetting \/ Reset \/ FailReset
  <2>1. CASE ApplyReset
    BY <2>1 DEF ApplyReset, Drawn
  <2>2. CASE Reset \/ FailReset \/ AnswerReset \/ WriteReset
    BY <1>1, <2>2 DEF Reset, FailReset, AnswerReset, WriteReset
  <2> QED  BY <1>7, <2>1, <2>2 DEF Resetting
<1>8. CASE Record \/ ResetElsewhere \/ \E kind \in {"rolling", "all", "custom"} : Edit(kind)
  BY <1>1, <1>8 DEF Record, ResetElsewhere, Edit
<1>9. CASE Close
  BY <1>9 DEF Close, Drawn
<1>10. CASE UNCHANGED vars
  BY <1>1, <1>10 DEF vars
<1> QED
  BY <1>2, <1>3, <1>4, <1>5, <1>6, <1>7, <1>8, <1>9, <1>10 DEF Next, Loading, Resuming, User, Faulty

(* Where there is an IndexedDB, no order of answers, writes, resets and faults   *)
(* leaves the graphs behind what memory holds of the range they are labelled   *)
(* with, once nothing is in flight.                                           *)
THEOREM ViewFollowsMemory == ASSUME Storage PROVE Spec => []ViewIsCurrent
<1>1. Init => PageType /\ Drawn
  BY InitPage, InitDrawn
<1>2. PageType /\ Drawn /\ [Next]_vars => (PageType /\ Drawn)'
  BY StepPage, StepDrawn
<1>3. PageType /\ Drawn => ViewIsCurrent
  BY DEF Drawn, Busy, ViewIsCurrent, Quiet
<1> QED  BY <1>1, <1>2, <1>3, PTL DEF Spec

-----------------------------------------------------------------------------
(* What the store will hold *)

Removes(t, r) == t.op = "clear" \/ (t.op = "delete" /\ r \in t.times)

(* r is in the store once the transactions of q have run over c: something puts *)
(* it there and nothing after that removes it.                                *)
Survives(r, c, q) ==
  \E i \in 0..Len(q) :
    /\ IF i = 0 THEN r \in c ELSE q[i].op = "put" /\ r \in q[i].times
    /\ \A j \in (i + 1)..Len(q) : ~Removes(q[j], r)

LEMMA SurvivesNothing ==
  ASSUME NEW r, NEW c PROVE Survives(r, c, <<>>) <=> r \in c
  BY DEF Survives

LEMMA SurvivesAppend ==
  ASSUME NEW r, NEW c, NEW q \in Seq(Transactions), NEW t \in Transactions,
         ~Removes(t, r), Survives(r, c, q)
  PROVE  Survives(r, c, Append(q, t))
<1> DEFINE p == Append(q, t)
<1>1. /\ Len(q) \in Nat /\ Len(p) = Len(q) + 1 /\ p[Len(q) + 1] = t
      /\ \A i \in 1..Len(q) : p[i] = q[i]
  BY AppendProperties, LenProperties
<1>2. PICK i \in 0..Len(q) :
        /\ IF i = 0 THEN r \in c ELSE q[i].op = "put" /\ r \in q[i].times
        /\ \A j \in (i + 1)..Len(q) : ~Removes(q[j], r)
  BY DEF Survives
<1> HIDE DEF p
<1>3. IF i = 0 THEN r \in c ELSE p[i].op = "put" /\ r \in p[i].times
  BY <1>1, <1>2
<1>4. ASSUME NEW j \in (i + 1)..Len(p) PROVE ~Removes(p[j], r)
  <2>1. CASE j = Len(q) + 1
    BY <1>1, <2>1
  <2>2. CASE j # Len(q) + 1
    <3>1. j \in (i + 1)..Len(q) /\ j \in 1..Len(q)
      BY <1>1, <1>2, <2>2
    <3> QED  BY <1>1, <1>2, <3>1
  <2> QED  BY <2>1, <2>2
<1>5. i \in 0..Len(p)
  BY <1>1
<1>6. Survives(r, c, p)
  BY <1>3, <1>4, <1>5 DEF Survives
<1> QED  BY <1>6 DEF p

LEMMA SurvivesPut ==
  ASSUME NEW r, NEW c, NEW q \in Seq(Transactions), NEW t \in Transactions,
         t.op = "put", r \in t.times
  PROVE  Survives(r, c, Append(q, t))
<1> DEFINE p == Append(q, t)
<1>1. Len(q) \in Nat /\ Len(p) = Len(q) + 1 /\ p[Len(q) + 1] = t
  BY AppendProperties, LenProperties
<1> HIDE DEF p
<1>2. Survives(r, c, p)
  BY <1>1 DEF Survives
<1> QED  BY <1>2 DEF p

(* Running the first transaction changes nothing of that. *)
LEMMA SurvivesRun ==
  ASSUME PageType, NEW r, NEW by, IsNext(by), by # "page", Survives(r, cache, queue)
  PROVE  Survives(r, After(Head(queue)), Tail(queue))
<1> DEFINE h == Head(queue)
           q == Tail(queue)
           c == After(h)
<1>1. /\ Len(queue) \in Nat /\ Len(queue) > 0 /\ h = queue[1] /\ Len(q) = Len(queue) - 1
      /\ \A i \in 1..Len(q) : q[i] = queue[i + 1]
  BY NextTransaction, HeadTailProperties, LenProperties, EmptySeq DEF PageType
<1>2. h.op \in {"put", "delete", "clear"}
  BY NextTransaction DEF Transactions
<1>3. PICK i \in 0..Len(queue) :
        /\ IF i = 0 THEN r \in cache ELSE queue[i].op = "put" /\ r \in queue[i].times
        /\ \A j \in (i + 1)..Len(queue) : ~Removes(queue[j], r)
  BY DEF Survives
<1>4. CASE i \in {0, 1}
  <2>1. i = 0 => ~Removes(h, r)
    BY <1>1, <1>3
  <2>2. r \in c
    <3>1. CASE h.op = "put"
      BY <1>1, <1>3, <1>4, <3>1 DEF After
    <3>2. CASE h.op = "delete"
      <4>1. i = 0
        BY <1>1, <1>3, <1>4, <3>2
      <4> QED  BY <1>3, <2>1, <3>2, <4>1 DEF After, Removes
    <3>3. CASE h.op = "clear"
      <4>1. i = 0
        BY <1>1, <1>3, <1>4, <3>3
      <4> QED  BY <2>1, <3>3, <4>1 DEF Removes
    <3> QED  BY <1>2, <3>1, <3>2, <3>3
  <2>3. ASSUME NEW j \in 1..Len(q) PROVE ~Removes(q[j], r)
    <3>1. j + 1 \in (i + 1)..Len(queue) /\ q[j] = queue[j + 1]
      BY <1>1, <1>4
    <3> QED  BY <1>3, <3>1
  <2> HIDE DEF c, q
  <2>4. Survives(r, c, q)
    BY <1>1, <2>2, <2>3 DEF Survives
  <2> QED  BY <2>4 DEF c, q
<1>5. CASE i > 1
  <2>1. i - 1 \in 1..Len(q) /\ q[i - 1] = queue[i]
    BY <1>1, <1>5
  <2>2. ASSUME NEW j \in i..Len(q) PROVE ~Removes(q[j], r)
    <3>1. j + 1 \in (i + 1)..Len(queue) /\ j \in 1..Len(q)
      BY <1>1, <1>5
    <3> QED  BY <1>1, <1>3, <3>1
  <2>3. q[i - 1].op = "put" /\ r \in q[i - 1].times
    BY <1>3, <1>5, <2>1
  <2> HIDE DEF c, q
  <2>4. Survives(r, c, q)
    <3>1. i - 1 \in 0..Len(q) /\ i - 1 # 0 /\ (i - 1) + 1 = i
      BY <1>1, <2>1, <1>5
    <3> QED  BY <2>2, <2>3, <3>1 DEF Survives
  <2> QED  BY <2>4 DEF c, q
<1> QED  BY <1>3, <1>4, <1>5

-----------------------------------------------------------------------------
(* The copy *)

(* Load k will still ask for r to be put. *)
Pending(r, k) ==
  loads[k].stage = "writing" /\ loads[k].writes # <<>> /\ r \in loads[k].writes[1][2]

Secured(r) == Survives(r, cache, queue) \/ \E k \in Load : Pending(r, k)

(* Whatever is in memory will be in the store. *)
Safe == \A r \in observations : Secured(r)

(* Until the page runs it has written nothing and remembers nothing. *)
Starting ==
  /\ page \in {"closed", "preference"} => queue = <<>>
  /\ page = "cache" => Len(queue) = 1
  /\ page # "running" => ~Busy /\ reset = "none" /\ observations = {}

CopyInv == PageType /\ Starting /\ Safe

(* A step on a load that leaves store, queue and memory alone. *)
LEMMA SafeStays ==
  ASSUME PageType, Safe, UNCHANGED <<cache, queue>>, observations' \subseteq observations,
         NEW k \in Load, loads[k].stage # "writing", \A j \in Load \ {k} : loads'[j] = loads[j]
  PROVE  Safe'
<1> SUFFICES ASSUME NEW r \in observations' PROVE Secured(r)'
  BY DEF Safe
<1>1. Secured(r)
  BY DEF Safe
<1>2. CASE Survives(r, cache, queue)
  BY <1>2 DEF Secured
<1>3. ASSUME NEW j \in Load, Pending(r, j) PROVE Secured(r)'
  <2>1. j # k
    BY <1>3 DEF Pending
  <2>2. Pending(r, j)'
    BY <1>3, <2>1 DEF Pending
  <2> QED  BY <2>2 DEF Secured
<1> QED  BY <1>1, <1>2, <1>3 DEF Secured

LEMMA SafeUnchanged ==
  ASSUME Safe, UNCHANGED <<cache, queue, loads>>, observations' \subseteq observations PROVE Safe'
  BY DEF Safe, Secured, Pending

LEMMA InitCopy == Init => Starting /\ Safe
<1> SUFFICES ASSUME Init PROVE Starting /\ Safe
  OBVIOUS
<1>1. ~Busy
  BY NoLoadType DEF Init, Busy, NoPoll
<1> QED  BY <1>1 DEF Init, Starting, Safe

(* Only a page that is running is answered, where its own reads come first. *)
LEMMA ApplyLoadCopy ==
  ASSUME LocalFirst, CopyInv, NEW k \in Load, ApplyLoad(k) PROVE Starting' /\ Safe'
<1> DEFINE readings == loads[k].readings
           removed == Removed(readings)
<1>1. /\ loads[k].stage = "answered" /\ MayArrive
      /\ observations' = (observations \ removed) \cup readings
      /\ UNCHANGED <<cache, page>>
  BY ApplyLoadIs DEF CopyInv
<1>2. Starting'
  BY <1>1 DEF MayArrive, Starting
<1>3. CASE removed = {} /\ readings = {} /\ UNCHANGED queue /\ Finish(k, observations')
  <2>1. observations' = observations
    BY <1>1, <1>3
  <2>2. \A j \in Load \ {k} : loads'[j] = loads[j]
    BY <1>3, <2>1, FinishType DEF CopyInv, PageType
  <2> QED  BY <1>1, <1>2, <1>3, <2>1, <2>2, SafeStays DEF CopyInv
<1>4. ASSUME NEW t \in Transactions, NEW w \in Outstanding,
             queue' = Append(queue, t), t.by = k,
             loads' = [loads EXCEPT ![k] = [loads[k] EXCEPT !.stage = "writing", !.writes = w]],
             \/ removed = {} /\ t.op = "put" /\ t.times = readings /\ w = <<>>
             \/ t.op = "delete" /\ t.times = removed
                /\ \/ readings = {} /\ w = <<>>
                   \/ w = << <<"put", readings>> >>
      PROVE  Safe'
  <2> SUFFICES ASSUME NEW r \in observations' PROVE Secured(r)'
    BY DEF Safe
  <2>1. queue \in Seq(Transactions)
    BY DEF CopyInv, PageType
  <2>2. loads'[k].stage = "writing" /\ loads'[k].writes = w
    BY <1>4 DEF CopyInv, PageType, LoadType
  <2>3. \A j \in Load \ {k} : loads'[j] = loads[j]
    BY <1>4 DEF CopyInv, PageType
  <2>4. CASE r \in readings
    <3>1. CASE t.op = "put" /\ t.times = readings
      <4>1. Survives(r, cache, Append(queue, t))
        BY <2>1, <2>4, <3>1, SurvivesPut
      <4> QED  BY <1>1, <1>4, <4>1 DEF Secured
    <3>2. CASE w = << <<"put", readings>> >>
      <4>1. w # <<>> /\ w[1][2] = readings
        BY <3>2
      <4>2. Pending(r, k)'
        BY <2>2, <2>4, <4>1 DEF Pending
      <4> QED  BY <4>2 DEF Secured
    <3> HIDE DEF readings, removed
    <3> QED  BY <1>4, <2>4, <3>1, <3>2
  <2>5. CASE r \notin readings
    <3>1. r \in observations /\ r \notin removed
      BY <1>1, <2>5
    <3>2. ~Removes(t, r)
      BY <1>4, <3>1 DEF Removes
    <3>3. CASE Survives(r, cache, queue)
      <4>1. Survives(r, cache, Append(queue, t))
        BY <2>1, <3>2, <3>3, SurvivesAppend
      <4> QED  BY <1>1, <1>4, <4>1 DEF Secured
    <3>4. ASSUME NEW j \in Load, Pending(r, j) PROVE Secured(r)'
      <4>1. j # k
        BY <1>1, <3>4 DEF Pending
      <4>2. Pending(r, j)'
        BY <2>3, <3>4, <4>1 DEF Pending
      <4> QED  BY <4>2 DEF Secured
    <3> QED  BY <3>1, <3>3, <3>4 DEF CopyInv, Safe, Secured
  <2> QED  BY <2>4, <2>5
<1>5. CASE \E t \in Transactions, w \in Outstanding :
             /\ queue' = Append(queue, t) /\ t.by = k
             /\ loads' = [loads EXCEPT ![k] = [loads[k] EXCEPT !.stage = "writing", !.writes = w]]
             /\ \/ removed = {} /\ t.op = "put" /\ t.times = readings /\ w = <<>>
                \/ t.op = "delete" /\ t.times = removed
                   /\ \/ readings = {} /\ w = <<>>
                      \/ w = << <<"put", readings>> >>
  BY <1>2, <1>4, <1>5
<1>6. PageType
  BY DEF CopyInv
<1> QED  BY <1>2, <1>3, <1>5, <1>6, ApplyLoadIs

LEMMA WriteLoadCopy ==
  ASSUME Storage, CopyInv, NEW k \in Load, WriteLoad(k) PROVE Starting' /\ Safe'
<1>1. /\ loads[k].stage = "writing" /\ IsNext(k)
      /\ cache' = After(Head(queue)) /\ UNCHANGED page
  BY WriteLoadIs DEF CopyInv
<1>2. k # "page"
  BY LoadsAreNoOthers
<1>3. Tail(queue) \in Seq(Transactions)
  BY <1>1, <1>2, NextTransaction DEF CopyInv
<1>4. page' = "running" /\ Starting'
  BY <1>1 DEF CopyInv, Starting, Busy, PageType
<1>5. CASE loads[k].writes = <<>> /\ queue' = Tail(queue) /\ Finish(k, observations)
  <2>1. observations' = observations /\ \A j \in Load \ {k} : loads'[j] = loads[j]
    BY <1>5, FinishType DEF CopyInv, PageType
  <2> SUFFICES ASSUME NEW r \in observations PROVE Secured(r)'
    BY <1>4, <2>1 DEF Safe
  <2>2. CASE Survives(r, cache, queue)
    <3>1. Survives(r, After(Head(queue)), Tail(queue))
      BY <1>1, <1>2, <2>2, SurvivesRun DEF CopyInv
    <3> QED  BY <1>1, <1>5, <3>1 DEF Secured
  <2>3. ASSUME NEW j \in Load, Pending(r, j) PROVE Secured(r)'
    <3>1. j # k
      BY <1>5, <2>3 DEF Pending
    <3>2. Pending(r, j)'
      BY <2>1, <2>3, <3>1 DEF Pending
    <3> QED  BY <3>2 DEF Secured
  <2> QED  BY <2>2, <2>3 DEF CopyInv, Safe, Secured
<1>6. ASSUME NEW x \in SUBSET Time, NEW t \in Transactions,
             loads[k].writes = << <<"put", x>> >>, t.op = "put", t.times = x,
             queue' = Append(Tail(queue), t),
             loads' = [loads EXCEPT ![k] = [loads[k] EXCEPT !.writes = <<>>]],
             UNCHANGED <<view, preference>>
      PROVE  Safe'
  <2>1. observations' = observations
    BY <1>6 DEF view
  <2>2. \A j \in Load \ {k} : loads'[j] = loads[j]
    BY <1>6 DEF CopyInv, PageType
  <2> SUFFICES ASSUME NEW r \in observations PROVE Secured(r)'
    BY <2>1 DEF Safe
  <2>3. CASE Survives(r, cache, queue)
    <3>1. Survives(r, After(Head(queue)), Tail(queue))
      BY <1>1, <1>2, <2>3, SurvivesRun DEF CopyInv
    <3>2. Survives(r, After(Head(queue)), Append(Tail(queue), t))
      BY <1>3, <1>6, <3>1, SurvivesAppend DEF Removes
    <3> QED  BY <1>1, <1>6, <3>2 DEF Secured
  <2>4. CASE Pending(r, k)
    <3>1. r \in t.times
      BY <1>6, <2>4 DEF Pending
    <3>2. Survives(r, After(Head(queue)), Append(Tail(queue), t))
      BY <1>3, <1>6, <3>1, SurvivesPut
    <3> QED  BY <1>1, <1>6, <3>2 DEF Secured
  <2>5. ASSUME NEW j \in Load \ {k}, Pending(r, j) PROVE Secured(r)'
    <3>1. Pending(r, j)'
      BY <2>2, <2>5 DEF Pending
    <3> QED  BY <3>1 DEF Secured
  <2> QED  BY <2>3, <2>4, <2>5 DEF CopyInv, Safe, Secured
<1> QED  BY <1>4, <1>5, <1>6, WriteLoadIs DEF CopyInv

(* What waits for the transaction at the head of the queue goes on when it has  *)
(* run, and what memory holds stays secured.                                  *)
LEMMA RunCopy ==
  ASSUME CopyInv, NEW by, IsNext(by), by # "page", cache' = After(Head(queue)),
         queue' = Tail(queue), UNCHANGED <<loads, observations>>
  PROVE  Safe'
<1> SUFFICES ASSUME NEW r \in observations PROVE Secured(r)'
  BY DEF Safe
<1>1. Secured(r)
  BY DEF CopyInv, Safe
<1>2. CASE Survives(r, cache, queue)
  <2>1. Survives(r, After(Head(queue)), Tail(queue))
    BY <1>2, SurvivesRun DEF CopyInv
  <2> QED  BY <2>1 DEF Secured
<1>3. CASE \E k \in Load : Pending(r, k)
  BY <1>3 DEF Secured, Pending
<1> QED  BY <1>1, <1>2, <1>3 DEF Secured

LEMMA PollCopy ==
  ASSUME LocalFirst, Storage, CopyInv, Polling \/ FailPoll PROVE Starting' /\ Safe'
<1> USE DEF outside, stored, range, view, requests, counters
<1>1. CASE Poll \/ AnswerPoll \/ FailPoll
  <2>1. /\ UNCHANGED <<cache, queue, loads, observations, page, reset>>
        /\ poll'.stage # "writing"
    BY <1>1 DEF Poll, AnswerPoll, FailPoll, NoPoll
  <2>2. Starting'
    BY <2>1 DEF CopyInv, Starting, Busy
  <2> QED  BY <2>1, <2>2, SafeUnchanged DEF CopyInv
<1>2. CASE ApplyPoll
  <2> DEFINE t == Transaction("put", {poll.reading}, "poll")
  <2>1. poll.reading \in Time /\ queue \in Seq(Transactions)
    BY <1>2 DEF ApplyPoll, CopyInv, PageType
  <2>2. t \in Transactions /\ t.op = "put" /\ t.times = {poll.reading}
    BY <2>1, TransactionType
  <2>3. /\ queue' = Append(queue, t) /\ observations' = observations \cup {poll.reading}
        /\ UNCHANGED <<cache, loads, page>> /\ page = "running"
    BY <1>2 DEF ApplyPoll, MayArrive
  <2> HIDE DEF t
  <2> SUFFICES ASSUME NEW r \in observations' PROVE Secured(r)'
    BY <2>3 DEF Safe, Starting
  <2>4. CASE r = poll.reading
    <3>1. Survives(r, cache, Append(queue, t))
      BY <2>1, <2>2, <2>4, SurvivesPut
    <3> QED  BY <2>3, <3>1 DEF Secured
  <2>5. CASE r \in observations /\ Survives(r, cache, queue)
    <3>1. Survives(r, cache, Append(queue, t))
      BY <2>1, <2>2, <2>5, SurvivesAppend DEF Removes
    <3> QED  BY <2>3, <3>1 DEF Secured
  <2>6. CASE \E k \in Load : Pending(r, k)
    BY <2>3, <2>6 DEF Secured, Pending
  <2> QED  BY <2>3, <2>4, <2>5, <2>6 DEF CopyInv, Safe, Secured
<1>3. CASE WritePoll
  <2>1. /\ IsNext("poll") /\ cache' = After(Head(queue)) /\ queue' = Tail(queue)
        /\ UNCHANGED <<loads, observations, page>> /\ poll.stage = "writing"
    BY <1>3 DEF WritePoll, Redraw
  <2>2. Safe'
    BY <2>1, RunCopy
  <2>3. page = "running"
    BY <2>1 DEF CopyInv, Starting, Busy
  <2> QED  BY <2>1, <2>2, <2>3 DEF Starting
<1> QED  BY <1>1, <1>2, <1>3 DEF Polling

LEMMA ResetCopy ==
  ASSUME Storage, CopyInv, Resetting \/ Reset \/ FailReset PROVE Starting' /\ Safe'
<1> USE DEF outside, stored, range, view, requests, counters
<1>1. CASE Reset \/ FailReset \/ AnswerReset
  <2>1. /\ UNCHANGED <<cache, queue, loads, observations, page, poll>> /\ page = "running"
    BY <1>1 DEF Reset, FailReset, AnswerReset, CopyInv, Starting
  <2> QED  BY <2>1, SafeUnchanged DEF CopyInv, Starting
<1>2. CASE ApplyReset
  <2>1. page' = "running" /\ observations' = {}
    BY <1>2 DEF ApplyReset, CopyInv, Starting
  <2> QED  BY <2>1 DEF Starting, Safe
<1>3. CASE WriteReset
  <2>1. /\ IsNext("reset") /\ cache' = After(Head(queue)) /\ queue' = Tail(queue)
        /\ UNCHANGED <<loads, observations, page>> /\ page = "running"
    BY <1>3 DEF WriteReset, CopyInv, Starting
  <2> QED  BY <2>1, RunCopy DEF Starting
<1> QED  BY <1>1, <1>2, <1>3 DEF Resetting

LEMMA BootCopy == ASSUME Storage, CopyInv, Boot PROVE Starting' /\ Safe'
<1> USE DEF outside, stored, range, view, requests, counters
<1>1. CASE Open
  <2>1. page' = "preference" /\ UNCHANGED <<cache, queue, loads, poll, reset, observations>>
        /\ page = "closed"
    BY <1>1 DEF Open
  <2> QED  BY <2>1, SafeUnchanged DEF CopyInv, Starting, Busy
<1>2. CASE RestorePreference
  <2>1. /\ page = "preference" /\ page' = "cache" /\ UNCHANGED <<loads, poll, reset, observations>>
        /\ queue' = Append(queue, Transaction("get", bounds', "page"))
    BY <1>2 DEF RestorePreference
  <2>2. queue = <<>> /\ observations' = {}
    BY <2>1 DEF CopyInv, Starting
  <2>3. Len(queue') = 1
    BY <2>1, <2>2
  <2> QED  BY <2>1, <2>2, <2>3 DEF CopyInv, Starting, Busy, Safe
<1>3. ASSUME NEW k \in Load, RestoreCache(k) PROVE Starting' /\ Safe'
  <2>1. /\ page = "cache" /\ page' = "running" /\ UNCHANGED cache /\ queue' = Tail(queue)
        /\ observations' \subseteq observations \cup cache
    BY <1>3 DEF RestoreCache
  <2>2. observations = {} /\ Len(queue) = 1
    BY <2>1 DEF CopyInv, Starting
  <2>3. queue' = <<>>
    <3>1. queue \in Seq(Transactions) /\ queue # <<>>
      BY <1>3 DEF CopyInv, PageType, RestoreCache, IsNext
    <3>2. Tail(queue) \in Seq(Transactions) /\ Len(Tail(queue)) = 0
      BY <2>2, <3>1, HeadTailProperties
    <3> QED  BY <2>1, <3>2, EmptySeq
  <2>4. \A r \in observations' : Survives(r, cache, <<>>)
    BY <2>1, <2>2, SurvivesNothing
  <2>5. Safe'
    BY <2>1, <2>3, <2>4 DEF Safe, Secured
  <2> QED  BY <2>1, <2>5 DEF Starting
<1> QED  BY <1>1, <1>2, <1>3 DEF Boot

LEMMA RequestCopy ==
  ASSUME CopyInv, NEW k \in Load, Resume(k) \/ Submit(k) \/ AnswerLoad(k) \/ FailLoad(k)
  PROVE  Starting' /\ Safe'
<1>1. /\ UNCHANGED <<cache, queue, poll, page, reset>> /\ observations' = observations
      /\ loads[k].stage # "writing" /\ loads'[k].stage # "writing"
      /\ \A j \in Load \ {k} : loads'[j] = loads[j]
  BY RequestQuiet DEF CopyInv, view
<1>2. Safe'
  BY <1>1, SafeStays DEF CopyInv
<1>3. Busy' => Busy
  BY <1>1 DEF Busy
<1> QED  BY <1>1, <1>2, <1>3 DEF CopyInv, Starting

LEMMA OtherCopy ==
  ASSUME CopyInv,
         \/ Record \/ ResetElsewhere \/ (\E kind \in {"rolling", "all", "custom"} : Edit(kind))
         \/ Close \/ UNCHANGED vars
  PROVE  Starting' /\ Safe'
<1> USE DEF outside, stored, range, view, requests, counters
<1>1. CASE Close
  <2>1. \A k \in Load : loads'[k].stage = "none"
    BY <1>1, NoLoadType DEF Close
  <2>2. poll'.stage = "none" /\ observations' = {} /\ queue' = <<>> /\ page' = "closed" /\ reset' = "none"
    BY <1>1 DEF Close, NoPoll
  <2> QED  BY <2>1, <2>2 DEF Starting, Busy, Safe
<1>2. CASE ~Close
  <2>1. UNCHANGED <<cache, queue, loads, observations, page, poll, reset>>
    BY <1>2 DEF Record, ResetElsewhere, Edit, vars
  <2> QED  BY <2>1, SafeUnchanged DEF CopyInv, Starting, Busy
<1> QED  BY <1>1, <1>2

LEMMA StepCopy == Storage /\ LocalFirst /\ CopyInv /\ [Next]_vars => CopyInv'
<1> SUFFICES ASSUME Storage, LocalFirst, CopyInv, [Next]_vars PROVE Starting' /\ Safe'
  BY StepPage DEF CopyInv
<1>1. CASE Loading
  BY <1>1, RequestCopy, ApplyLoadCopy, WriteLoadCopy DEF Loading
<1>2. CASE Resuming \/ (\E k \in Load : Submit(k)) \/ \E k \in Load : FailLoad(k)
  BY <1>2, RequestCopy DEF Resuming
<1> QED  BY <1>1, <1>2, PollCopy, ResetCopy, BootCopy, OtherCopy DEF Next, User, Faulty

(* Where there is an IndexedDB, and its two reads at startup are answered before *)
(* any response, everything a page shows can be shown again after it is closed, *)
(* in whatever order loads, polls and resets of any number were answered.      *)
THEOREM CopyIsComplete ==
  ASSUME Storage, LocalFirst PROVE Spec => []RecoverableAfterClose
<1>1. Init => CopyInv
  BY InitPage, InitCopy DEF CopyInv
<1>2. CopyInv /\ [Next]_vars => CopyInv'
  BY StepCopy
<1>3. CopyInv => RecoverableAfterClose
  <2> SUFFICES ASSUME CopyInv, Quiet, NEW r \in observations PROVE r \in cache
    BY DEF RecoverableAfterClose
  <2>1. Secured(r) /\ queue = <<>>
    BY DEF CopyInv, Safe, Quiet
  <2>2. ~\E k \in Load : Pending(r, k)
    BY DEF Quiet, Pending
  <2> QED  BY <2>1, <2>2, SurvivesNothing DEF Secured
<1> QED  BY <1>1, <1>2, <1>3, PTL DEF Spec

-----------------------------------------------------------------------------
(* The types of the page: nothing is shown, cached or on its way that is newer  *)
(* than the clock, and whoever writes has exactly one transaction in the queue.  *)

(* The places in the queue that one writer holds. *)
Places(q, by) == {i \in DOMAIN q : q[i].by = by}
Alone(q, by) == \E i \in DOMAIN q : Places(q, by) = {i}
Absent(q, by) == Places(q, by) = {}

Writers == Load \cup {"poll", "reset"}
Writing(by) ==
  \/ by \in Load /\ loads[by].stage = "writing"
  \/ by = "poll" /\ poll.stage = "writing"
  \/ by = "reset" /\ reset = "writing"

Turns ==
  \A by \in Writers : IF Writing(by) THEN Alone(queue, by) ELSE Absent(queue, by)

Past == 1..now

(* Nothing that is held anywhere is newer than the clock. *)
PastLoad(load) ==
  /\ load.readings \subseteq Past /\ load.readings \subseteq load.query
  /\ \A r : load.writes = << <<"put", r>> >> => r \subseteq Past
PastPuts(q) == \A i \in DOMAIN q : q[i].op = "put" => q[i].times \subseteq Past
PastPoll == poll.stage \in {"answered", "writing"} => poll.reading \in Past

Timely ==
  /\ server \subseteq Past /\ cache \subseteq Past
  /\ observations \subseteq Past /\ shown \subseteq Past
  /\ \A k \in Load : PastLoad(loads[k])
  /\ PastPoll
  /\ PastPuts(queue)

-----------------------------------------------------------------------------
(* A transaction joins the queue at its end and leaves it at its head. *)

LEMMA PlacesAppended ==
  ASSUME NEW q \in Seq(Transactions), NEW t \in Transactions, NEW by
  PROVE  /\ t.by = by => Places(Append(q, t), by) = Places(q, by) \cup {Len(q) + 1}
         /\ t.by # by => Places(Append(q, t), by) = Places(q, by)
<1> DEFINE s == Append(q, t)
<1>1. /\ DOMAIN s = 1..Len(q) + 1 /\ DOMAIN q = 1..Len(q) /\ Len(q) \in Nat
      /\ s[Len(q) + 1] = t /\ \A i \in 1..Len(q) : s[i] = q[i]
  BY AppendProperties, LenProperties
<1> HIDE DEF s
<1>2. t.by = by => Places(s, by) = Places(q, by) \cup {Len(q) + 1}
  BY <1>1 DEF Places
<1>3. t.by # by => Places(s, by) = Places(q, by)
  BY <1>1 DEF Places
<1> QED  BY <1>2, <1>3 DEF s

LEMMA PlacesLeft ==
  ASSUME NEW q \in Seq(Transactions), q # <<>>, NEW by
  PROVE  Places(Tail(q), by) = {i - 1 : i \in Places(q, by) \ {1}}
<1> DEFINE s == Tail(q)
<1>1. /\ DOMAIN s = 1..Len(q) - 1 /\ DOMAIN q = 1..Len(q) /\ Len(q) \in Nat /\ Len(q) >= 1
      /\ \A i \in 1..Len(q) - 1 : s[i] = q[i + 1]
  BY HeadTailProperties, LenProperties, EmptySeq
<1> HIDE DEF s
<1>2. ASSUME NEW i \in Places(s, by)
      PROVE  i + 1 \in Places(q, by) \ {1} /\ i = (i + 1) - 1
  BY <1>1 DEF Places
<1>3. ASSUME NEW i \in Places(q, by) \ {1} PROVE i - 1 \in Places(s, by)
  BY <1>1 DEF Places
<1>4. Places(s, by) = {i - 1 : i \in Places(q, by) \ {1}}
  BY <1>2, <1>3
<1> QED  BY <1>4 DEF s

LEMMA Joins ==
  ASSUME NEW q \in Seq(Transactions), NEW t \in Transactions
  PROVE  /\ Absent(q, t.by) => Alone(Append(q, t), t.by)
         /\ \A by : by # t.by => /\ Absent(q, by) => Absent(Append(q, t), by)
                                 /\ Alone(q, by) => Alone(Append(q, t), by)
<1>1. DOMAIN Append(q, t) = 1..Len(q) + 1 /\ DOMAIN q = 1..Len(q) /\ Len(q) \in Nat
  BY AppendProperties, LenProperties
<1>2. Absent(q, t.by) => Alone(Append(q, t), t.by)
  <2> SUFFICES ASSUME Absent(q, t.by) PROVE Alone(Append(q, t), t.by)
    OBVIOUS
  <2>1. Places(Append(q, t), t.by) = Places(q, t.by) \cup {Len(q) + 1}
    BY PlacesAppended
  <2>2. Places(Append(q, t), t.by) = {Len(q) + 1}
    BY <2>1 DEF Absent
  <2>3. Len(q) + 1 \in DOMAIN Append(q, t)
    BY <1>1
  <2> QED  BY <2>2, <2>3, Zenon DEF Alone
<1>3. ASSUME NEW by, by # t.by
      PROVE  /\ Absent(q, by) => Absent(Append(q, t), by)
             /\ Alone(q, by) => Alone(Append(q, t), by)
  <2>1. Places(Append(q, t), by) = Places(q, by)
    BY <1>3, PlacesAppended
  <2> QED  BY <1>1, <2>1 DEF Absent, Alone
<1> QED  BY <1>2, <1>3

LEMMA Leaves ==
  ASSUME NEW q \in Seq(Transactions), q # <<>>
  PROVE  /\ Alone(q, Head(q).by) => Absent(Tail(q), Head(q).by)
         /\ \A by : by # Head(q).by => /\ Absent(q, by) => Absent(Tail(q), by)
                                       /\ Alone(q, by) => Alone(Tail(q), by)
<1>1. DOMAIN Tail(q) = 1..Len(q) - 1 /\ DOMAIN q = 1..Len(q) /\ Len(q) \in Nat /\ Len(q) >= 1
      /\ Head(q) = q[1]
  BY HeadTailProperties, LenProperties, EmptySeq
<1>2. ASSUME Alone(q, Head(q).by) PROVE Absent(Tail(q), Head(q).by)
  <2>1. 1 \in Places(q, Head(q).by)
    BY <1>1 DEF Places
  <2>2. Places(q, Head(q).by) = {1}
    BY <1>2, <2>1 DEF Alone
  <2> QED  BY <2>2, PlacesLeft DEF Absent
<1>3. ASSUME NEW by, by # Head(q).by, Absent(q, by) PROVE Absent(Tail(q), by)
  BY <1>3, PlacesLeft DEF Absent
<1>4. ASSUME NEW by, by # Head(q).by, Alone(q, by) PROVE Alone(Tail(q), by)
  <2>1. PICK i \in DOMAIN q : Places(q, by) = {i}
    BY <1>4 DEF Alone
  <2>2. i # 1
    BY <1>1, <1>4, <2>1 DEF Places
  <2>3. Places(Tail(q), by) = {i - 1}
    BY <2>1, <2>2, PlacesLeft
  <2>4. i - 1 \in DOMAIN Tail(q)
    BY <1>1, <2>2
  <2> QED  BY <2>3, <2>4 DEF Alone
<1> QED  BY <1>2, <1>3, <1>4

-----------------------------------------------------------------------------
(* Turns, by what a step does to the queue and to one writer. *)

LEMMA TurnsKept ==
  ASSUME Turns, queue' = queue, \A by \in Writers : Writing(by)' <=> Writing(by)
  PROVE  Turns'
  BY DEF Turns

LEMMA TurnsTaken ==
  ASSUME PageType, Turns, NEW by \in Writers, NEW t \in Transactions, t.by = by,
         queue' = Append(queue, t), ~Writing(by), Writing(by)',
         \A other \in Writers \ {by} : Writing(other)' <=> Writing(other)
  PROVE  Turns'
<1> SUFFICES ASSUME NEW any \in Writers
             PROVE  IF Writing(any)' THEN Alone(queue', any) ELSE Absent(queue', any)
  BY DEF Turns
<1>1. queue \in Seq(Transactions)
  BY DEF PageType
<1>2. CASE any = by
  BY <1>1, <1>2, Joins DEF Turns
<1>3. CASE any # by
  BY <1>1, <1>3, Joins DEF Turns
<1> QED  BY <1>2, <1>3

LEMMA TurnsGiven ==
  ASSUME PageType, Turns, NEW by \in Writers, IsNext(by),
         queue' = Tail(queue), Writing(by), ~Writing(by)',
         \A other \in Writers \ {by} : Writing(other)' <=> Writing(other)
  PROVE  Turns'
<1> SUFFICES ASSUME NEW any \in Writers
             PROVE  IF Writing(any)' THEN Alone(queue', any) ELSE Absent(queue', any)
  BY DEF Turns
<1>1. queue \in Seq(Transactions) /\ queue # <<>> /\ Head(queue).by = by
  BY DEF PageType, IsNext
<1>2. CASE any = by
  BY <1>1, <1>2, Leaves DEF Turns
<1>3. CASE any # by
  BY <1>1, <1>3, Leaves DEF Turns
<1> QED  BY <1>2, <1>3

(* A load asks for its put when its delete has run. *)
LEMMA TurnsRenewed ==
  ASSUME PageType, Turns, NEW by \in Writers, IsNext(by), NEW t \in Transactions, t.by = by,
         queue' = Append(Tail(queue), t), Writing(by),
         \A other \in Writers : Writing(other)' <=> Writing(other)
  PROVE  Turns'
<1> SUFFICES ASSUME NEW any \in Writers
             PROVE  IF Writing(any) THEN Alone(queue', any) ELSE Absent(queue', any)
  BY DEF Turns
<1>1. queue \in Seq(Transactions) /\ queue # <<>> /\ Head(queue).by = by
  BY DEF PageType, IsNext
<1>2. Tail(queue) \in Seq(Transactions)
  BY <1>1, HeadTailProperties
<1>3. CASE any = by
  <2>1. Absent(Tail(queue), by)
    BY <1>1, Leaves DEF Turns
  <2> QED  BY <1>2, <1>3, <2>1, Joins
<1>4. CASE any # by
  <2>1. IF Writing(any) THEN Alone(Tail(queue), any) ELSE Absent(Tail(queue), any)
    BY <1>1, <1>4, Leaves DEF Turns
  <2> QED  BY <1>2, <1>4, <2>1, Joins
<1> QED  BY <1>3, <1>4

(* The page's own read is nobody's write. *)
LEMMA PageIsNoWriter == "page" \notin Writers
  BY LoadsAreNoOthers DEF Writers

LEMMA TurnsOfPage ==
  ASSUME PageType, Turns, \A by \in Writers : Writing(by)' <=> Writing(by),
         \/ \E t \in Transactions : t.by = "page" /\ queue' = Append(queue, t)
         \/ IsNext("page") /\ queue' = Tail(queue)
  PROVE  Turns'
<1> SUFFICES ASSUME NEW any \in Writers
             PROVE  IF Writing(any) THEN Alone(queue', any) ELSE Absent(queue', any)
  BY DEF Turns
<1>1. queue \in Seq(Transactions) /\ any # "page"
  BY PageIsNoWriter DEF PageType
<1>2. ASSUME NEW t \in Transactions, t.by = "page", queue' = Append(queue, t)
      PROVE  IF Writing(any) THEN Alone(queue', any) ELSE Absent(queue', any)
  BY <1>1, <1>2, Joins DEF Turns
<1>3. CASE IsNext("page") /\ queue' = Tail(queue)
  BY <1>1, <1>3, Leaves DEF Turns, IsNext
<1> QED  BY <1>2, <1>3

-----------------------------------------------------------------------------
(* Who writes, by what a step changes. *)

LEMMA NobodyElse ==
  ASSUME \A k \in Load : loads'[k].stage = "writing" <=> loads[k].stage = "writing",
         poll'.stage = "writing" <=> poll.stage = "writing",
         reset' = "writing" <=> reset = "writing"
  PROVE  \A by \in Writers : Writing(by)' <=> Writing(by)
  BY DEF Writing

LEMMA OneLoad ==
  ASSUME NEW k \in Load, \A j \in Load \ {k} : loads'[j] = loads[j], UNCHANGED <<poll, reset>>
  PROVE  /\ Writing(k) <=> loads[k].stage = "writing"
         /\ Writing(k)' <=> loads'[k].stage = "writing"
         /\ \A other \in Writers \ {k} : Writing(other)' <=> Writing(other)
<1>1. k # "poll" /\ k # "reset"
  BY LoadsAreNoOthers
<1> QED  BY <1>1 DEF Writing

LEMMA ThePoll ==
  ASSUME UNCHANGED <<loads, reset>>
  PROVE  /\ Writing("poll") <=> poll.stage = "writing"
         /\ Writing("poll")' <=> poll'.stage = "writing"
         /\ \A other \in Writers \ {"poll"} : Writing(other)' <=> Writing(other)
<1>1. "poll" \notin Load
  BY LoadsAreNoOthers
<1> QED  BY <1>1 DEF Writing

LEMMA TheReset ==
  ASSUME UNCHANGED <<loads, poll>>
  PROVE  /\ Writing("reset") <=> reset = "writing"
         /\ Writing("reset")' <=> reset' = "writing"
         /\ \A other \in Writers \ {"reset"} : Writing(other)' <=> Writing(other)
<1>1. "reset" \notin Load
  BY LoadsAreNoOthers
<1> QED  BY <1>1 DEF Writing

-----------------------------------------------------------------------------
(* Turns, action by action *)

LEMMA InitTurns == Init => Turns
<1> SUFFICES ASSUME Init, NEW by \in Writers
             PROVE  ~Writing(by) /\ Absent(queue, by)
  BY DEF Turns
<1>1. ~Writing(by)
  BY DEF Init, Writing, NoLoad, NoPoll
<1>2. Absent(queue, by)
  BY DEF Init, Absent, Places
<1> QED  BY <1>1, <1>2

LEMMA WorldTurns == ASSUME PageType, Turns, Record \/ ResetElsewhere \/ Close PROVE Turns'
<1>1. CASE Record \/ ResetElsewhere
  <2>1. UNCHANGED <<loads, poll, reset, queue>>
    BY <1>1 DEF Record, ResetElsewhere, requests
  <2> QED  BY <2>1, NobodyElse, TurnsKept
<1>2. CASE Close
  <2> SUFFICES ASSUME NEW by \in Writers PROVE ~Writing(by)' /\ Absent(queue', by)
    BY DEF Turns
  <2>1. ~Writing(by)'
    BY <1>2 DEF Close, Writing, NoLoad, NoPoll
  <2>2. queue' = <<>>
    BY <1>2 DEF Close
  <2>3. Absent(queue', by)
    BY <2>2 DEF Absent, Places
  <2> QED  BY <2>1, <2>3
<1> QED  BY <1>1, <1>2

LEMMA BootTurns == ASSUME PageType, Turns, Boot PROVE Turns'
<1>1. CASE Open
  <2>1. UNCHANGED <<loads, poll, reset, queue>>
    BY <1>1 DEF Open, requests
  <2> QED  BY <2>1, NobodyElse, TurnsKept
<1>2. CASE RestorePreference
  <2>1. UNCHANGED <<loads, poll, reset>> /\ bounds' \in SUBSET Time
    BY <1>2, SelectType DEF RestorePreference, requests, Select, PageType, Kinds
  <2> DEFINE t == Transaction("get", bounds', "page")
  <2>2. t \in Transactions /\ t.by = "page" /\ queue' = Append(queue, t)
    BY <1>2, <2>1, TransactionType DEF RestorePreference
  <2> HIDE DEF t
  <2> QED  BY <2>1, <2>2, NobodyElse, TurnsOfPage
<1>3. ASSUME NEW k \in Load, RestoreCache(k) PROVE Turns'
  <2>1. /\ loads[k].stage = "none" /\ loads'[k].stage = "sent"
        /\ \A j \in Load \ {k} : loads'[j] = loads[j]
    BY <1>3, SendType DEF RestoreCache
  <2>2. UNCHANGED <<poll, reset>> /\ IsNext("page") /\ queue' = Tail(queue)
    BY <1>3 DEF RestoreCache
  <2>3. \A by \in Writers : Writing(by)' <=> Writing(by)
    BY <2>1, <2>2, NobodyElse
  <2> QED  BY <2>2, <2>3, TurnsOfPage
<1> QED  BY <1>1, <1>2, <1>3 DEF Boot

LEMMA RequestTurns ==
  ASSUME PageType, Turns, NEW k \in Load,
         Resume(k) \/ Submit(k) \/ AnswerLoad(k) \/ FailLoad(k)
  PROVE  Turns'
<1>1. /\ loads[k].stage # "writing" /\ loads'[k].stage # "writing"
      /\ \A j \in Load \ {k} : loads'[j] = loads[j]
  <2>1. CASE Resume(k) \/ Submit(k)
    <3>1. loads[k].stage = "none" /\ loads'[k].stage = "sent"
          /\ \A j \in Load \ {k} : loads'[j] = loads[j]
      BY <2>1, SendType DEF Resume, Submit
    <3> QED  BY <3>1
  <2>2. CASE AnswerLoad(k)
    BY <2>2, NoLoadType DEF AnswerLoad, PageType, LoadType
  <2>3. CASE FailLoad(k)
    BY <2>3, NoLoadType DEF FailLoad, PageType
  <2> QED  BY <2>1, <2>2, <2>3
<1>2. UNCHANGED <<poll, reset, queue>>
  BY DEF Resume, Submit, AnswerLoad, FailLoad
<1> QED  BY <1>1, <1>2, NobodyElse, TurnsKept

LEMMA ApplyLoadTurns == ASSUME PageType, Turns, NEW k \in Load, ApplyLoad(k) PROVE Turns'
<1>1. loads[k].stage = "answered" /\ UNCHANGED <<poll, reset>>
  BY ApplyLoadIs
<1>2. k \in Writers
  BY DEF Writers
<1>3. CASE UNCHANGED <<queue, range>> /\ Finish(k, observations')
  <2>1. loads'[k] = NoLoad /\ \A j \in Load \ {k} : loads'[j] = loads[j]
    BY <1>3 DEF Finish, PageType
  <2> QED  BY <1>1, <1>3, <2>1, NoLoadType, NobodyElse, TurnsKept
<1>4. ASSUME NEW t \in Transactions, NEW w \in Outstanding,
             queue' = Append(queue, t), t.by = k,
             loads' = [loads EXCEPT ![k] = [loads[k] EXCEPT !.stage = "writing", !.writes = w]]
      PROVE  Turns'
  <2>1. loads'[k].stage = "writing" /\ \A j \in Load \ {k} : loads'[j] = loads[j]
    BY <1>4 DEF PageType, LoadType
  <2>2. /\ ~Writing(k) /\ Writing(k)'
        /\ \A other \in Writers \ {k} : Writing(other)' <=> Writing(other)
    BY <1>1, <2>1, OneLoad
  <2> QED  BY <1>2, <1>4, <2>2, TurnsTaken
<1>5. CASE \E t \in Transactions, w \in Outstanding :
             /\ queue' = Append(queue, t) /\ t.by = k
             /\ loads' = [loads EXCEPT ![k] = [loads[k] EXCEPT !.stage = "writing", !.writes = w]]
  BY <1>4, <1>5
<1> DEFINE readings == loads[k].readings
           removed == Removed(readings)
<1>6. \/ UNCHANGED <<queue, range>> /\ Finish(k, observations')
      \/ \E t \in Transactions, w \in Outstanding :
           /\ queue' = Append(queue, t) /\ t.by = k
           /\ loads' = [loads EXCEPT ![k] = [loads[k] EXCEPT !.stage = "writing", !.writes = w]]
           /\ \/ removed = {} /\ t.op = "put" /\ t.times = readings /\ w = <<>>
              \/ t.op = "delete" /\ t.times = removed
                 /\ \/ readings = {} /\ w = <<>>
                    \/ w = << <<"put", readings>> >>
  BY ApplyLoadIs
<1> HIDE DEF readings, removed
<1> QED  BY <1>3, <1>5, <1>6

LEMMA WriteLoadTurns == ASSUME PageType, Storage, Turns, NEW k \in Load, WriteLoad(k) PROVE Turns'
<1>1. loads[k].stage = "writing" /\ IsNext(k) /\ UNCHANGED <<poll, reset>>
  BY WriteLoadIs
<1>2. k \in Writers
  BY DEF Writers
<1>3. CASE queue' = Tail(queue) /\ Finish(k, observations)
  <2>1. loads'[k].stage = "none" /\ \A j \in Load \ {k} : loads'[j] = loads[j]
    BY <1>3, NoLoadType DEF Finish, PageType
  <2>2. /\ Writing(k) /\ ~Writing(k)'
        /\ \A other \in Writers \ {k} : Writing(other)' <=> Writing(other)
    BY <1>1, <2>1, OneLoad
  <2> QED  BY <1>1, <1>2, <1>3, <2>2, TurnsGiven
<1>4. ASSUME NEW t \in Transactions, t.by = k, queue' = Append(Tail(queue), t),
             loads' = [loads EXCEPT ![k] = [loads[k] EXCEPT !.writes = <<>>]]
      PROVE  Turns'
  <2>1. loads'[k].stage = "writing" /\ \A j \in Load \ {k} : loads'[j] = loads[j]
    BY <1>1, <1>4 DEF PageType, LoadType
  <2>2. Writing(k) /\ \A other \in Writers : Writing(other)' <=> Writing(other)
    BY <1>1, <2>1, OneLoad
  <2> QED  BY <1>1, <1>2, <1>4, <2>2, TurnsRenewed
<1> QED  BY <1>3, <1>4, WriteLoadIs

LEMMA PollTurns == ASSUME PageType, Turns, Polling \/ FailPoll PROVE Turns'
<1>1. UNCHANGED <<loads, reset>>
  BY DEF Polling, Poll, AnswerPoll, ApplyPoll, WritePoll, FailPoll
<1>2. CASE Poll \/ AnswerPoll \/ FailPoll
  <2>1. poll.stage # "writing" /\ poll'.stage # "writing" /\ UNCHANGED queue
    BY <1>2 DEF Poll, AnswerPoll, FailPoll, NoPoll
  <2> QED  BY <1>1, <2>1, NobodyElse, TurnsKept
<1>3. CASE ApplyPoll
  <2> DEFINE t == Transaction("put", {poll.reading}, "poll")
  <2>1. t \in Transactions /\ t.by = "poll"
    BY <1>3, TransactionType DEF ApplyPoll, PageType
  <2>2. queue' = Append(queue, t) /\ poll.stage = "answered" /\ poll'.stage = "writing"
    BY <1>3 DEF ApplyPoll, PageType
  <2> HIDE DEF t
  <2>3. /\ ~Writing("poll") /\ Writing("poll")'
        /\ \A other \in Writers \ {"poll"} : Writing(other)' <=> Writing(other)
    BY <1>1, <2>2, ThePoll
  <2> QED  BY <2>1, <2>2, <2>3, TurnsTaken DEF Writers
<1>4. CASE WritePoll
  <2>1. /\ poll.stage = "writing" /\ poll'.stage = "none" /\ IsNext("poll")
        /\ queue' = Tail(queue)
    BY <1>4 DEF WritePoll, NoPoll
  <2>2. /\ Writing("poll") /\ ~Writing("poll")'
        /\ \A other \in Writers \ {"poll"} : Writing(other)' <=> Writing(other)
    BY <1>1, <2>1, ThePoll
  <2> QED  BY <2>1, <2>2, TurnsGiven DEF Writers
<1> QED  BY <1>2, <1>3, <1>4 DEF Polling

LEMMA ResetTurns == ASSUME PageType, Turns, Resetting \/ Reset \/ FailReset PROVE Turns'
<1>1. UNCHANGED <<loads, poll>>
  BY DEF Resetting, Reset, AnswerReset, ApplyReset, WriteReset, FailReset
<1>2. CASE Reset \/ AnswerReset \/ FailReset
  <2>1. reset # "writing" /\ reset' # "writing" /\ UNCHANGED queue
    BY <1>2 DEF Reset, AnswerReset, FailReset
  <2> QED  BY <1>1, <2>1, NobodyElse, TurnsKept
<1>3. CASE ApplyReset
  <2> DEFINE t == Transaction("clear", {}, "reset")
  <2>1. t \in Transactions /\ t.by = "reset"
    BY TransactionType
  <2>2. queue' = Append(queue, t) /\ reset = "answered" /\ reset' = "writing"
    BY <1>3 DEF ApplyReset
  <2> HIDE DEF t
  <2>3. /\ ~Writing("reset") /\ Writing("reset")'
        /\ \A other \in Writers \ {"reset"} : Writing(other)' <=> Writing(other)
    BY <1>1, <2>2, TheReset
  <2> QED  BY <2>1, <2>2, <2>3, TurnsTaken DEF Writers
<1>4. CASE WriteReset
  <2>1. reset = "writing" /\ reset' = "none" /\ IsNext("reset") /\ queue' = Tail(queue)
    BY <1>4 DEF WriteReset
  <2>2. /\ Writing("reset") /\ ~Writing("reset")'
        /\ \A other \in Writers \ {"reset"} : Writing(other)' <=> Writing(other)
    BY <1>1, <2>1, TheReset
  <2> QED  BY <2>1, <2>2, TurnsGiven DEF Writers
<1> QED  BY <1>2, <1>3, <1>4 DEF Resetting

LEMMA StepTurns == ASSUME Storage, PageType, Turns, [Next]_vars PROVE Turns'
<1>1. CASE UNCHANGED vars
  <2>1. UNCHANGED <<loads, poll, reset, queue>>
    BY <1>1 DEF vars, requests
  <2> QED  BY <2>1, NobodyElse, TurnsKept
<1>2. CASE User \/ Resuming \/ Faulty
  <2>1. ASSUME NEW kind \in Kinds, Edit(kind) PROVE Turns'
    <3>1. UNCHANGED <<loads, poll, reset, queue>>
      BY <2>1 DEF Edit, requests
    <3> QED  BY <3>1, NobodyElse, TurnsKept
  <2> QED  BY <1>2, <2>1, RequestTurns, ResetTurns, PollTurns, WorldTurns
           DEF User, Resuming, Faulty, Kinds
<1>3. CASE Loading
  BY <1>3, RequestTurns, ApplyLoadTurns, WriteLoadTurns DEF Loading
<1> QED  BY <1>1, <1>2, <1>3, WorldTurns, BootTurns, PollTurns, ResetTurns DEF Next

-----------------------------------------------------------------------------
(* Nothing newer than the clock, action by action *)

LEMMA NoLoadPast == PastLoad(NoLoad)
  BY DEF PastLoad, NoLoad

LEMMA PutsAppended ==
  ASSUME NEW q \in Seq(Transactions), NEW t \in Transactions, PastPuts(q),
         t.op = "put" => t.times \subseteq Past
  PROVE  PastPuts(Append(q, t))
  BY AppendProperties, LenProperties DEF PastPuts

LEMMA PutsLeft ==
  ASSUME NEW q \in Seq(Transactions), q # <<>>, PastPuts(q)
  PROVE  PastPuts(Tail(q)) /\ (Head(q).op = "put" => Head(q).times \subseteq Past)
<1>1. /\ DOMAIN Tail(q) = 1..Len(q) - 1 /\ DOMAIN q = 1..Len(q) /\ Len(q) \in Nat /\ Len(q) >= 1
      /\ \A i \in 1..Len(q) - 1 : Tail(q)[i] = q[i + 1]
      /\ Head(q) = q[1]
  BY HeadTailProperties, LenProperties, EmptySeq
<1> QED  BY <1>1 DEF PastPuts

LEMMA RunPast ==
  ASSUME PageType, Timely, NEW by, IsNext(by), by # "page"
  PROVE  After(Head(queue)) \subseteq Past /\ PastPuts(Tail(queue))
<1>1. /\ queue \in Seq(Transactions) /\ queue # <<>>
      /\ Head(queue) \in Transactions /\ Head(queue).op # "get"
  BY NextTransaction DEF PageType
<1>2. PastPuts(Tail(queue)) /\ (Head(queue).op = "put" => Head(queue).times \subseteq Past)
  BY <1>1, PutsLeft DEF Timely
<1>3. Head(queue).op \in {"put", "delete", "clear"}
  BY <1>1 DEF Transactions
<1> QED  BY <1>2, <1>3 DEF After, Timely

LEMMA InitTimely == Init => Timely
<1> SUFFICES ASSUME Init PROVE Timely
  OBVIOUS
<1>1. \A k \in Load : PastLoad(loads[k])
  BY NoLoadPast DEF Init
<1>2. PastPuts(queue)
  BY DEF Init, PastPuts
<1> QED  BY <1>1, <1>2 DEF Init, Timely, PastPoll, NoPoll

LEMMA WorldTimely == ASSUME PageType, Timely, Record \/ ResetElsewhere \/ Close PROVE Timely'
<1>1. CASE Record
  <2>1. Past \subseteq Past' /\ now + 1 \in Past'
    BY <1>1, Widths DEF Record, PageType, Past
  <2>2. \A k \in Load : PastLoad(loads[k])'
    BY <1>1, <2>1 DEF Timely, PastLoad, Record, requests
  <2>3. PastPuts(queue)'
    BY <1>1, <2>1 DEF Timely, PastPuts, Record
  <2> QED  BY <1>1, <2>1, <2>2, <2>3 DEF Timely, PastPoll, Record, stored, view, requests
<1>2. CASE ResetElsewhere
  BY <1>2 DEF Timely, PastPoll, PastLoad, PastPuts, Past, ResetElsewhere, stored, view, requests
<1>3. CASE Close
  <2>1. Past' = Past
    BY <1>3 DEF Past, Close, outside
  <2>2. \A k \in Load : PastLoad(loads[k])'
    BY <1>3, <2>1, NoLoadPast DEF Close, PastLoad, NoLoad
  <2>3. PastPuts(queue)'
    BY <1>3 DEF PastPuts, Close
  <2> QED  BY <1>3, <2>1, <2>2, <2>3 DEF Timely, PastPoll, NoPoll, Close, outside, stored
<1> QED  BY <1>1, <1>2, <1>3

(* What most steps leave alone. *)
LEMMA TimelyKept ==
  ASSUME Timely, UNCHANGED now, server' \subseteq Past, cache' \subseteq Past,
         observations' \subseteq Past, shown' \subseteq Past,
         \A k \in Load : PastLoad(loads'[k]), PastPoll', PastPuts(queue')
  PROVE  Timely'
<1>1. Past' = Past
  BY DEF Past
<1> QED  BY <1>1 DEF Timely, PastLoad, PastPuts

LEMMA BootTimely == ASSUME PageType, Timely, Boot PROVE Timely'
<1> USE DEF outside, stored, view, requests
<1>1. CASE Open
  BY <1>1, TimelyKept DEF Open, Timely, PastPoll, Past
<1>2. CASE RestorePreference
  <2>1. bounds' \in SUBSET Time
    BY <1>2, SelectType DEF RestorePreference, Select, PageType, Kinds
  <2> DEFINE t == Transaction("get", bounds', "page")
  <2>2. t \in Transactions /\ t.op = "get" /\ queue' = Append(queue, t)
    BY <1>2, <2>1, TransactionType DEF RestorePreference
  <2> HIDE DEF t
  <2>3. PastPuts(queue')
    BY <2>2, PutsAppended DEF PageType, Timely
  <2> QED  BY <1>2, <2>3, TimelyKept DEF RestorePreference, Timely, PastPoll, Past
<1>3. ASSUME NEW k \in Load, RestoreCache(k) PROVE Timely'
  <2>1. \A j \in Load \ {k} : loads'[j] = loads[j]
    BY <1>3, SendType DEF RestoreCache
  <2>2. PastLoad(loads'[k])
    BY <1>3 DEF RestoreCache, Send, PageType, PastLoad, NoLoad
  <2>3. PastPuts(queue')
    BY <1>3, PutsLeft DEF RestoreCache, IsNext, PageType, Timely
  <2>4. observations' \subseteq Past /\ shown' \subseteq Past
    BY <1>3 DEF RestoreCache, Timely
  <2>5. \A j \in Load : PastLoad(loads'[j])
    BY <2>1, <2>2 DEF Timely
  <2> QED  BY <1>3, <2>3, <2>4, <2>5, TimelyKept DEF RestoreCache, Timely, PastPoll, Past
<1> QED  BY <1>1, <1>2, <1>3 DEF Boot

LEMMA EditTimely == ASSUME Timely, NEW kind, Edit(kind) PROVE Timely'
  BY TimelyKept DEF Edit, Timely, PastPoll, Past, outside, stored, view, requests

LEMMA RequestTimely ==
  ASSUME PageType, Timely, NEW k \in Load,
         Resume(k) \/ Submit(k) \/ AnswerLoad(k) \/ FailLoad(k)
  PROVE  Timely'
<1>1. \A j \in Load \ {k} : loads'[j] = loads[j]
  <2>1. CASE Resume(k) \/ Submit(k)
    BY <2>1, SendType DEF Resume, Submit
  <2>2. CASE AnswerLoad(k)
    BY <2>2 DEF AnswerLoad, PageType
  <2>3. CASE FailLoad(k)
    BY <2>3 DEF FailLoad, PageType
  <2> QED  BY <2>1, <2>2, <2>3
<1>2. PastLoad(loads'[k])
  <2>1. CASE Resume(k) \/ Submit(k)
    <3>1. PICK b \in BOOLEAN : Send(k, b)
      BY <2>1 DEF Resume, Submit
    <3>2. loads'[k] = [NoLoad EXCEPT !.stage = "sent", !.submitted = b, !.query = bounds']
      BY <3>1 DEF Send, PageType
    <3> QED  BY <3>2 DEF PastLoad, NoLoad
  <2>2. CASE AnswerLoad(k)
    <3>1. CASE loads[k].query \cap Retained = {}
      BY <2>2, <3>1, NoLoadPast DEF AnswerLoad, PageType
    <3>2. CASE loads[k].query \cap Retained # {}
      <4>1. loads'[k] = [loads[k] EXCEPT !.stage = "answered", !.readings = Answer(loads[k].query)]
        BY <2>2, <3>2 DEF AnswerLoad, PageType
      <4>2. Answer(loads[k].query) \subseteq Past /\ Answer(loads[k].query) \subseteq loads[k].query
        BY DEF Answer, Timely
      <4> QED  BY <4>1, <4>2 DEF Timely, PastLoad, PageType, LoadType
    <3> QED  BY <3>1, <3>2
  <2>3. CASE FailLoad(k)
    BY <2>3, NoLoadPast DEF FailLoad, PageType
  <2> QED  BY <2>1, <2>2, <2>3
<1>3. \A j \in Load : PastLoad(loads'[j])
  BY <1>1, <1>2 DEF Timely
<1>4. UNCHANGED <<now, server, cache, observations, shown, poll, queue>>
  BY DEF Resume, Submit, AnswerLoad, FailLoad, outside, stored, view
<1> QED  BY <1>3, <1>4, TimelyKept DEF Timely, PastPoll, Past

LEMMA ApplyLoadTimely == ASSUME PageType, Timely, NEW k \in Load, ApplyLoad(k) PROVE Timely'
<1> DEFINE readings == loads[k].readings
           removed == Removed(readings)
<1>1. /\ observations' = (observations \ removed) \cup readings
      /\ UNCHANGED <<cache, poll, now, server>>
      /\ readings \in SUBSET Time
  BY ApplyLoadIs
<1>2. readings \subseteq Past /\ PastLoad(loads[k])
  BY DEF Timely, PastLoad
<1>3. observations' \subseteq Past
  BY <1>1, <1>2 DEF Timely
<1>4. PastPoll'
  BY <1>1 DEF Timely, PastPoll, Past
<1>5. CASE UNCHANGED <<queue, range>> /\ Finish(k, observations')
  <2>1. /\ loads'[k] = NoLoad /\ \A j \in Load \ {k} : loads'[j] = loads[j]
        /\ shown' \subseteq observations'
    BY <1>5 DEF Finish, Redraw, PageType
  <2>2. \A j \in Load : PastLoad(loads'[j])
    BY <2>1, NoLoadPast DEF Timely
  <2> QED  BY <1>1, <1>3, <1>4, <1>5, <2>1, <2>2, TimelyKept DEF Timely
<1>6. ASSUME NEW t \in Transactions, NEW w \in Outstanding, UNCHANGED shown,
             queue' = Append(queue, t),
             loads' = [loads EXCEPT ![k] = [loads[k] EXCEPT !.stage = "writing", !.writes = w]],
             t.op = "put" => t.times = readings,
             w = <<>> \/ w = << <<"put", readings>> >>
      PROVE  Timely'
  <2>1. PastPuts(queue')
    BY <1>2, <1>6, PutsAppended DEF PageType, Timely
  <2>2. /\ \A j \in Load \ {k} : loads'[j] = loads[j]
        /\ loads'[k] = [loads[k] EXCEPT !.stage = "writing", !.writes = w]
    BY <1>6 DEF PageType
  <2>3. \A r : w = << <<"put", r>> >> => r \subseteq Past
    BY <1>2, <1>6
  <2>4. PastLoad(loads'[k])
    BY <1>2, <2>2, <2>3 DEF PastLoad, PageType, LoadType
  <2>5. \A j \in Load : PastLoad(loads'[j])
    BY <2>2, <2>4 DEF Timely
  <2> QED  BY <1>1, <1>3, <1>4, <1>6, <2>1, <2>5, TimelyKept DEF Timely
<1>7. \/ UNCHANGED <<queue, range>> /\ Finish(k, observations')
      \/ /\ UNCHANGED <<shown, label, range, preference>>
         /\ \E t \in Transactions, w \in Outstanding :
              /\ queue' = Append(queue, t) /\ t.by = k
              /\ loads' = [loads EXCEPT ![k] = [loads[k] EXCEPT !.stage = "writing", !.writes = w]]
              /\ \/ removed = {} /\ t.op = "put" /\ t.times = readings /\ w = <<>>
                 \/ t.op = "delete" /\ t.times = removed
                    /\ \/ readings = {} /\ w = <<>>
                       \/ w = << <<"put", readings>> >>
  BY ApplyLoadIs
<1> HIDE DEF readings, removed
<1> QED  BY <1>5, <1>6, <1>7

LEMMA WriteLoadTimely == ASSUME PageType, Storage, Timely, NEW k \in Load, WriteLoad(k) PROVE Timely'
<1>1. /\ IsNext(k) /\ cache' = After(Head(queue)) /\ UNCHANGED <<poll, now, server, range>>
  BY WriteLoadIs
<1>2. k # "page"
  BY LoadsAreNoOthers
<1>3. cache' \subseteq Past /\ PastPuts(Tail(queue)) /\ Tail(queue) \in Seq(Transactions)
  BY <1>1, <1>2, RunPast, NextTransaction
<1>4. PastPoll'
  BY <1>1 DEF Timely, PastPoll, Past
<1>5. CASE queue' = Tail(queue) /\ Finish(k, observations)
  <2>1. /\ loads'[k] = NoLoad /\ \A j \in Load \ {k} : loads'[j] = loads[j]
        /\ observations' = observations /\ shown' \subseteq observations
    BY <1>5 DEF Finish, Redraw, PageType
  <2>2. \A j \in Load : PastLoad(loads'[j])
    BY <2>1, NoLoadPast DEF Timely
  <2>3. shown' \subseteq Past /\ observations' \subseteq Past /\ server' \subseteq Past
    BY <1>1, <2>1 DEF Timely
  <2> QED  BY <1>1, <1>3, <1>4, <1>5, <2>2, <2>3, TimelyKept
<1>6. ASSUME NEW r \in SUBSET Time, NEW t \in Transactions,
             loads[k].writes = << <<"put", r>> >>,
             t.op = "put" /\ t.times = r /\ t.by = k,
             queue' = Append(Tail(queue), t),
             loads' = [loads EXCEPT ![k] = [loads[k] EXCEPT !.writes = <<>>]],
             UNCHANGED <<view, preference>>
      PROVE  Timely'
  <2>1. r \subseteq Past /\ PastLoad(loads[k])
    BY <1>6 DEF Timely, PastLoad
  <2>2. PastPuts(queue')
    BY <1>3, <1>6, <2>1, PutsAppended
  <2>3. /\ \A j \in Load \ {k} : loads'[j] = loads[j]
        /\ loads'[k] = [loads[k] EXCEPT !.writes = <<>>]
    BY <1>6 DEF PageType
  <2>4. PastLoad(loads'[k])
    BY <2>1, <2>3 DEF PastLoad, PageType, LoadType
  <2>5. \A j \in Load : PastLoad(loads'[j])
    BY <2>3, <2>4 DEF Timely
  <2> QED  BY <1>1, <1>3, <1>4, <1>6, <2>2, <2>5, TimelyKept DEF Timely, view
<1> QED  BY <1>5, <1>6, WriteLoadIs

LEMMA PollTimely == ASSUME PageType, Timely, Polling \/ FailPoll PROVE Timely'
<1> USE DEF outside, stored, range, view, requests, counters
<1>1. CASE Poll \/ FailPoll
  <2>1. PastPoll'
    BY <1>1 DEF Poll, FailPoll, NoPoll, PastPoll
  <2> QED  BY <1>1, <2>1, TimelyKept DEF Poll, FailPoll, Timely
<1>2. CASE AnswerPoll
  <2>1. server # {} => Max(server) \in server
    BY Widths, MaxOfTimes DEF PageType, Time
  <2>2. Past' = Past
    BY <1>2 DEF AnswerPoll, Past
  <2>3. PastPoll'
    BY <1>2, <2>1, <2>2 DEF AnswerPoll, NoPoll, PastPoll, Timely
  <2> QED  BY <1>2, <2>3, TimelyKept DEF AnswerPoll, Timely
<1>3. CASE ApplyPoll
  <2>1. poll.reading \in Time /\ poll.reading \in Past
    BY <1>3 DEF ApplyPoll, PageType, Timely, PastPoll
  <2> DEFINE t == Transaction("put", {poll.reading}, "poll")
  <2>2. t \in Transactions /\ t.times = {poll.reading} /\ queue' = Append(queue, t)
    BY <1>3, <2>1, TransactionType DEF ApplyPoll
  <2> HIDE DEF t
  <2>3. PastPuts(queue')
    BY <2>1, <2>2, PutsAppended DEF PageType, Timely
  <2>4. PastPoll'
    BY <1>3, <2>1 DEF ApplyPoll, PastPoll, PageType, Past
  <2> QED  BY <1>3, <2>1, <2>3, <2>4, TimelyKept DEF ApplyPoll, Timely
<1>4. CASE WritePoll
  <2>1. After(Head(queue)) \subseteq Past /\ PastPuts(Tail(queue))
    BY <1>4, RunPast DEF WritePoll
  <2>2. cache' \subseteq Past /\ PastPuts(queue')
    BY <1>4, <2>1 DEF WritePoll, Timely
  <2>3. PastPoll'
    BY <1>4 DEF WritePoll, NoPoll, PastPoll
  <2> QED  BY <1>4, <2>2, <2>3, TimelyKept DEF WritePoll, Redraw, Timely
<1> QED  BY <1>1, <1>2, <1>3, <1>4 DEF Polling

LEMMA ResetTimely == ASSUME PageType, Timely, Resetting \/ Reset \/ FailReset PROVE Timely'
<1> USE DEF outside, stored, range, view, requests, counters
<1>1. CASE Reset \/ FailReset
  BY <1>1, TimelyKept DEF Reset, FailReset, Timely, PastPoll, Past
<1>2. CASE AnswerReset
  BY <1>2, TimelyKept DEF AnswerReset, Timely, PastPoll, Past
<1>3. CASE ApplyReset
  <2> DEFINE t == Transaction("clear", {}, "reset")
  <2>1. t \in Transactions /\ t.op = "clear" /\ queue' = Append(queue, t)
    BY <1>3, TransactionType DEF ApplyReset
  <2> HIDE DEF t
  <2>2. PastPuts(queue')
    BY <2>1, PutsAppended DEF PageType, Timely
  <2> QED  BY <1>3, <2>2, TimelyKept DEF ApplyReset, Timely, PastPoll, Past
<1>4. CASE WriteReset
  <2>1. After(Head(queue)) \subseteq Past /\ PastPuts(Tail(queue))
    BY <1>4, RunPast DEF WriteReset
  <2>2. cache' \subseteq Past /\ PastPuts(queue')
    BY <1>4, <2>1 DEF WriteReset, Timely
  <2> QED  BY <1>4, <2>2, TimelyKept DEF WriteReset, Timely, PastPoll, Past
<1> QED  BY <1>1, <1>2, <1>3, <1>4 DEF Resetting

LEMMA StepTimely == ASSUME Storage, PageType, Timely, [Next]_vars PROVE Timely'
<1>1. CASE UNCHANGED vars
  BY <1>1, TimelyKept DEF vars, outside, stored, view, requests, Timely, PastPoll, Past
<1>2. CASE User \/ Resuming \/ Faulty
  BY <1>2, EditTimely, RequestTimely, ResetTimely, PollTimely, WorldTimely
     DEF User, Resuming, Faulty
<1>3. CASE Loading
  BY <1>3, RequestTimely, ApplyLoadTimely, WriteLoadTimely DEF Loading
<1> QED  BY <1>1, <1>2, <1>3, WorldTimely, BootTimely, PollTimely, ResetTimely DEF Next

-----------------------------------------------------------------------------
LEMMA CountAlone ==
  ASSUME PageType, Turns, NEW by \in Writers
  PROVE  Writing(by) <=> Cardinality({i \in DOMAIN queue : queue[i].by = by}) = 1
<1>1. ASSUME Writing(by) PROVE Cardinality(Places(queue, by)) = 1
  <2>1. PICK i \in DOMAIN queue : Places(queue, by) = {i}
    BY <1>1 DEF Turns, Alone
  <2> QED  BY <2>1, FS_Singleton
<1>2. ASSUME ~Writing(by) PROVE Cardinality(Places(queue, by)) = 0
  BY <1>2, FS_EmptySet DEF Turns, Absent
<1> QED  BY <1>1, <1>2 DEF Places

(* The page's data have their types, nothing is newer than the clock, an answer *)
(* stays in the range it was asked for, and each writer has exactly one         *)
(* transaction in the queue, in whatever order loads, polls, resets and         *)
(* failures come.                                                                *)
THEOREM PageTypes == ASSUME Storage PROVE Spec => []TypeOK
<1> DEFINE Inv == PageType /\ Turns /\ Timely
<1>1. Init => Inv
  BY InitPage, InitTurns, InitTimely
<1>2. Inv /\ [Next]_vars => Inv'
  BY StepPage, StepTurns, StepTimely
<1>3. Inv => TypeOK
  <2> SUFFICES ASSUME PageType, Turns, Timely PROVE TypeOK
    OBVIOUS
  <2>1. \A k \in Load : /\ loads[k].stage \in {"none", "sent", "answered", "writing"}
                       /\ loads[k].readings \subseteq loads[k].query
    BY DEF PageType, LoadType, Timely, PastLoad
  <2>2. \A k \in Load :
          loads[k].stage = "writing" <=> Cardinality({i \in DOMAIN queue : queue[i].by = k}) = 1
    <3> TAKE k \in Load
    <3>1. k \in Writers /\ (Writing(k) <=> loads[k].stage = "writing")
      BY LoadsAreNoOthers DEF Writers, Writing
    <3> QED  BY <3>1, CountAlone
  <2>3. /\ poll.stage = "writing" <=> Cardinality({i \in DOMAIN queue : queue[i].by = "poll"}) = 1
        /\ reset = "writing" <=> Cardinality({i \in DOMAIN queue : queue[i].by = "reset"}) = 1
    <3>1. /\ "poll" \in Writers /\ (Writing("poll") <=> poll.stage = "writing")
          /\ "reset" \in Writers /\ (Writing("reset") <=> reset = "writing")
      BY LoadsAreNoOthers DEF Writers, Writing
    <3> QED  BY <3>1, CountAlone
  <2> QED  BY <2>1, <2>2, <2>3 DEF TypeOK, PageType, Timely, Past, Kinds
<1> QED  BY <1>1, <1>2, <1>3, PTL DEF Spec
==============================================================================
