--------------------------- MODULE DashboardCache ---------------------------
(***************************************************************************)
(* One dashboard page (dashboard.js) with its IndexedDB copy (data-cache.js) *)
(* and the history and latest-reading endpoints it asks.                     *)
(*                                                                          *)
(* Every await of the page is a point where its other handlers run: a load   *)
(* of the selected range, a poll and a reset are each cut into the steps     *)
(* between two awaits.  Responses come back in any order.  Transactions of    *)
(* IndexedDB over the one object store run in the order they were asked for.  *)
(*                                                                          *)
(* A reading is its time, 1..MaxTime, one per tick of the clock.  A range is  *)
(* the set of times it selects.                                              *)
(***************************************************************************)
EXTENDS Integers, Sequences, FiniteSetsExt

CONSTANTS
  Load,         \* the loads of history that may be in flight at once
  MaxTime,      \* bound: the last reading
  Window,       \* the width of a rolling range
  Retention,    \* how far back the history endpoint goes
  Custom,       \* the range a user may type in
  Storage,      \* is IndexedDB available?
  LocalFirst,   \* do the two reads of IndexedDB at startup precede any response?
  MaxFaults,    \* bound: failed requests and closed tabs
  MaxEdits      \* bound: changes of the range

Time == 1..MaxTime

ASSUME Widths == MaxTime \in Nat /\ Window \in Nat \ {0} /\ Retention \in Nat /\ Window <= Retention
ASSUME LoadsAreNoOthers == Load \cap {"page", "poll", "reset"} = {}
ASSUME CustomIsARange == Custom \subseteq Time
ASSUME SwitchAndBounds == Storage \in BOOLEAN /\ LocalFirst \in BOOLEAN /\ MaxFaults \in Nat /\ MaxEdits \in Nat

VARIABLES
  now, server,            \* the clock, the readings the server holds
  cache, preference,      \* what IndexedDB holds
  page,                   \* "closed", "preference", "cache" or "running"
  mode, bounds,           \* the selected range: its kind, the times it selects
  observations,           \* readings in memory
  shown, label,           \* readings on the graphs, and the range named above them
  loads, poll, reset,     \* the requests in flight
  queue,                  \* transactions of IndexedDB not yet run
  faults, edits           \* how many there were

outside == <<now, server>>
stored == <<cache, preference>>
view == <<observations, shown, label>>
range == <<mode, bounds>>
requests == <<loads, poll, reset>>
counters == <<faults, edits>>
vars == <<outside, stored, page, range, view, requests, queue, counters>>

(* The times a kind of range selects when the clock shows now. *)
Bounds(kind) ==
  CASE kind = "rolling" -> {t \in Time : t > now - Window}
    [] kind = "all"     -> Time
    [] kind = "custom"  -> Custom

Retained == {t \in Time : t > now - Retention}

(* The history endpoint's answer: never beyond the retention. *)
Answer(times) == server \cap times \cap Retained

NoLoad == [stage |-> "none", submitted |-> FALSE, query |-> {}, readings |-> {}, writes |-> <<>>]
NoPoll == [stage |-> "none", reading |-> 0]

Init ==
  /\ now = 0 /\ server = {}
  /\ cache = {} /\ preference = "rolling"
  /\ page = "closed" /\ mode = "rolling" /\ bounds = Time
  /\ observations = {} /\ shown = {} /\ label = {}
  /\ loads = [k \in Load |-> NoLoad] /\ poll = NoPoll /\ reset = "none"
  /\ queue = <<>> /\ faults = 0 /\ edits = 0

-----------------------------------------------------------------------------
(* Parts of handlers *)

(* setRange: a rolling range is laid anew against the clock. *)
Select(kind) == mode' = kind /\ bounds' = Bounds(kind)
Roll == IF mode = "rolling" THEN Select(mode) ELSE UNCHANGED range

(* rebuildMetricRows, renderMetrics and the label. *)
Redraw(readings) ==
  /\ observations' = readings
  /\ shown' = readings \cap bounds'
  /\ label' = bounds'

(* A response reaches the page only after its own two reads, where that is assumed. *)
MayArrive == LocalFirst => page = "running"

Transaction(op, times, by) == [op |-> op, times |-> times, by |-> by]

(* loadRange up to its fetch. *)
Send(k, submitted) ==
  /\ loads[k].stage = "none"
  /\ Roll
  /\ loads' = [loads EXCEPT ![k] =
                 [NoLoad EXCEPT !.stage = "sent", !.submitted = submitted, !.query = bounds']]

(* Mutated Removed: an answer only adds. *)
RemovedNothing(readings) == {}

(* What the answer makes the page forget: readings in the range as selected now. *)
Removed(readings) == (observations \cap bounds) \ readings

(* One write to the object store, none when it has nothing to do. *)
Write(op, times) == IF times = {} THEN <<>> ELSE << <<op, times>> >>

(* Mutated Writes: the cache is filled before it is cleaned. *)
WritesPutFirst(removed, readings) == Write("put", readings) \o Write("delete", removed)

(* deleteMany, then putMany; each returns at once when it has nothing to do. *)
Writes(removed, readings) == Write("delete", removed) \o Write("put", readings)

(* After the last await of loadRange. *)
Finish(k, readings) ==
  /\ Redraw(readings)
  /\ preference' = IF loads[k].submitted /\ Storage THEN mode ELSE preference
  /\ loads' = [loads EXCEPT ![k] = NoLoad]

-----------------------------------------------------------------------------
(* The world *)

(* The recorder stores a reading. *)
Record ==
  /\ now < MaxTime
  /\ now' = now + 1
  /\ server' = server \cup {now + 1}
  /\ UNCHANGED <<stored, page, range, view, requests, queue, counters>>

(* Another browser resets the dataset. *)
ResetElsewhere ==
  /\ server # {}
  /\ server' = {}
  /\ UNCHANGED <<now, stored, page, range, view, requests, queue, counters>>

(* The tab is closed: transactions that have not run are lost. *)
Close ==
  /\ page # "closed" /\ faults < MaxFaults
  /\ page' = "closed" /\ faults' = faults + 1
  /\ mode' = "rolling" /\ bounds' = Time
  /\ observations' = {} /\ shown' = {} /\ label' = {}
  /\ loads' = [k \in Load |-> NoLoad] /\ poll' = NoPoll /\ reset' = "none"
  /\ queue' = <<>>
  /\ UNCHANGED <<outside, stored, edits>>

-----------------------------------------------------------------------------
(* initializeData *)

Open ==
  /\ page = "closed"
  /\ page' = "preference"
  /\ UNCHANGED <<outside, stored, range, view, requests, queue, counters>>

(* getPreference answers, or IndexedDB is not available: 12 hours. *)
RestorePreference ==
  /\ page = "preference"
  /\ Select(IF Storage THEN preference ELSE "rolling")
  /\ queue' = Append(queue, Transaction("get", bounds', "page"))
  /\ page' = "cache"
  /\ UNCHANGED <<outside, stored, view, requests, counters>>

IsNext(by) == queue # <<>> /\ Head(queue).by = by

(* getRange answers: what is cached is shown, and reconciled. *)
RestoreCache(k) ==
  /\ page = "cache" /\ IsNext("page")
  /\ page' = "running"
  /\ Send(k, FALSE)
  /\ LET readings == observations \cup (IF Storage THEN cache \cap Head(queue).times ELSE {})
     IN /\ observations' = readings
        /\ shown' = readings \cap bounds
        /\ label' = bounds
  /\ queue' = Tail(queue)
  /\ UNCHANGED <<outside, stored, poll, reset, counters>>

-----------------------------------------------------------------------------
(* loadRange *)

(* The page becomes visible, or the network returns.  (A bound: one of the loads *)
(* is kept for the one that initializeData ends with.)                         *)
Resume(k) ==
  /\ page # "closed"
  /\ page # "running" => \E j \in Load \ {k} : loads[j].stage = "none"
  /\ Send(k, FALSE)
  /\ UNCHANGED <<outside, stored, page, view, poll, reset, queue, counters>>

(* The range dialog: a preset or an input takes effect before it is submitted. *)
Edit(kind) ==
  /\ page = "running" /\ edits < MaxEdits
  /\ kind # mode
  /\ Select(kind)
  /\ edits' = edits + 1
  /\ UNCHANGED <<outside, stored, page, view, requests, queue, faults>>

Submit(k) ==
  /\ page = "running" /\ edits < MaxEdits
  /\ edits' = edits + 1
  /\ Send(k, TRUE)
  /\ UNCHANGED <<outside, stored, page, view, poll, reset, queue, faults>>

(* The endpoint answers; a range that ends before the retention is an error. *)
AnswerLoad(k) ==
  /\ loads[k].stage = "sent"
  /\ loads' = [loads EXCEPT ![k] =
       IF loads[k].query \cap Retained = {} THEN NoLoad
       ELSE [@ EXCEPT !.stage = "answered", !.readings = Answer(loads[k].query)]]
  /\ UNCHANGED <<outside, stored, page, range, view, poll, reset, queue, counters>>

FailLoad(k) ==
  /\ loads[k].stage \in {"sent", "answered"} /\ faults < MaxFaults
  /\ faults' = faults + 1
  /\ loads' = [loads EXCEPT ![k] = NoLoad]
  /\ UNCHANGED <<outside, stored, page, range, view, poll, reset, queue, edits>>

(* The answer arrives: memory follows it at once, IndexedDB later. *)
ApplyLoad(k) ==
  /\ loads[k].stage = "answered" /\ MayArrive
  /\ LET readings == loads[k].readings
         memory == (observations \ Removed(readings)) \cup readings
         writes == Writes(Removed(readings), readings)
     IN IF writes = <<>>
        THEN /\ UNCHANGED <<range, queue, cache>>
             /\ Finish(k, memory)
        ELSE /\ observations' = memory
             /\ queue' = Append(queue, Transaction(writes[1][1], writes[1][2], k))
             /\ loads' = [loads EXCEPT ![k].stage = "writing", ![k].writes = Tail(writes)]
             /\ UNCHANGED <<shown, label, range, stored>>
  /\ UNCHANGED <<outside, page, poll, reset, counters>>

(* What a transaction leaves in the object store. *)
After(transaction) ==
  CASE transaction.op = "put"    -> cache \cup transaction.times
    [] transaction.op = "delete" -> cache \ transaction.times
    [] transaction.op = "clear"  -> {}

(* deleteMany or putMany returns; when it throws, loadRange ends there. *)
WriteLoad(k) ==
  /\ loads[k].stage = "writing" /\ IsNext(k)
  /\ LET writes == loads[k].writes
     IN IF ~Storage
        THEN /\ loads' = [loads EXCEPT ![k] = NoLoad]
             /\ queue' = Tail(queue)
             /\ UNCHANGED <<view, range, stored>>
        ELSE /\ cache' = After(Head(queue))
             /\ UNCHANGED range
             /\ IF writes = <<>>
                THEN queue' = Tail(queue) /\ Finish(k, observations)
                ELSE /\ queue' = Append(Tail(queue), Transaction(writes[1][1], writes[1][2], k))
                     /\ loads' = [loads EXCEPT ![k].writes = Tail(writes)]
                     /\ UNCHANGED <<view, preference>>
  /\ UNCHANGED <<outside, page, poll, reset, counters>>

-----------------------------------------------------------------------------
(* pollLatest *)

(* Mutated Poll: isPolling is not consulted. *)
PollAgain ==
  /\ page # "closed"
  /\ poll' = [NoPoll EXCEPT !.stage = "sent"]
  /\ UNCHANGED <<outside, stored, page, range, view, loads, reset, queue, counters>>

Poll ==
  /\ page # "closed" /\ poll.stage = "none"
  /\ poll' = [NoPoll EXCEPT !.stage = "sent"]
  /\ UNCHANGED <<outside, stored, page, range, view, loads, reset, queue, counters>>

(* The latest reading, or 404. *)
AnswerPoll ==
  /\ poll.stage = "sent"
  /\ poll' = IF server = {} THEN NoPoll ELSE [stage |-> "answered", reading |-> Max(server)]
  /\ UNCHANGED <<outside, stored, page, range, view, loads, reset, queue, counters>>

FailPoll ==
  /\ poll.stage \in {"sent", "answered"} /\ faults < MaxFaults
  /\ faults' = faults + 1
  /\ poll' = NoPoll
  /\ UNCHANGED <<outside, stored, page, range, view, loads, reset, queue, edits>>

(* acceptReading up to its await. *)
ApplyPoll ==
  /\ poll.stage = "answered" /\ MayArrive
  /\ observations' = observations \cup {poll.reading}
  /\ queue' = Append(queue, Transaction("put", {poll.reading}, "poll"))
  /\ poll' = [poll EXCEPT !.stage = "writing"]
  /\ UNCHANGED <<outside, stored, page, range, shown, label, loads, reset, counters>>

(* putMany returns or throws: either way the reading is drawn. *)
WritePoll ==
  /\ poll.stage = "writing" /\ IsNext("poll")
  /\ cache' = IF Storage THEN After(Head(queue)) ELSE cache
  /\ queue' = Tail(queue)
  /\ Roll /\ Redraw(observations)
  /\ poll' = NoPoll
  /\ UNCHANGED <<outside, preference, page, loads, reset, counters>>

-----------------------------------------------------------------------------
(* The reset dialog *)

Reset ==
  /\ page = "running" /\ reset = "none" /\ server # {}
  /\ reset' = "sent"
  /\ UNCHANGED <<outside, stored, page, range, view, loads, poll, queue, counters>>

AnswerReset ==
  /\ reset = "sent"
  /\ server' = {}
  /\ reset' = "answered"
  /\ UNCHANGED <<now, stored, page, range, view, loads, poll, queue, counters>>

(* Refused, or its answer is lost: the page keeps what it has. *)
FailReset ==
  /\ reset \in {"sent", "answered"} /\ faults < MaxFaults
  /\ faults' = faults + 1
  /\ reset' = "none"
  /\ UNCHANGED <<outside, stored, page, range, view, loads, poll, queue, edits>>

(* Mutated ApplyReset: the graphs are emptied, the readings in memory are kept. *)
ApplyResetToGraphs ==
  /\ reset = "answered"
  /\ shown' = {} /\ UNCHANGED observations
  /\ queue' = Append(queue, Transaction("clear", {}, "reset"))
  /\ reset' = "writing"
  /\ UNCHANGED <<outside, stored, page, range, label, loads, poll, counters>>

ApplyReset ==
  /\ reset = "answered"
  /\ shown' = {} /\ observations' = {}
  /\ queue' = Append(queue, Transaction("clear", {}, "reset"))
  /\ reset' = "writing"
  /\ UNCHANGED <<outside, stored, page, range, label, loads, poll, counters>>

WriteReset ==
  /\ reset = "writing" /\ IsNext("reset")
  /\ cache' = IF Storage THEN After(Head(queue)) ELSE cache
  /\ queue' = Tail(queue)
  /\ reset' = "none"
  /\ UNCHANGED <<outside, preference, page, range, view, loads, poll, counters>>

-----------------------------------------------------------------------------
Boot == Open \/ RestorePreference \/ \E k \in Load : RestoreCache(k)
Loading == \E k \in Load : AnswerLoad(k) \/ ApplyLoad(k) \/ WriteLoad(k)
Polling == Poll \/ AnswerPoll \/ ApplyPoll \/ WritePoll
Resetting == AnswerReset \/ ApplyReset \/ WriteReset
Resuming == \E k \in Load : Resume(k)
User == Reset \/ (\E kind \in {"rolling", "all", "custom"} : Edit(kind)) \/ \E k \in Load : Submit(k)
Faulty == Close \/ FailPoll \/ FailReset \/ \E k \in Load : FailLoad(k)

Next ==
  \/ Record \/ ResetElsewhere
  \/ Boot \/ Loading \/ Polling \/ Resetting \/ Resuming \/ User \/ Faulty

Spec == Init /\ [][Next]_vars

(* Requests and transactions are answered, the interval timer fires. *)
PollingSpec ==
  /\ Spec
  /\ WF_vars(Boot) /\ WF_vars(Polling) /\ WF_vars(Resetting)
  /\ \A k \in Load : WF_vars(AnswerLoad(k) \/ ApplyLoad(k) \/ WriteLoad(k))

(* And the page is brought back to the foreground again and again. *)
ResumingSpec == PollingSpec /\ SF_vars(Resuming)

-----------------------------------------------------------------------------
(* Nothing is in flight. *)
Quiet ==
  /\ page = "running"
  /\ \A k \in Load : loads[k].stage = "none"
  /\ poll.stage = "none" /\ reset = "none"
  /\ queue = <<>>

(* Types, and: an answer holds readings of the range it was asked for, and each *)
(* request that writes has exactly one transaction in the queue: isPolling and  *)
(* the awaits keep a request from having two.                                  *)
TypeOK ==
  /\ now \in 0..MaxTime /\ server \subseteq 1..now
  /\ cache \subseteq 1..now /\ observations \subseteq 1..now /\ shown \subseteq 1..now
  /\ page \in {"closed", "preference", "cache", "running"}
  /\ mode \in {"rolling", "all", "custom"} /\ bounds \subseteq Time
  /\ \A k \in Load :
       /\ loads[k].stage \in {"none", "sent", "answered", "writing"}
       /\ loads[k].readings \subseteq loads[k].query
       /\ loads[k].stage = "writing" <=> Cardinality({i \in DOMAIN queue : queue[i].by = k}) = 1
  /\ poll.stage = "writing" <=> Cardinality({i \in DOMAIN queue : queue[i].by = "poll"}) = 1
  /\ reset = "writing" <=> Cardinality({i \in DOMAIN queue : queue[i].by = "reset"}) = 1

(* Recovery after the tab is closed: once nothing is in flight, every reading  *)
(* of the server that the page holds in memory is in IndexedDB, in whatever    *)
(* order loads, polls and resets were answered.                                *)
RecoverableAfterClose ==
  Quiet => observations \cap server \subseteq cache

(* Once nothing is in flight, the graphs show what memory holds of the range   *)
(* that the label names.                                                       *)
ViewIsCurrent ==
  Quiet => shown = observations \cap label

(* Once the dataset and the selection stop changing, the graphs come to show    *)
(* what the server holds of the range, and stay that way.                       *)
ViewReconciles ==
  <>[](page = "running" => shown = Answer(label))
==============================================================================
