--------------------------- MODULE MCHistoryReads ---------------------------
(* A web process that reads or resets, a second one that only resets (readers *)
(* do not disturb one another), and the recorder.                             *)
EXTENDS HistoryReads

CONSTANTS w1, w2, s, x, y, z

MCProcess == {w1, w2, s}
MCWeb == {w1, w2}
MCSensor == {s}

Early == <<x, x>>
Noon == <<x, y>>
Late == <<x, z>>
MCContents == {Early, Noon, Late}
MCWindows == {{Early, Noon}, MCContents}

OneReader == job'[w2].task # "read"
MCSpec == ReadInit /\ [][ReadNext /\ OneReader]_readerVars /\ ReadFairness
=============================================================================
