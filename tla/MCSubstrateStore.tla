-------------------------- MODULE MCSubstrateStore --------------------------
(* One recorder, one command line and one web worker on one file.  Two        *)
(* observations consist of the same Symbols in another order (a temperature   *)
(* and a humidity with the same bytes); a third one brings a new Symbol and   *)
(* uses it twice.                                                             *)
EXTENDS SubstrateStore

CONSTANTS w, s, a, x, y, z

MCProcess == {w, s, a}
MCWeb == {w}
MCSensor == {s}
MCAdmin == {a}

First == <<x, y>>
Second == <<y, x>>
Third == <<z, z>>
MCContents == {First, Second, Third}
MCFiles == {<<>>, <<First, Second>>, <<Third, Third>>}
=============================================================================
