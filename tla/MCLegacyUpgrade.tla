-------------------------- MODULE MCLegacyUpgrade --------------------------
(* Small legacy substrates: empty, one Term, two Terms that share a Symbol, the *)
(* reading that the recorder will see again, ids with a gap, and an encrypted  *)
(* Symbol.                                                                     *)
EXTENDS LegacyUpgrade

Graph(terms, symbols, relations) ==
  [term       |-> {[id |-> t] : t \in terms},
   symbol     |-> {[id |-> s[1], blob |-> s[2]] : s \in symbols},
   termsymbol |-> {[id |-> r[1], term |-> r[2], symbol |-> r[3]] : r \in relations}]

MCOriginals ==
  { Graph({}, {}, {}),
    Graph({1}, {<<1, "x">>}, {<<1, 1, 1>>}),
    Graph({1}, {<<1, "x">>, <<2, "y">>}, {<<1, 1, 1>>, <<2, 1, 2>>}),
    Graph({1, 2}, {<<1, "x">>, <<2, "y">>}, {<<1, 1, 1>>, <<2, 2, 1>>, <<3, 2, 2>>}),
    Graph({1}, {<<1, "reading">>}, {<<1, 1, 1>>}),
    Graph({3}, {<<2, "reading">>, <<3, "x">>}, {<<4, 3, 3>>, <<5, 3, 2>>}),
    Graph({1}, {<<1, "x">>, <<2, "encrypted">>}, {<<1, 1, 1>>, <<2, 1, 2>>}) }
==============================================================================
