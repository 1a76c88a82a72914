--------------------------- MODULE MCIgnoreFilter ---------------------------
(* Paths and patterns of IgnoreFilter for TLC. *)
EXTENDS IgnoreFilter

\* Paths of up to three names, of which one is another's beginning.
MCName == { <<"a">>, <<"b">>, <<"a", "b">> }
Path(names) == FlattenSeq([i \in DOMAIN names |-> IF i = 1 THEN names[i] ELSE <<Slash>> \o names[i]])
MCFile == {Path(names) : names \in UNION {[1..n -> MCName] : n \in 1..3}}
MCSegs == UNION {[1..n -> {<<"a">>, <<"*">>, <<"**">>}] : n \in 1..2}
          \cup { <<<<"a", "?">>>>, <<<<"a">>, <<"**">>, <<"b">>>> }
MCLine == [segs : MCSegs, anchored : BOOLEAN, negated : BOOLEAN]
=============================================================================
