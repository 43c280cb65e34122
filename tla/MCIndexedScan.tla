---------------------------- MODULE MCIndexedScan ----------------------------
(* The constants of the runs of IndexedScan: two kinds of symbols, contents  *)
(* that share a name of one kind and differ in the other.                    *)
EXTENDS IndexedScan

CONSTANTS a, b, go, p1

OneLanguage == [p \in Paths |-> go]

\* Two symbols of a kind may have one name (methods of two types).
TwoContents ==
  [c \in {1, 2} |-> [k \in Kinds |->
     IF k = "types" THEN (IF c = 1 THEN <<a, b>> ELSE <<b, b>>)
     ELSE IF c = 1 THEN <<b>> ELSE <<a>>]]

\* By name, by kind, and by all three.
FilteringQueries ==
  {[languages |-> {}, kinds |-> {}, name |-> a],
   [languages |-> {}, kinds |-> {"types"}, name |-> AnyName],
   [languages |-> {go}, kinds |-> {"types"}, name |-> b]}

TwoKinds == {"types", "functions"}
=============================================================================
