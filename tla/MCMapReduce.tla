---------------------------- MODULE MCMapReduce ----------------------------
(* Instances of MapReduce for TLC. *)
EXTENDS MapReduce

kv(key, value) == [Key |-> key, Value |-> value]

\* Two files; the first has two pairs for one bucket, a key is in both files,
\* and a bucket of the second file is empty.
TwoFiles == << <<kv("a", 1), kv("b", 2), kv("c", 3)>>, <<kv("a", 4)>> >>

TwoBuckets == [k \in {"a", "b", "c"} |-> IF k = "b" THEN 2 ELSE 1]
=============================================================================
