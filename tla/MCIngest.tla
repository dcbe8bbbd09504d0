------------------------------ MODULE MCIngest ------------------------------
(***************************************************************************)
(* Ingest on small inputs: every path of up to four segments by itself,    *)
(* two entries that may lead to the same place or differ in one attribute, *)
(* three entries with sizes around the limits.                             *)
(***************************************************************************)
EXTENDS Ingest

AnyPath == UNION {[1..n -> Segments] : n \in 1..4}
Text(p, s) == [path |-> p, kind |-> "file", size |-> s, data |-> "text"]

Alike == {<<"m.py">>, <<"src", "m.py">>, <<"src", "..", "m.py">>, <<"", "m.py">>,
          <<".", "src", "", "m.py">>, <<"m.py", "">>, <<".env">>, <<"src">>}

Mixed == {[path |-> p, kind |-> k, size |-> s, data |-> d] :
            p \in {<<"m.py">>, <<"src", ".env">>}, k \in {"file", "dir", "symlink"}, s \in {0, 2, 3},
            d \in {"text", "binary", "short", "corrupt", "long"}}

AllInputs ==
  {<<>>} \cup {<<Text(p, 1)>> : p \in AnyPath}
         \cup {<<d, e>> : d, e \in {Text(p, 1) : p \in Alike} \cup Mixed}
         \cup {<<Text(<<"m.py">>, r), Text(<<"src", "m.py">>, s), Text(<<".env">>, t)>> :
                 r, s, t \in 0..3}
         \cup {<<Text(p, 1), Text(q, 0), Text(r, 1), Text(<<"src", ".env">>, 0)>> :
                 p, q, r \in Alike}
=============================================================================
