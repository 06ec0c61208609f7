------------------------------ MODULE MCSearch ------------------------------
(* Every vault of a note of up to three lines and two of up to two, of     *)
(* which the last has a path that is not UTF-8.                            *)
EXTENDS Search

Notes(n) == UNION {[1..k -> BOOLEAN] : k \in 0..n}

MCVaults == {<<a, b, c>> : a \in Notes(3), b \in Notes(2), c \in Notes(2)}

MCPathText == <<"a.md", "b.md", "">>
=============================================================================
