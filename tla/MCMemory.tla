------------------------------ MODULE MCMemory ------------------------------
(***************************************************************************)
(* Small instances of Memory: two banks, SIMMs of every type, faulty ones    *)
(* and some that decode address lines no SIMM is sold with.                  *)
(***************************************************************************)
EXTENDS Memory

Good(lines) == [fitted |-> TRUE, dead |-> FALSE, lines |-> lines, low |-> FALSE,
                head |-> {}, body |-> {}]

MCSimms ==
  {[Good({}) EXCEPT !.fitted = FALSE], Good({8}), Good({4, 8}), Good({4, 8, 32}),
   Good({8, 32}), Good({4, 32}), Good({8, 16}),
   [Good({4, 8}) EXCEPT !.dead = TRUE], [Good({4, 8}) EXCEPT !.low = TRUE],
   [Good({4, 8}) EXCEPT !.head = {2}], [Good({4, 8}) EXCEPT !.body = {1}]}

\* For the detection alone: every set of decoded address lines.
AllSimms == {Good(lines) : lines \in SUBSET {4, 8, 16, 32}}
=============================================================================
