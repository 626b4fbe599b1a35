---------------------------- MODULE VersionedRows ----------------------------
(***************************************************************************)
(* What the envelope store promises the calls above it: a row is inserted  *)
(* at revision 0, and a row is replaced, in one step that touches no other *)
(* row, by one at the next revision that keeps every write made before.    *)
(* EnvelopeSigning takes its compare-and-swap from here.                   *)
(***************************************************************************)
EXTENDS Integers

CONSTANTS Id, Write

VARIABLE rows

NoRow == [there |-> FALSE, rev |-> 0, writes |-> {}]

Init == rows = [i \in Id |-> NoRow]

Insert(i, w) ==
  /\ ~rows[i].there
  /\ rows' = [rows EXCEPT ![i] = [there |-> TRUE, rev |-> 0, writes |-> {w}]]

Replace(i, w) ==
  /\ rows[i].there
  /\ w \notin rows[i].writes
  /\ rows' = [rows EXCEPT ![i] = [there  |-> TRUE,
                                  rev    |-> rows[i].rev + 1,
                                  writes |-> rows[i].writes \cup {w}]]

Next == \E i \in Id, w \in Write : Insert(i, w) \/ Replace(i, w)

Spec == Init /\ [][Next]_rows
==============================================================================
