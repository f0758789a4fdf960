-------------------------------- MODULE Tables --------------------------------
(***************************************************************************)
(* storage/docstore.py, the operators: a table is a function from the keys *)
(* present to records.  put replaces a whole record except its immutable   *)
(* columns, patch changes the fields it names, and a record is stored as   *)
(* declared columns plus a JSON payload.  The services of the backend keep *)
(* their state in such tables.                                             *)
(***************************************************************************)
EXTENDS Integers, Sequences, FiniteSets, TLC

CONSTANT None   \* SQL NULL, and the absence of a value

IsRecord(r) == r = [f \in DOMAIN r |-> r[f]]

Kept(old, new, immutable) ==
  [f \in DOMAIN new |-> IF f \in immutable \cap DOMAIN old THEN old[f] ELSE new[f]]

Put(T, k, r, immutable) ==
  [x \in DOMAIN T \cup {k} |->
     IF x # k THEN T[x] ELSE IF k \in DOMAIN T THEN Kept(T[k], r, immutable) ELSE r]

Changed(r, changes) ==
  [f \in DOMAIN r \cup DOMAIN changes |-> IF f \in DOMAIN changes THEN changes[f] ELSE r[f]]

Patch(T, k, changes) == [x \in DOMAIN T |-> IF x = k THEN Changed(T[k], changes) ELSE T[x]]

Delete(T, k) == [x \in DOMAIN T \ {k} |-> T[x]]

-----------------------------------------------------------------------------
\* Rows: the declared columns, NULL when the record lacks them, and the rest.

Split(declared, r) ==
  [columns |-> [c \in declared |-> IF c \in DOMAIN r THEN r[c] ELSE None],
   payload |-> [f \in DOMAIN r \ declared |-> r[f]]]

Merge(row) == Changed(row.payload, row.columns)
=============================================================================
