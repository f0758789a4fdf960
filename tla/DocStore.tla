------------------------------- MODULE DocStore -------------------------------
(***************************************************************************)
(* storage/docstore.py: one document table under several requests.  On     *)
(* SQLite a coroutine never gives up the event loop inside the store, on   *)
(* PostgreSQL every round trip does, so a patch is two steps there.        *)
(***************************************************************************)
EXTENDS Tables

CONSTANTS
  DocKeys,    \* primary keys of the modelled table
  DocFields,  \* the keys a record may carry besides its primary key
  DocValues,  \* what they may hold
  DocTasks    \* requests working on the table

Field == "created_at"   \* the column every table declares immutable

ASSUME DocAssumption == Field \notin DocFields

VARIABLES
  docBackend,   \* "sqlite" or "postgres"
  docColumns,   \* the columns the running build declares
  docRows,      \* the table
  docTask,      \* [DocTasks -> what each request is in the middle of]
  docNow,       \* the clock that stamps created_at
  docAtomic,    \* history: the records had every call been one step
  docPromoted   \* history: fields turned from payload into columns

docVars == <<docBackend, docColumns, docRows, docTask, docNow, docAtomic, docPromoted>>

DocIdle == [pc |-> "idle"]

DocInit ==
  /\ docBackend \in {"sqlite", "postgres"}
  /\ docColumns = {Field}
  /\ docRows = <<>>
  /\ docAtomic = <<>>
  /\ docTask = [t \in DocTasks |-> DocIdle]
  /\ docNow = 1
  /\ docPromoted = {}

(* Only a PostgreSQL call lets another task run before it returns. *)
DocMayRun(t) ==
  docBackend = "sqlite" => \A u \in DocTasks \ {t} : docTask[u].pc = "idle"

\* Mutant of DocUpsert: every column is in the SET clause.
DocUpsertAll(k, r) == docRows' = (k :> Split(docColumns, r)) @@ docRows

(* _put: split, insert or, on conflict, set every column but the immutable. *)
DocUpsert(k, r) ==
  LET row == Split(docColumns, r)
      kept == IF k \in DOMAIN docRows
              THEN [row EXCEPT !.columns = Kept(docRows[k].columns, row.columns, {Field})] ELSE row
  IN docRows' = [x \in DOMAIN docRows \cup {k} |-> IF x = k THEN kept ELSE docRows[x]]

(* put: the caller's record replaces the stored one.  created_at is stamped *)
(* unless given, and an existing row keeps its own.                         *)
DocPut(t, k, r) ==
  /\ DocMayRun(t) /\ docTask[t].pc = "idle"
  /\ LET stamped == Changed([f \in {Field} |-> docNow], r)
     IN /\ DocUpsert(k, stamped)
        /\ docAtomic' = Put(docAtomic, k, stamped, {Field})
  /\ UNCHANGED <<docBackend, docColumns, docTask, docNow, docPromoted>>

(* patch, first half: read the record; an absent one ends the call. *)
DocPatchRead(t, k, changes) ==
  /\ DocMayRun(t) /\ docTask[t].pc = "idle" /\ k \in DOMAIN docRows
  /\ docTask' = [docTask EXCEPT ![t] =
                   [pc |-> "patch", key |-> k, changes |-> changes, read |-> Merge(docRows[k])]]
  /\ UNCHANGED <<docBackend, docColumns, docRows, docNow, docAtomic, docPromoted>>

\* Mutant of DocPatched: the changes are put as if they were the record.
DocOnlyChanges(task) == task.changes @@ (Field :> task.read[Field])

DocPatched(task) == Changed(task.read, task.changes)

(* patch, second half: the record as read, with the changes, is put. *)
DocPatchWrite(t) ==
  /\ DocMayRun(t) /\ docTask[t].pc = "patch"
  /\ LET k == docTask[t].key
     IN /\ DocUpsert(k, DocPatched(docTask[t]))
        /\ docAtomic' = Patch(docAtomic, k, docTask[t].changes)
  /\ docTask' = [docTask EXCEPT ![t] = DocIdle]
  /\ UNCHANGED <<docBackend, docColumns, docNow, docPromoted>>

DocDelete(t, k) ==
  /\ DocMayRun(t) /\ docTask[t].pc = "idle" /\ k \in DOMAIN docRows
  /\ docRows' = Delete(docRows, k)
  /\ docAtomic' = Delete(docAtomic, k)
  /\ UNCHANGED <<docBackend, docColumns, docTask, docNow, docPromoted>>

(* A restart into a build that declares one more column: start adds it, NULL *)
(* in every row it finds.                                                    *)
DocUpgrade(f) ==
  /\ f \notin docColumns
  /\ docColumns' = docColumns \cup {f}
  /\ docRows' = [k \in DOMAIN docRows |-> [docRows[k] EXCEPT !.columns = Changed([g \in {f} |-> None], @)]]
  /\ docTask' = [t \in DocTasks |-> DocIdle]
  /\ docPromoted' = docPromoted \cup {g \in {f} : \E k \in DOMAIN docRows : f \in DOMAIN docRows[k].payload}
  /\ UNCHANGED <<docBackend, docNow, docAtomic>>

DocTick(limit) ==
  /\ docNow < limit
  /\ docNow' = docNow + 1
  /\ UNCHANGED <<docBackend, docColumns, docRows, docTask, docAtomic, docPromoted>>

DocRecords == UNION {[S -> DocValues] : S \in SUBSET DocFields}
DocChanges == UNION {[{g} -> DocValues] : g \in DocFields}

DocNext(limit) ==
  \/ \E t \in DocTasks, k \in DocKeys, r \in DocRecords : DocPut(t, k, r)
  \/ \E t \in DocTasks, k \in DocKeys, c \in DocChanges : DocPatchRead(t, k, c)
  \/ \E t \in DocTasks : DocPatchWrite(t)
  \/ \E t \in DocTasks, k \in DocKeys : DocDelete(t, k)
  \/ \E f \in DocFields : DocUpgrade(f)
  \/ DocTick(limit)

DocSpec(limit) == DocInit /\ [][DocNext(limit)]_docVars

-----------------------------------------------------------------------------
(* What a reader gets back is what the calls, taken one at a time, left:   *)
(* no field of a patch undone by another, none lost on the way through     *)
(* columns and payload.  On PostgreSQL two patches of one record do lose   *)
(* fields; a payload key promoted to a column reads NULL until rewritten.  *)
DocReadsBack ==
  docBackend = "sqlite" =>
    /\ DOMAIN docRows = DOMAIN docAtomic
    /\ \A k \in DOMAIN docRows :
         LET got == Merge(docRows[k])
         IN \A f \in DOMAIN docAtomic[k] \ docPromoted : f \in DOMAIN got /\ got[f] = docAtomic[k][f]

(* What every call leaves behind: records that read back as written, and    *)
(* the creation stamp of each row as it was, on either backend and through  *)
(* every put, patch and upgrade.                                            *)
DocKeepsRecords ==
  [][/\ DocReadsBack'
     /\ \A k \in DOMAIN docRows \cap DOMAIN docRows' :
          docRows'[k].columns[Field] = docRows[k].columns[Field]]_docVars
=============================================================================
