----------------------------- MODULE TablesProofs -----------------------------
(***************************************************************************)
(* What the operations on tables return, for the proofs about the services *)
(* that keep their state in tables.                                        *)
(***************************************************************************)
EXTENDS Tables, FiniteSetTheorems, WellFoundedInduction, TLAPS

LEMMA PutTable ==
  ASSUME NEW T, NEW k, NEW r, NEW immutable
  PROVE  /\ DOMAIN Put(T, k, r, immutable) = DOMAIN T \cup {k}
         /\ \A x \in DOMAIN T : x # k => Put(T, k, r, immutable)[x] = T[x]
         /\ k \notin DOMAIN T => Put(T, k, r, immutable)[k] = r
BY DEF Put

LEMMA PutWhole ==
  ASSUME NEW T, NEW k, NEW r, IsRecord(r)
  PROVE  Put(T, k, r, {})[k] = r
BY DEF Put, Kept, IsRecord

LEMMA PatchTable ==
  ASSUME NEW T, NEW k, NEW changes
  PROVE  /\ DOMAIN Patch(T, k, changes) = DOMAIN T
         /\ \A x \in DOMAIN T : x # k => Patch(T, k, changes)[x] = T[x]
         /\ k \in DOMAIN T => Patch(T, k, changes)[k] = Changed(T[k], changes)
BY DEF Patch

LEMMA ChangedRecord ==
  ASSUME NEW r, NEW changes
  PROVE  /\ DOMAIN Changed(r, changes) = DOMAIN r \cup DOMAIN changes
         /\ \A f \in DOMAIN changes : Changed(r, changes)[f] = changes[f]
         /\ \A f \in DOMAIN r \ DOMAIN changes : Changed(r, changes)[f] = r[f]
BY DEF Changed

LEMMA DeleteTable ==
  ASSUME NEW T, NEW k
  PROVE  /\ DOMAIN Delete(T, k) = DOMAIN T \ {k}
         /\ \A x \in DOMAIN T \ {k} : Delete(T, k)[x] = T[x]
BY DEF Delete

\* What is put or patched stays a table of records.
LEMMA RecordsStay ==
  ASSUME NEW T, \A x \in DOMAIN T : IsRecord(T[x]), NEW k, NEW r, IsRecord(r), NEW immutable
  PROVE  /\ \A x \in DOMAIN Put(T, k, r, immutable) : IsRecord(Put(T, k, r, immutable)[x])
         /\ \A x \in DOMAIN Patch(T, k, r) : IsRecord(Patch(T, k, r)[x])
<1>1. \A old : IsRecord(Kept(old, r, immutable)) /\ IsRecord(Changed(old, r))
  BY DEF Kept, Changed, IsRecord
<1>. QED  BY <1>1 DEF Put, Patch

\* Ids are drawn in turn, so that what is put is new.
LEMMA IdsAreDrawn ==
  ASSUME NEW n \in Nat
  PROVE  Cardinality(1 .. n) + 1 = n + 1 /\ (1 .. n) \cup {n + 1} = 1 .. n + 1 /\ n + 1 \notin 1 .. n
<1>1. Cardinality(1 .. n) = n
  BY FS_Interval
<1>. QED  BY <1>1

\* Times and numbers have a least one among any of them.
LEMMA LeastNatural ==
  ASSUME NEW T \in SUBSET Nat, T # {}
  PROVE  \E x \in T : \A y \in T : x <= y
<1> DEFINE R == OpToRel(<, Nat)
<1>1. IsWellFoundedOn(R, Nat)
  BY NatLessThanWellFounded
<1>3. \A x, y \in Nat : y < x => <<y, x>> \in R
  BY DEF OpToRel
<1> HIDE DEF R
<1>2. PICK x \in T : \A y \in T : ~ (<<y, x>> \in R)
  BY <1>1, WFMin
<1>4. ASSUME NEW y \in T
      PROVE  x <= y
  <2>1. x \in Nat /\ y \in Nat /\ ~ (y < x)
    BY <1>2, <1>3
  <2>. QED  BY <2>1
<1>. QED  BY <1>4
=============================================================================
