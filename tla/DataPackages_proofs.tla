------------------------ MODULE DataPackages_proofs ------------------------
(***************************************************************************)
(* Theorems about DataPackages, for any number of machines, clients, rows  *)
(* and packages, any order of types and any bounds: no row is taken over,  *)
(* a guarded import keeps newer edits, an answer without errors is true,   *)
(* and projects follow their villages.                                     *)
(*                                                                         *)
(* What carries the proof is what an import in progress knows.  As long as *)
(* its snapshot is fresh its tables keep every row of the machine, so that *)
(* its commit, which SQLite refuses when the snapshot is stale, keeps them *)
(* too.  And every row of a type it wrote without an error is where the    *)
(* map of moved ids says.                                                  *)
(***************************************************************************)
EXTENDS DataPackages, FiniteSetTheorems, TLAPS

(***************************************************************************)
(* Tables.                                                                 *)
(***************************************************************************)
AnyRow == Row("villages") \cup Row("projects")
Bounded(S) == \E n \in Nat : S \subseteq 1..n
IdSets == {S \in SUBSET Ids : Bounded(S)}
Table == UNION {[S -> AnyRow] : S \in IdSets}
Store == [Types -> Table]
Moves == UNION {[S -> Ids] : S \in SUBSET Ids}

\* U has every row of T, under the same id, and not an older version of it when
\* the import guards by time.
Keeps(mode, T, U) ==
  \A i \in DOMAIN T : /\ i \in DOMAIN U
                      /\ IsThere(T[i].who, U[i].who)
                      /\ mode = "newer" => U[i].ver >= T[i].ver

LEMMA LeastBound ==
  ASSUME NEW S \in SUBSET Nat, S # {}, NEW n \in Nat, \A k \in S : k <= n
  PROVE  \E i \in S : \A k \in S : k <= i
<1> DEFINE B == {m \in Nat : \A k \in S : k <= m}
<1>1. PICK m \in B : \A y \in B : ~ (<<y, m>> \in OpToRel(<, Nat))
  <2>1. B \subseteq Nat /\ B # {}
    OBVIOUS
  <2> HIDE DEF B
  <2> QED BY <2>1, WFMin, NatLessThanWellFounded
<1>2. \A y \in B : ~(y < m)
  BY <1>1 DEF OpToRel
<1>3. m \in S
  <2> SUFFICES ASSUME m \notin S PROVE FALSE
    OBVIOUS
  <2>1. PICK k \in S : k <= m
    OBVIOUS
  <2>2. m - 1 \in B
    BY <2>1
  <2> QED BY <2>2, <1>2
<1> QED BY <1>3

\* A table is a function from a bounded set of ids to rows.
LEMMA TableIs ==
  ASSUME NEW T \in Table
  PROVE  /\ T = [i \in DOMAIN T |-> T[i]]
         /\ DOMAIN T \in IdSets
         /\ DOMAIN T \subseteq Ids
         /\ \A i \in DOMAIN T : T[i] \in AnyRow
  BY DEF Table, IdSets

LEMMA IsTable ==
  ASSUME NEW S \in IdSets, NEW T \in [S -> AnyRow]
  PROVE  T \in Table
  BY DEF Table

LEMMA RowIs ==
  ASSUME NEW row \in AnyRow
  PROVE  /\ row.ver \in Nat
         /\ row.up \in Nat
         /\ \A v \in Nat : /\ [row EXCEPT !.ver = v] \in AnyRow
                           /\ [row EXCEPT !.ver = v].who = row.who
                           /\ [row EXCEPT !.ver = v].ver = v
                           /\ [row EXCEPT !.ver = v].up = row.up
         /\ \A v \in Nat : /\ [row EXCEPT !.up = v] \in AnyRow
                           /\ [row EXCEPT !.up = v].who = row.who
                           /\ [row EXCEPT !.up = v].ver = row.ver
                           /\ [row EXCEPT !.up = v].up = v
  BY DEF AnyRow, Row

LEMMA BoundedSets ==
  ASSUME NEW S, NEW X, Bounded(S), Bounded(X)
  PROVE  /\ Bounded(S \cup X)
         /\ \A Y \in SUBSET S : Bounded(Y)
         /\ S \subseteq Nat
         /\ IsFiniteSet(S)
<1>1. PICK n \in Nat : S \subseteq 1..n
  BY DEF Bounded
<1>2. PICK k \in Nat : X \subseteq 1..k
  BY DEF Bounded
<1>3. Bounded(S \cup X)
  <2> DEFINE b == IF n < k THEN k ELSE n
  <2>1. b \in Nat /\ S \cup X \subseteq 1..b
    BY <1>1, <1>2
  <2> QED BY <2>1 DEF Bounded
<1>4. \A Y \in SUBSET S : Bounded(Y)
  BY <1>1 DEF Bounded
<1>5. S \in SUBSET Nat /\ \A s \in S : s <= n
  BY <1>1
<1>6. IsFiniteSet(S)
  BY <1>5, FS_BoundedSetOfNaturals
<1> QED BY <1>3, <1>4, <1>5, <1>6

LEMMA LargestIs ==
  ASSUME NEW T \in Table
  PROVE  /\ Largest(T) \in Nat
         /\ \A k \in DOMAIN T : k <= Largest(T)
<1>1. PICK n \in Nat : DOMAIN T \subseteq 1..n
  BY TableIs DEF IdSets, Bounded
<1>2. DOMAIN T \in SUBSET Nat /\ \A k \in DOMAIN T : k <= n
  BY <1>1
<1>3. CASE DOMAIN T = {}
  BY <1>3 DEF Largest
<1>4. CASE DOMAIN T # {}
  <2>1. \E i \in DOMAIN T : \A k \in DOMAIN T : k <= i
    BY <1>2, <1>4, LeastBound
  <2> QED BY <2>1, <1>2, <1>4 DEF Largest
<1> QED BY <1>3, <1>4

\* A row that is inserted without an id takes one that nothing has.
LEMMA WithIs ==
  ASSUME NEW T \in Table, NEW row \in AnyRow
  PROVE  /\ NextId(T) \in Ids \ DOMAIN T
         /\ With(T, NextId(T), row) \in Table
<1>1. NextId(T) \in Ids /\ NextId(T) \notin DOMAIN T
  BY LargestIs DEF NextId, Ids
<1>2. DOMAIN T \cup {NextId(T)} \in IdSets
  <2>1. Bounded({NextId(T)})
    <3>1. {NextId(T)} \subseteq 1..NextId(T) /\ NextId(T) \in Nat
      BY <1>1 DEF Ids
    <3> QED BY <3>1 DEF Bounded
  <2>2. Bounded(DOMAIN T) /\ DOMAIN T \subseteq Ids
    BY TableIs DEF IdSets
  <2>3. Bounded(DOMAIN T \cup {NextId(T)})
    BY <2>1, <2>2, BoundedSets
  <2> QED BY <2>2, <2>3, <1>1 DEF IdSets
<1>3. With(T, NextId(T), row) \in [DOMAIN T \cup {NextId(T)} -> AnyRow]
  BY TableIs DEF With
<1> QED BY <1>1, <1>2, <1>3, IsTable

LEMMA Known ==
  ASSUME NEW u, NEW v, NEW w
  PROVE  /\ IsThere(u, u)
         /\ IsThere(u, v) /\ IsThere(v, w) => IsThere(u, w)
         /\ SameKey(u, v) => IsThere(u, v) /\ IsThere(v, u)
  BY DEF IsThere, SameKey

LEMMA KeepsOn ==
  ASSUME NEW mode, NEW T \in Table, NEW U \in Table, NEW V \in Table,
         Keeps(mode, T, U), Keeps(mode, U, V)
  PROVE  Keeps(mode, T, T) /\ Keeps(mode, T, V)
<1>1. \A i \in DOMAIN T : T[i].ver \in Nat /\ IsThere(T[i].who, T[i].who)
  BY TableIs, RowIs, Known
<1>2. Keeps(mode, T, T)
  BY <1>1 DEF Keeps
<1>3. Keeps(mode, T, V)
  <2> SUFFICES ASSUME NEW i \in DOMAIN T
               PROVE  /\ i \in DOMAIN V
                      /\ IsThere(T[i].who, V[i].who)
                      /\ mode = "newer" => V[i].ver >= T[i].ver
    BY DEF Keeps
  <2>1. i \in DOMAIN U /\ i \in DOMAIN V
    BY DEF Keeps
  <2>2. IsThere(T[i].who, U[i].who) /\ IsThere(U[i].who, V[i].who)
    BY <2>1 DEF Keeps
  <2>3. T[i].ver \in Nat /\ U[i].ver \in Nat /\ V[i].ver \in Nat
    BY <2>1, TableIs, RowIs
  <2>4. mode = "newer" => U[i].ver >= T[i].ver /\ V[i].ver >= U[i].ver
    BY <2>1 DEF Keeps
  <2>5. IsThere(T[i].who, V[i].who)
    BY <2>2, Known
  <2> QED BY <2>1, <2>3, <2>4, <2>5
<1> QED BY <1>2, <1>3

(***************************************************************************)
(* The import of one type.                                                 *)
(***************************************************************************)
\* Rows inserted one by one take ids that nothing has, each its own.
LEMMA NewIdsAre ==
  ASSUME NEW S \in IdSets, NEW U \in Table
  PROVE  /\ NewIds(S, U) \in [S -> Ids]
         /\ \A i \in S : NewIds(S, U)[i] \notin DOMAIN U
         /\ \A i, k \in S : NewIds(S, U)[i] = NewIds(S, U)[k] => i = k
         /\ Range(NewIds(S, U)) \in IdSets
<1> DEFINE below(i) == {k \in S : k <= i}
<1> DEFINE at == NewIds(S, U)
<1>1. S \subseteq Nat /\ IsFiniteSet(S)
  BY BoundedSets DEF IdSets
<1>2. \A i \in S : /\ IsFiniteSet(below(i))
                   /\ Cardinality(below(i)) \in Nat
                   /\ Cardinality(below(i)) <= Cardinality(S)
                   /\ Cardinality(below(i)) # 0
  <2> SUFFICES ASSUME NEW i \in S
               PROVE  /\ IsFiniteSet(below(i))
                      /\ Cardinality(below(i)) \in Nat
                      /\ Cardinality(below(i)) <= Cardinality(S)
                      /\ Cardinality(below(i)) # 0
    OBVIOUS
  <2>1. below(i) \in SUBSET S /\ i \in below(i)
    BY <1>1
  <2> HIDE DEF below
  <2>2. IsFiniteSet(below(i)) /\ Cardinality(below(i)) <= Cardinality(S)
    BY <1>1, <2>1, FS_Subset
  <2>3. Cardinality(below(i)) \in Nat
    BY <2>2, FS_CardinalityType
  <2>4. Cardinality(below(i)) # 0
    BY <2>1, <2>2, FS_EmptySet
  <2> QED BY <2>2, <2>3, <2>4
<1>3. \A i, k \in S : i < k => Cardinality(below(i)) < Cardinality(below(k))
  <2> SUFFICES ASSUME NEW i \in S, NEW k \in S, i < k
               PROVE  Cardinality(below(i)) < Cardinality(below(k))
    OBVIOUS
  <2>0. i \in Nat /\ k \in Nat /\ \A x \in S : x \in Nat
    BY <1>1
  <2>1. below(i) \in SUBSET below(k) /\ k \in below(k) /\ k \notin below(i)
    <3>1. \A x \in S : x <= i => x <= k
      BY <2>0
    <3>2. k <= k /\ ~(k <= i)
      BY <2>0
    <3> QED BY <3>1, <3>2
  <2>2. IsFiniteSet(below(k)) /\ Cardinality(below(i)) \in Nat
          /\ Cardinality(below(k)) \in Nat
    BY <1>2
  <2> HIDE DEF below
  <2>3. Cardinality(below(i)) <= Cardinality(below(k))
          /\ (Cardinality(below(k)) = Cardinality(below(i)) => below(k) = below(i))
    BY <2>1, <2>2, FS_Subset
  <2> QED BY <2>1, <2>2, <2>3
<1>4. \A i \in S : at[i] = Largest(U) + Cardinality(below(i))
  BY DEF NewIds
<1>5. Largest(U) \in Nat /\ \A k \in DOMAIN U : k <= Largest(U) /\ k \in Nat
  <2>1. DOMAIN U \subseteq Nat
    BY TableIs DEF Ids
  <2> QED BY <2>1, LargestIs
<1>6. Cardinality(S) \in Nat
  BY <1>1, FS_CardinalityType
<1> HIDE DEF below
<1>7. \A i \in S : at[i] \in Ids /\ at[i] > Largest(U)
                   /\ at[i] <= Largest(U) + Cardinality(S)
  BY <1>2, <1>4, <1>5, <1>6 DEF Ids
<1>8. at \in [S -> Ids]
  <2>1. at = [i \in S |-> at[i]]
    BY DEF NewIds
  <2> QED BY <2>1, <1>7
<1>9. \A i \in S : at[i] \notin DOMAIN U
  BY <1>5, <1>7 DEF Ids
<1>10. \A i, k \in S : at[i] = at[k] => i = k
  BY <1>1, <1>2, <1>3, <1>4, <1>5
<1>11. Range(at) \in IdSets
  <2>1. Range(at) \subseteq Ids
    BY <1>8 DEF Range
  <2>2. Range(at) \subseteq 1..(Largest(U) + Cardinality(S))
    BY <1>7, <1>8 DEF Range, Ids
  <2>3. Largest(U) + Cardinality(S) \in Nat
    BY <1>5, <1>6
  <2> QED BY <2>1, <2>2, <2>3 DEF IdSets, Bounded
<1> QED BY <1>8, <1>9, <1>10, <1>11

LEMMA IdSubsets ==
  ASSUME NEW S \in IdSets, NEW X \in SUBSET S
  PROVE  X \in IdSets
  BY BoundedSets DEF IdSets

\* Part of a table, and the rows that changed, are tables.
LEMMA PartOf ==
  ASSUME NEW t \in Types, NEW T \in Table, GoodRows(t, T), NEW S \in SUBSET DOMAIN T
  PROVE  /\ Restrict(T, S) \in Table
         /\ DOMAIN Restrict(T, S) = S
         /\ \A i \in S : Restrict(T, S)[i] = T[i]
         /\ GoodRows(t, Restrict(T, S))
<1>1. S \in IdSets /\ S \subseteq Ids
  BY TableIs, IdSubsets DEF IdSets
<1>2. Restrict(T, S) \in [S -> AnyRow]
  BY TableIs DEF Restrict
<1>3. DOMAIN Restrict(T, S) = S /\ \A i \in S : Restrict(T, S)[i] = T[i]
  BY DEF Restrict
<1>4. GoodRows(t, Restrict(T, S))
  BY <1>1, <1>3 DEF GoodRows, CodesAreUnique
<1> QED BY <1>1, <1>2, <1>3, <1>4, IsTable

\* The upsert of R into T keeps T and brings in the free and the same rows.
Upserts(j, R, T, U) ==
  /\ U \in Table
  /\ DOMAIN U = DOMAIN T \cup FreeIds(R, T)
  /\ \A i \in DOMAIN U : \/ i \in DOMAIN T /\ U[i] = T[i]
                         \/ i \in DOMAIN R /\ U[i] = R[i]
  /\ Keeps(j.mode, T, U)
  /\ \A i \in FreeIds(R, T) \cup SameIds(R, T) :
       i \in DOMAIN U /\ IsThere(R[i].who, U[i].who)

LEMMA UpsertedIs ==
  ASSUME NEW j, NEW T \in Table, NEW R \in Table
  PROVE  Upserts(j, R, T, Upserted(j, R, T))
<1> DEFINE U == Upserted(j, R, T)
<1> DEFINE D == DOMAIN T \cup FreeIds(R, T)
<1>1. DOMAIN T \in IdSets /\ DOMAIN R \in IdSets
  BY TableIs
<1>2. D \in IdSets
  BY <1>1, BoundedSets DEF IdSets, FreeIds
<1>3. DOMAIN U = D
  BY DEF Upserted
<1>4. \A i \in D : U[i] = IF i \notin DOMAIN T
                             \/ (i \in SameIds(R, T) /\ Overwrites(j, R[i], T[i]))
                          THEN R[i] ELSE T[i]
  BY DEF Upserted
<1>5. \A i \in D : \/ i \in DOMAIN T /\ U[i] = T[i]
                   \/ i \in DOMAIN R /\ U[i] = R[i]
  BY <1>4 DEF FreeIds, SameIds
<1>6. U \in [D -> AnyRow]
  <2>1. U = [i \in D |-> U[i]]
    BY DEF Upserted
  <2>2. \A i \in D : U[i] \in AnyRow
    BY <1>5, TableIs
  <2> QED BY <2>1, <2>2
<1>7. Keeps(j.mode, T, U)
  <2> SUFFICES ASSUME NEW i \in DOMAIN T
               PROVE  /\ i \in D
                      /\ IsThere(T[i].who, U[i].who)
                      /\ j.mode = "newer" => U[i].ver >= T[i].ver
    BY <1>3 DEF Keeps
  <2>1. CASE i \in SameIds(R, T) /\ Overwrites(j, R[i], T[i])
    <3>1. U[i] = R[i] /\ i \in DOMAIN R
      BY <2>1, <1>4 DEF SameIds
    <3>2. SameKey(R[i].who, T[i].who)
      BY <2>1 DEF SameIds
    <3>3. R[i].ver \in Nat /\ T[i].ver \in Nat
      BY <3>1, TableIs, RowIs
    <3>4. j.mode = "newer" => R[i].ver >= T[i].ver
      BY <2>1, <3>3 DEF Overwrites
    <3>5. IsThere(T[i].who, R[i].who)
      BY <3>2, Known
    <3> QED BY <3>1, <3>4, <3>5
  <2>2. CASE ~(i \in SameIds(R, T) /\ Overwrites(j, R[i], T[i]))
    <3>1. U[i] = T[i]
      BY <2>2, <1>4
    <3>2. T[i].ver \in Nat /\ IsThere(T[i].who, T[i].who)
      BY TableIs, RowIs, Known
    <3> QED BY <3>1, <3>2
  <2> QED BY <2>1, <2>2
<1>8. ASSUME NEW i \in FreeIds(R, T) \cup SameIds(R, T)
      PROVE  i \in D /\ IsThere(R[i].who, U[i].who)
  <2>1. i \in D
    BY DEF FreeIds, SameIds
  <2>2. CASE U[i] = R[i]
    BY <2>1, <2>2, Known
  <2>3. CASE U[i] # R[i]
    <3>1. U[i] = T[i] /\ i \in DOMAIN T
      BY <2>1, <2>3, <1>5
    <3>2. i \in SameIds(R, T)
      BY <3>1 DEF FreeIds
    <3>3. SameKey(R[i].who, T[i].who)
      BY <3>2 DEF SameIds
    <3> QED BY <2>1, <3>1, <3>3, Known
  <2> QED BY <2>2, <2>3
<1> HIDE DEF U
<1>9. U \in Table
  BY <1>2, <1>6, IsTable
<1>10. Upserts(j, R, T, U)
  BY <1>3, <1>5, <1>7, <1>8, <1>9 DEF Upserts
<1> QED BY <1>10 DEF U

\* The rows at new ids are those of R, and every one is there.
Relocates(U, R, S, at, V) ==
  /\ V \in Table
  /\ DOMAIN V = DOMAIN U \cup Range(at)
  /\ \A k \in DOMAIN U : V[k] = U[k]
  /\ \A k \in DOMAIN V \ DOMAIN U : \E i \in S : at[i] = k /\ V[k] = R[i]
  /\ \A i \in S : at[i] \in DOMAIN V /\ V[at[i]] = R[i]

LEMMA RelocatedIs ==
  ASSUME NEW U \in Table, NEW R \in Table, NEW S \in SUBSET DOMAIN R,
         NEW at, at = NewIds(S, U)
  PROVE  Relocates(U, R, S, at, Relocated(U, R, at))
<1> DEFINE V == Relocated(U, R, at)
<1> DEFINE D == DOMAIN U \cup Range(at)
<1>1. S \in IdSets
  BY TableIs, IdSubsets
<1>2. /\ at \in [S -> Ids]
      /\ \A i \in S : at[i] \notin DOMAIN U
      /\ \A i, k \in S : at[i] = at[k] => i = k
      /\ Range(at) \in IdSets
  BY <1>1, NewIdsAre
<1>3. D \in IdSets
  BY <1>2, TableIs, BoundedSets DEF IdSets
<1>4. DOMAIN V = D /\ \A k \in DOMAIN U : V[k] = U[k]
  BY DEF Relocated
<1>5. \A k \in D \ DOMAIN U : V[k] = R[CHOOSE i \in DOMAIN at : at[i] = k]
  BY DEF Relocated
<1>6. ASSUME NEW k \in D \ DOMAIN U PROVE \E i \in S : at[i] = k /\ V[k] = R[i]
  <2>1. \E i \in S : at[i] = k
    BY <1>2 DEF Range
  <2>2. (CHOOSE i \in DOMAIN at : at[i] = k) \in S
          /\ at[CHOOSE i \in DOMAIN at : at[i] = k] = k
    BY <2>1, <1>2
  <2> QED BY <2>2, <1>5
<1>7. ASSUME NEW i \in S PROVE at[i] \in D /\ V[at[i]] = R[i]
  <2>1. at[i] \in Range(at) /\ at[i] \notin DOMAIN U
    BY <1>2 DEF Range
  <2>2. PICK k \in S : at[k] = at[i] /\ V[at[i]] = R[k]
    BY <2>1, <1>6
  <2> QED BY <2>1, <2>2, <1>2
<1>8. V \in [D -> AnyRow]
  <2>1. V = [k \in D |-> V[k]]
    BY DEF Relocated
  <2>2. \A k \in D : V[k] \in AnyRow
    BY <1>4, <1>6, TableIs
  <2> QED BY <2>1, <2>2
<1> HIDE DEF V
<1>9. V \in Table
  BY <1>3, <1>8, IsTable
<1>10. Relocates(U, R, S, at, V)
  BY <1>4, <1>6, <1>7, <1>9 DEF Relocates
<1> QED BY <1>10 DEF V

(***************************************************************************)
(* Requests.                                                               *)
(***************************************************************************)
Waits == [pc : {"wait"}, m : Machines, k : Nat, todo : Seq(Types), mode : Modes]
Imports ==
  [pc : {"import"}, m : Machines, k : Nat, todo : Seq(Types), mode : Modes,
   tables : Store, done : SUBSET Types, moved : [Types -> Moves],
   failed : SUBSET Types, fresh : BOOLEAN, wrote : BOOLEAN]
Jobs == {NoJob} \cup Waits \cup Imports

LEMMA JobIs ==
  /\ \A j \in Jobs : /\ j \in Waits <=> j.pc = "wait"
                     /\ j \in Imports <=> j.pc = "import"
                     /\ j = NoJob <=> j.pc = "idle"
                     /\ j # NoJob => j.m \in Machines /\ j.k \in Nat
  /\ \A j \in Imports : /\ [j EXCEPT !.fresh = FALSE] \in Imports
                        /\ [j EXCEPT !.fresh = FALSE].m = j.m
<1>1. \A j \in Waits : j.pc = "wait" /\ j.m \in Machines /\ j.k \in Nat
  BY DEF Waits
<1>2. \A j \in Imports : j.pc = "import" /\ j.m \in Machines /\ j.k \in Nat
  BY DEF Imports
<1>3. NoJob.pc = "idle"
  BY DEF NoJob
<1>4. \A j \in Imports : /\ [j EXCEPT !.fresh = FALSE] \in Imports
                         /\ [j EXCEPT !.fresh = FALSE].m = j.m
  BY DEF Imports
<1>5. \A j \in Jobs : /\ j \in Waits <=> j.pc = "wait"
                      /\ j \in Imports <=> j.pc = "import"
                      /\ j = NoJob <=> j.pc = "idle"
                      /\ j # NoJob => j.m \in Machines /\ j.k \in Nat
  BY <1>1, <1>2, <1>3 DEF Jobs
<1> QED BY <1>4, <1>5

\* Where the row of the package that has id i came to be.
At(j, t, i) == IF i \in DOMAIN j.moved[t] THEN j.moved[t][i] ELSE i
LandedAt(w, k, T) == k \in DOMAIN T /\ IsThere(w, T[k].who)
Landed(g, j, t) ==
  \A i \in DOMAIN Accepted(g, t) :
    LandedAt(g[t][i].who, At(j, t, i), j.tables[t])

\* Whatever was written without an error is there, and the map of moved ids
\* speaks of what was written only.
AllLanded(g, j) ==
  \A t \in Types : /\ t \in j.done \ j.failed => Landed(g, j, t)
                   /\ t \notin j.done => DOMAIN j.moved[t] = {}

LEMMA AcceptedIs ==
  ASSUME NEW t \in Types, NEW g \in Store, GoodRows(t, g[t])
  PROVE  /\ Accepted(g, t) \in Table
         /\ DOMAIN Accepted(g, t) \subseteq DOMAIN g[t]
         /\ \A i \in DOMAIN Accepted(g, t) : Accepted(g, t)[i] = g[t][i]
         /\ GoodRows(t, Accepted(g, t))
<1> DEFINE S == {i \in DOMAIN g[t] : g[t][i].who \notin Invalid}
<1>1. g[t] \in Table
  BY DEF Store
<1>2. S \in SUBSET DOMAIN g[t]
  OBVIOUS
<1>3. Accepted(g, t) = Restrict(g[t], S)
  BY DEF Accepted
<1> HIDE DEF S
<1> QED BY <1>1, <1>2, <1>3, PartOf

LEMMA RowsIs ==
  ASSUME NEW j, NEW t \in Types, j.moved \in [Types -> Moves],
         PackageOf(j) \in Store, GoodRows(t, PackageOf(j)[t])
  PROVE  LET A == Accepted(PackageOf(j), t)
             R == Rows(j, t)
         IN
         /\ R \in Table
         /\ DOMAIN R = DOMAIN A
         /\ GoodRows(t, R)
         /\ \A i \in DOMAIN A :
              /\ R[i].who = PackageOf(j)[t][i].who
              /\ t = "projects" /\ PackageOf(j)[t][i].up \in DOMAIN j.moved["villages"]
                   => R[i].up = j.moved["villages"][PackageOf(j)[t][i].up]
              /\ t = "projects" /\ PackageOf(j)[t][i].up \notin DOMAIN j.moved["villages"]
                   => R[i].up = PackageOf(j)[t][i].up
<1> DEFINE A == Accepted(PackageOf(j), t)
<1> DEFINE R == Rows(j, t)
<1> DEFINE V == j.moved["villages"]
<1>1. /\ A \in Table /\ GoodRows(t, A)
      /\ \A i \in DOMAIN A : A[i] = PackageOf(j)[t][i]
  BY AcceptedIs
<1>2. \A i \in DOMAIN V : V[i] \in Nat
  <2>1. V \in Moves
    BY DEF Types
  <2> HIDE DEF V
  <2>2. PICK S \in SUBSET Ids : V \in [S -> Ids]
    BY <2>1 DEF Moves
  <2> QED BY <2>2 DEF Ids
<1>3. DOMAIN R = DOMAIN A /\ R = [i \in DOMAIN A |-> R[i]]
  BY DEF Rows
<1>4. \A i \in DOMAIN A : R[i] = IF t = "projects" THEN Repointed(j, A[i]) ELSE A[i]
  BY DEF Rows
<1>5. ASSUME NEW i \in DOMAIN A
      PROVE  /\ A[i] \in Row(t)
             /\ R[i] \in Row(t)
             /\ R[i].who = A[i].who
             /\ t = "projects" /\ A[i].up \in DOMAIN V => R[i].up = V[A[i].up]
             /\ t = "projects" /\ A[i].up \notin DOMAIN V => R[i].up = A[i].up
  <2>1. A[i] \in Row(t)
    BY <1>1 DEF GoodRows
  <2>2. CASE t = "projects" /\ A[i].up \in DOMAIN V
    <3>1. R[i] = [A[i] EXCEPT !.up = V[A[i].up]]
      BY <1>4, <2>2 DEF Repointed
    <3>2. V[A[i].up] \in Nat
      BY <1>2, <2>2
    <3> HIDE DEF A, R, V
    <3> QED BY <2>1, <2>2, <3>1, <3>2 DEF Row
  <2>3. CASE ~(t = "projects" /\ A[i].up \in DOMAIN V)
    <3>1. R[i] = A[i]
      BY <1>4, <2>3 DEF Repointed
    <3> QED BY <2>1, <2>3, <3>1
  <2> QED BY <2>2, <2>3
<1> HIDE DEF A, R, V
<1>6. R \in Table
  <2>1. DOMAIN A \in IdSets
    BY <1>1, TableIs
  <2>2. \A i \in DOMAIN A : R[i] \in AnyRow
    BY <1>5 DEF AnyRow, Types
  <2> QED BY <1>3, <2>1, <2>2, IsTable
<1>7. GoodRows(t, R)
  BY <1>1, <1>3, <1>5 DEF GoodRows, CodesAreUnique
<1>8. \A i \in DOMAIN A :
        /\ R[i].who = PackageOf(j)[t][i].who
        /\ t = "projects" /\ PackageOf(j)[t][i].up \in DOMAIN V
             => R[i].up = V[PackageOf(j)[t][i].up]
        /\ t = "projects" /\ PackageOf(j)[t][i].up \notin DOMAIN V
             => R[i].up = PackageOf(j)[t][i].up
  BY <1>1, <1>5
<1> QED BY <1>3, <1>6, <1>7, <1>8 DEF A, R, V

\* What is known of an import that wrote one more type: V is the table after it,
\* at the ids that it gave, and failed that some row was not written.
Writes(j, t, V, at, failed) ==
  /\ Imported(j, t) =
       [j EXCEPT !.todo = Tail(j.todo), !.done = j.done \cup {t},
                 !.tables[t] = V, !.moved[t] = Remapped(j.moved[t], at),
                 !.failed = IF failed THEN j.failed \cup {t} ELSE j.failed,
                 !.wrote = j.wrote \/ DOMAIN Rows(j, t) # {}]
  /\ Keeps(j.mode, j.tables[t], V)
  /\ GoodRows(t, V)
  /\ \A k \in DOMAIN V : HasParent(V[k], j.tables["villages"])
  /\ \A k \in DOMAIN V :
       \/ k \in DOMAIN j.tables[t] /\ V[k] = j.tables[t][k]
       \/ \E i \in DOMAIN Rows(j, t) : V[k] = Rows(j, t)[i]
  /\ ~failed => \A i \in DOMAIN Rows(j, t) :
       LandedAt(Rows(j, t)[i].who, IF i \in DOMAIN at THEN at[i] ELSE i, V)

LEMMA ImportedRows ==
  ASSUME NEW j \in Imports, NEW t \in Types,
         PackageOf(j) \in Store, GoodRows(t, PackageOf(j)[t]), GoodTables(j.tables)
  PROVE  \E V \in Table, at \in Moves, failed \in BOOLEAN : Writes(j, t, V, at, failed)
<1> DEFINE R == Rows(j, t)
<1> DEFINE T == j.tables[t]
<1> DEFINE succeeds == GroupSucceeds(j, t, R, T)
<1> DEFINE U == IF succeeds THEN Upserted(j, R, T) ELSE T
<1> DEFINE movable == Relocatable(j, t, R, T, U)
<1> DEFINE at == NewIds(movable, U)
<1> DEFINE V == Relocated(U, R, at)
<1> DEFINE failed == ~(succeeds /\ movable = TakenIds(R, T))
<1>1. /\ T \in Table /\ GoodRows(t, T)
      /\ \A k \in DOMAIN T : HasParent(T[k], j.tables["villages"])
  BY DEF Imports, Store, GoodTables
<1>2. R \in Table /\ GoodRows(t, R)
  BY RowsIs DEF Imports
<1>3. Imported(j, t) =
        [j EXCEPT !.todo = Tail(j.todo), !.done = j.done \cup {t},
                  !.tables[t] = V, !.moved[t] = Remapped(j.moved[t], at),
                  !.failed = IF failed THEN j.failed \cup {t} ELSE j.failed,
                  !.wrote = j.wrote \/ DOMAIN R # {}]
  BY DEF Imported
<1> HIDE DEF R, T
<1>4. /\ U \in Table
      /\ Keeps(j.mode, T, U)
      /\ \A i \in DOMAIN U : \/ i \in DOMAIN T /\ U[i] = T[i]
                             \/ i \in DOMAIN R /\ U[i] = R[i]
      /\ succeeds => \A i \in FreeIds(R, T) \cup SameIds(R, T) :
           i \in DOMAIN U /\ IsThere(R[i].who, U[i].who)
  <2>1. CASE succeeds
    <3>1. U = Upserted(j, R, T)
      BY <2>1
    <3>2. T \in Table /\ R \in Table
      BY <1>1, <1>2
    <3> HIDE DEF U, R, T, succeeds
    <3>3. Upserts(j, R, T, U)
      BY <3>1, <3>2, UpsertedIs
    <3> QED BY <3>3 DEF Upserts
  <2>2. CASE ~succeeds
    <3>1. Keeps(j.mode, T, T)
      <4>1. \A i \in DOMAIN T : T[i].ver \in Nat /\ IsThere(T[i].who, T[i].who)
        BY <1>1, TableIs, RowIs, Known
      <4> QED BY <4>1 DEF Keeps
    <3> QED BY <1>1, <2>2, <3>1
  <2> QED BY <2>1, <2>2
<1>5. /\ CodesAreUnique(t, U)
      /\ \A k \in DOMAIN U : HasParent(U[k], j.tables["villages"])
  BY <1>1 DEF GroupSucceeds, GoodRows
<1> HIDE DEF U
<1>6. movable \in SUBSET DOMAIN R /\ movable \subseteq TakenIds(R, T)
  BY DEF Relocatable, TakenIds
<1>7. \A i \in movable : /\ CodeIsFree(t, R[i].who, U)
                         /\ HasParent(R[i], j.tables["villages"])
  BY DEF Relocatable
<1> HIDE DEF succeeds, movable
<1>8. at \in Moves /\ DOMAIN at = movable
  <2>1. movable \in IdSets
    BY <1>2, <1>6, TableIs, IdSubsets
  <2>2. at \in [movable -> Ids] /\ movable \in SUBSET Ids
    BY <1>4, <2>1, NewIdsAre DEF IdSets
  <2> HIDE DEF at
  <2> QED BY <2>2 DEF Moves
<1>9. /\ V \in Table
      /\ DOMAIN V = DOMAIN U \cup Range(at)
      /\ \A k \in DOMAIN U : V[k] = U[k]
      /\ \A k \in DOMAIN V \ DOMAIN U : \E i \in movable : at[i] = k /\ V[k] = R[i]
      /\ \A i \in movable : at[i] \in DOMAIN V /\ V[at[i]] = R[i]
  <2>1. U \in Table /\ R \in Table /\ movable \in SUBSET DOMAIN R
    BY <1>2, <1>4, <1>6
  <2>2. at = NewIds(movable, U) /\ V = Relocated(U, R, at)
    OBVIOUS
  <2> HIDE DEF U, R, movable, at, V
  <2>3. Relocates(U, R, movable, at, V)
    BY <2>1, <2>2, RelocatedIs
  <2> QED BY <2>3 DEF Relocates
<1> HIDE DEF at, V
<1>10. Keeps(j.mode, T, V)
  BY <1>4, <1>9 DEF Keeps
<1>11. \A k \in DOMAIN V : \/ k \in DOMAIN T /\ V[k] = T[k]
                           \/ \E i \in DOMAIN R : V[k] = R[i]
  BY <1>4, <1>6, <1>9
<1>12. \A k \in DOMAIN V : V[k] \in Row(t)
  BY <1>1, <1>2, <1>11 DEF GoodRows
<1>13. CodesAreUnique(t, V)
  <2> SUFFICES ASSUME t = "projects", NEW i \in DOMAIN V, NEW k \in DOMAIN V,
                      SameKey(V[i].who, V[k].who)
               PROVE  i = k
    BY DEF CodesAreUnique
  <2>1. CASE i \in DOMAIN U /\ k \in DOMAIN U
    BY <1>5, <1>9, <2>1 DEF CodesAreUnique
  <2>2. CASE i \in DOMAIN U /\ k \notin DOMAIN U
    <3>1. PICK x \in movable : V[k] = R[x]
      BY <1>9, <2>2
    <3>2. V[i] = U[i] /\ ~SameKey(R[x].who, U[i].who)
      BY <1>7, <1>9, <2>2 DEF CodeIsFree
    <3> QED BY <3>1, <3>2 DEF SameKey
  <2>3. CASE i \notin DOMAIN U /\ k \in DOMAIN U
    <3>1. PICK x \in movable : V[i] = R[x]
      BY <1>9, <2>3
    <3>2. V[k] = U[k] /\ ~SameKey(R[x].who, U[k].who)
      BY <1>7, <1>9, <2>3 DEF CodeIsFree
    <3> QED BY <3>1, <3>2 DEF SameKey
  <2>4. CASE i \notin DOMAIN U /\ k \notin DOMAIN U
    <3>1. PICK x \in movable : at[x] = i /\ V[i] = R[x]
      BY <1>9, <2>4
    <3>2. PICK y \in movable : at[y] = k /\ V[k] = R[y]
      BY <1>9, <2>4
    <3>3. x = y
      BY <1>2, <1>6, <3>1, <3>2 DEF GoodRows, CodesAreUnique
    <3> QED BY <3>1, <3>2, <3>3
  <2> QED BY <2>1, <2>2, <2>3, <2>4
<1>14. GoodRows(t, V)
  BY <1>9, <1>12, <1>13, TableIs DEF GoodRows
<1>15. \A k \in DOMAIN V : HasParent(V[k], j.tables["villages"])
  BY <1>5, <1>7, <1>9
<1>16. ASSUME ~failed, NEW i \in DOMAIN R
       PROVE  LandedAt(R[i].who, IF i \in DOMAIN at THEN at[i] ELSE i, V)
  <2>1. CASE i \in DOMAIN at
    BY <1>8, <1>9, <2>1, Known DEF LandedAt
  <2>2. CASE i \notin DOMAIN at
    <3>1. succeeds /\ i \in FreeIds(R, T) \cup SameIds(R, T)
      BY <1>8, <1>16, <2>2 DEF FreeIds, TakenIds
    <3>2. i \in DOMAIN U /\ IsThere(R[i].who, U[i].who)
      BY <1>4, <3>1
    <3> QED BY <1>9, <2>2, <3>2 DEF LandedAt
  <2> QED BY <2>1, <2>2
<1>17. failed \in BOOLEAN
  OBVIOUS
<1> HIDE DEF failed
<1>18. V \in Table /\ at \in Moves /\ failed \in BOOLEAN
  BY <1>8, <1>9, <1>17
<1> USE <1>18
<1> WITNESS V \in Table, at \in Moves, failed \in BOOLEAN
<1> QED BY <1>3, <1>10, <1>11, <1>14, <1>15, <1>16 DEF R, T, Writes

LEMMA GoodTablesWith ==
  ASSUME NEW mode, NEW D \in Store, NEW t \in Types, NEW V \in Table, GoodTables(D),
         GoodRows(t, V), \A k \in DOMAIN V : HasParent(V[k], D["villages"]),
         Keeps(mode, D[t], V)
  PROVE  /\ [D EXCEPT ![t] = V] \in Store
         /\ GoodTables([D EXCEPT ![t] = V])
<1> DEFINE E == [D EXCEPT ![t] = V]
<1>1. E \in Store /\ E[t] = V /\ \A s \in Types \ {t} : E[s] = D[s]
  BY DEF Store
<1>2. DOMAIN D["villages"] \subseteq DOMAIN E["villages"]
  BY <1>1 DEF Keeps, Types
<1> HIDE DEF E
<1>3. ASSUME NEW s \in Types
      PROVE  GoodRows(s, E[s]) /\ \A k \in DOMAIN E[s] : HasParent(E[s][k], E["villages"])
  <2>1. CASE s = t
    BY <1>1, <1>2, <2>1 DEF HasParent
  <2>2. CASE s # t
    BY <1>1, <1>2, <2>2 DEF GoodTables, HasParent
  <2> QED BY <2>1, <2>2
<1> QED BY <1>1, <1>3 DEF E, GoodTables

LEMMA RemappedIs ==
  ASSUME NEW old \in Moves, NEW new \in Moves
  PROVE  Remapped(old, new) \in Moves
<1>1. PICK X \in SUBSET Ids : old \in [X -> Ids]
  BY DEF Moves
<1>2. PICK Y \in SUBSET Ids : new \in [Y -> Ids]
  BY DEF Moves
<1>3. Remapped(old, new) \in [X \cup Y -> Ids]
  BY <1>1, <1>2 DEF Remapped
<1>4. X \cup Y \in SUBSET Ids
  OBVIOUS
<1> QED BY <1>3, <1>4 DEF Moves

\* One more type: the tables keep what they had, stay good, and what was
\* written without an error is there.
LEMMA ImportedIs ==
  ASSUME NEW j \in Imports, j.todo # <<>>, NEW t \in Types, t = Head(j.todo),
         PackageOf(j) \in Store, GoodRows(t, PackageOf(j)[t]), GoodTables(j.tables),
         AllLanded(PackageOf(j), j)
  PROVE  /\ Imported(j, t) \in Imports
         /\ Imported(j, t).m = j.m
         /\ Imported(j, t).k = j.k
         /\ Imported(j, t).mode = j.mode
         /\ Imported(j, t).fresh = j.fresh
         /\ GoodTables(Imported(j, t).tables)
         /\ \A s \in Types : Keeps(j.mode, j.tables[s], Imported(j, t).tables[s])
         /\ AllLanded(PackageOf(j), Imported(j, t))
<1> DEFINE R == Rows(j, t)
<1> DEFINE J == Imported(j, t)
<1> DEFINE g == PackageOf(j)
<1>0. PICK V \in Table, at \in Moves, failed \in BOOLEAN : Writes(j, t, V, at, failed)
  BY ImportedRows
<1>1. /\ J = [j EXCEPT !.todo = Tail(j.todo), !.done = j.done \cup {t},
                      !.tables[t] = V, !.moved[t] = Remapped(j.moved[t], at),
                      !.failed = IF failed THEN j.failed \cup {t} ELSE j.failed,
                      !.wrote = j.wrote \/ DOMAIN R # {}]
      /\ Keeps(j.mode, j.tables[t], V)
      /\ GoodRows(t, V)
      /\ \A k \in DOMAIN V : HasParent(V[k], j.tables["villages"])
      /\ ~failed => \A i \in DOMAIN R :
           LandedAt(R[i].who, IF i \in DOMAIN at THEN at[i] ELSE i, V)
  BY <1>0 DEF Writes
<1>2. /\ DOMAIN R = DOMAIN Accepted(g, t)
      /\ \A i \in DOMAIN R : R[i].who = g[t][i].who
  BY RowsIs DEF Imports
<1> HIDE DEF J, R, g
<1>3. /\ j.tables \in Store
      /\ j.moved \in [Types -> Moves]
      /\ j.todo \in Seq(Types)
      /\ j.done \in SUBSET Types
      /\ j.failed \in SUBSET Types
      /\ j.wrote \in BOOLEAN
  BY DEF Imports
<1>4. /\ [j.tables EXCEPT ![t] = V] \in Store
      /\ GoodTables([j.tables EXCEPT ![t] = V])
  BY <1>1, <1>3, GoodTablesWith
<1>5. /\ J.m = j.m /\ J.k = j.k /\ J.mode = j.mode /\ J.fresh = j.fresh
      /\ J.pc = "import"
      /\ J.todo = Tail(j.todo)
      /\ J.done = j.done \cup {t}
      /\ J.tables = [j.tables EXCEPT ![t] = V]
      /\ J.moved = [j.moved EXCEPT ![t] = Remapped(j.moved[t], at)]
      /\ J.failed = IF failed THEN j.failed \cup {t} ELSE j.failed
      /\ J.wrote = (j.wrote \/ DOMAIN R # {})
  BY <1>1 DEF Imports
<1>6. J \in Imports
  <2>1. J.moved \in [Types -> Moves]
    <3>1. Remapped(j.moved[t], at) \in Moves
      BY <1>3, RemappedIs
    <3> QED BY <1>3, <1>5, <3>1
  <2>2. J.todo \in Seq(Types)
    BY <1>3, <1>5
  <2>3. J.wrote \in BOOLEAN /\ J.done \in SUBSET Types /\ J.failed \in SUBSET Types
    BY <1>3, <1>5
  <2>4. J = [pc |-> J.pc, m |-> J.m, k |-> J.k, todo |-> J.todo, mode |-> J.mode,
             tables |-> J.tables, done |-> J.done, moved |-> J.moved,
             failed |-> J.failed, fresh |-> J.fresh, wrote |-> J.wrote]
    BY <1>1 DEF Imports
  <2> QED BY <1>4, <1>5, <2>1, <2>2, <2>3, <2>4 DEF Imports
<1>7. ASSUME NEW s \in Types PROVE Keeps(j.mode, j.tables[s], J.tables[s])
  <2>1. CASE s = t
    BY <1>1, <1>3, <1>5, <2>1 DEF Store
  <2>2. CASE s # t
    <3>1. J.tables[s] = j.tables[s] /\ j.tables[s] \in Table
      BY <1>3, <1>5, <2>2 DEF Store
    <3>2. \A i \in DOMAIN j.tables[s] :
            /\ j.tables[s][i].ver \in Nat
            /\ IsThere(j.tables[s][i].who, j.tables[s][i].who)
      BY <3>1, TableIs, RowIs, Known
    <3> QED BY <3>1, <3>2 DEF Keeps
  <2> QED BY <2>1, <2>2
<1>8. ASSUME NEW s \in Types
      PROVE  /\ s \in J.done \ J.failed => Landed(g, J, s)
             /\ s \notin J.done => DOMAIN J.moved[s] = {}
  <2>1. CASE s # t
    <3>1. J.tables[s] = j.tables[s] /\ J.moved[s] = j.moved[s]
      BY <1>3, <1>5, <2>1 DEF Store
    <3>2. s \in J.done <=> s \in j.done
      BY <1>5, <2>1
    <3>3. s \in j.failed => s \in J.failed
      BY <1>5
    <3>4. Landed(g, j, s) => Landed(g, J, s)
      BY <3>1 DEF Landed, At
    <3> QED BY <3>1, <3>2, <3>3, <3>4 DEF AllLanded, g
  <2>2. CASE s = t
    <3>0. s \in J.done
      BY <1>5, <2>2
    <3> SUFFICES ASSUME s \notin J.failed,
                        NEW i \in DOMAIN Accepted(g, t)
                 PROVE  LandedAt(g[t][i].who, At(J, t, i), V)
      BY <1>3, <1>5, <2>2, <3>0 DEF Landed, Store
    <3>1. ~failed /\ t \notin j.failed
      BY <1>5, <2>2
    <3>2. LandedAt(g[t][i].who, IF i \in DOMAIN at THEN at[i] ELSE i, V)
      BY <1>1, <1>2, <3>1
    <3>3. J.moved[t] = Remapped(j.moved[t], at)
      BY <1>3, <1>5
    <3>4. CASE i \in DOMAIN at
      BY <3>2, <3>3, <3>4 DEF At, Remapped
    <3>5. CASE i \notin DOMAIN at /\ i \notin DOMAIN j.moved[t]
      BY <3>2, <3>3, <3>5 DEF At, Remapped
    <3>6. CASE i \notin DOMAIN at /\ i \in DOMAIN j.moved[t]
      <4>1. At(J, t, i) = j.moved[t][i] /\ At(j, t, i) = j.moved[t][i]
        BY <3>3, <3>6 DEF At, Remapped
      <4>2. t \in j.done \ j.failed
        BY <3>1, <3>6 DEF AllLanded
      <4>3. LandedAt(g[t][i].who, j.moved[t][i], j.tables[t])
        BY <4>1, <4>2 DEF AllLanded, Landed, g
      <4>4. Keeps(j.mode, j.tables[t], V)
        BY <1>1
      <4> QED BY <4>1, <4>3, <4>4, Known DEF LandedAt, Keeps
    <3> QED BY <3>4, <3>5, <3>6
  <2> QED BY <2>1, <2>2
<1> QED BY <1>4, <1>5, <1>6, <1>7, <1>8 DEF J, g, AllLanded

(***************************************************************************)
(* The invariant.                                                          *)
(***************************************************************************)
Record == [pkg : Nat, status : {"validated", "imported", "failed"}, made : Nat]
Exporting == [busy : BOOLEAN, todo : Seq(Types), since : Nat, rows : Store]
Answers == [pkg : Nat, types : SUBSET Types, mode : Modes]

Shape ==
  /\ now \in Nat
  /\ db \in [Machines -> Store]
  /\ packages \in Seq(Store)
  /\ records \in [Machines -> Seq(Record)]
  /\ export \in [Machines -> Exporting]
  /\ job \in [Clients -> Jobs]
  /\ lock \in [Machines -> SUBSET Clients]
  /\ receipts \in [Machines -> SUBSET Answers]

MachinesGood == \A m \in Machines : GoodTables(db[m])
FilesGood ==
  /\ \A g \in DOMAIN packages, t \in Types : GoodRows(t, packages[g][t])
  /\ \A m \in Machines, t \in Types : GoodRows(t, export[m].rows[t])
RecordsName ==
  /\ \A m \in Machines : \A k \in DOMAIN records[m] :
       records[m][k].pkg \in DOMAIN packages
  /\ \A m \in Machines : \A r \in receipts[m] : r.pkg \in DOMAIN packages

\* A request has its package; an import has the lock, good tables, every row of
\* the machine as long as its snapshot is fresh, and what it wrote.
ClientSound(c) ==
  /\ job[c] # NoJob => job[c].k \in DOMAIN records[job[c].m]
  /\ Importing(c) =>
       /\ lock[job[c].m] = {c}
       /\ GoodTables(job[c].tables)
       /\ job[c].fresh => \A t \in Types :
            Keeps(job[c].mode, db[job[c].m][t], job[c].tables[t])
       /\ AllLanded(PackageOf(job[c]), job[c])

PInv ==
  /\ Shape
  /\ MachinesGood
  /\ FilesGood
  /\ RecordsName
  /\ \A c \in Clients : ClientSound(c)
  /\ ReceiptIsTrue

LEMMA EmptyIs ==
  /\ Empty \in Table /\ NoRows \in Store /\ NoRows \in [Types -> Moves]
  /\ \A t \in Types : NoRows[t] = Empty /\ DOMAIN NoRows[t] = {} /\ GoodRows(t, NoRows[t])
<1>1. {} \in IdSets
  <2>1. {} \subseteq 1..0 /\ 0 \in Nat
    OBVIOUS
  <2> QED BY <2>1 DEF IdSets, Bounded
<1>2. Empty \in [{} -> AnyRow] /\ Empty \in [{} -> Ids] /\ DOMAIN Empty = {}
  BY DEF Empty
<1>3. Empty \in Table
  BY <1>1, <1>2, IsTable
<1>4. Empty \in Moves
  BY <1>2 DEF Moves
<1> QED BY <1>2, <1>3, <1>4 DEF NoRows, Store, GoodRows, CodesAreUnique

LEMMA PInvInit == PackagesInit => PInv
<1> SUFFICES ASSUME PackagesInit PROVE PInv
  OBVIOUS
<1> USE DEF PackagesInit
<1>1. \A T \in Seq(AnyRow) : T \in Table
  <2> SUFFICES ASSUME NEW T \in Seq(AnyRow) PROVE T \in Table
    OBVIOUS
  <2>1. PICK n \in Nat : T \in [1..n -> AnyRow]
    OBVIOUS
  <2>2. 1..n \in IdSets
    <3>1. 1..n \subseteq Ids /\ 1..n \subseteq 1..n
      BY DEF Ids
    <3> QED BY <3>1 DEF IdSets, Bounded
  <2> QED BY <2>1, <2>2, IsTable
<1>2. db \in [Machines -> Store]
  BY <1>1, StartAssumption DEF Store, AnyRow
<1>3. export \in [Machines -> Exporting]
  <2>1. NoExport \in Exporting
    BY EmptyIs DEF NoExport, Exporting
  <2> QED BY <2>1
<1>4. job \in [Clients -> Jobs] /\ \A c \in Clients : job[c] = NoJob /\ ~Importing(c)
  BY DEF Jobs, NoJob, Importing
<1>5. Shape
  BY <1>2, <1>3, <1>4 DEF Shape
<1>6. MachinesGood
  BY StartAssumption DEF MachinesGood
<1>7. FilesGood
  <2>1. \A m \in Machines : export[m].rows = NoRows
    BY DEF NoExport
  <2> QED BY <2>1, EmptyIs DEF FilesGood
<1>8. RecordsName /\ ReceiptIsTrue
  BY DEF RecordsName, ReceiptIsTrue
<1>9. \A c \in Clients : ClientSound(c)
  BY <1>4 DEF ClientSound
<1> QED BY <1>5, <1>6, <1>7, <1>8, <1>9 DEF PInv

(***************************************************************************)
(* What a step leaves as it was.                                           *)
(***************************************************************************)
\* Packages are never changed and records never name another one.
Grows ==
  /\ \A g \in DOMAIN packages : g \in DOMAIN packages' /\ packages'[g] = packages[g]
  /\ \A m \in Machines : \A k \in DOMAIN records[m] :
       k \in DOMAIN records'[m] /\ records'[m][k].pkg = records[m][k].pkg

RowsStay == \A m \in Machines, t \in Types : Keeps("keep", db[m][t], db'[m][t])

\* The request of c ends or goes on as it was, its snapshot stale if the rows
\* of its machine changed.
Carried(c) ==
  \/ job'[c] = NoJob
  \/ job'[c] = job[c] /\ ~Importing(c)
  \/ /\ Importing(c)
     /\ job'[c] \in {job[c], [job[c] EXCEPT !.fresh = FALSE]}
     /\ lock'[job[c].m] = lock[job[c].m]
     /\ job'[c].fresh => db'[job[c].m] = db[job[c].m]

LEMMA PackageStays ==
  ASSUME PInv, Grows, NEW c \in Clients, job[c] # NoJob,
         NEW j, j.m = job[c].m, j.k = job[c].k
  PROVE  /\ j.k \in DOMAIN records'[j.m]
         /\ packages'[records'[j.m][j.k].pkg] = PackageOf(job[c])
         /\ PackageOf(job[c]) \in Store
         /\ \A t \in Types : GoodRows(t, PackageOf(job[c])[t])
<1>1. job[c].m \in Machines /\ job[c].k \in DOMAIN records[job[c].m]
  BY JobIs DEF PInv, Shape, ClientSound
<1>2. records[job[c].m][job[c].k].pkg \in DOMAIN packages
  BY <1>1 DEF PInv, RecordsName
<1>3. \A g \in DOMAIN packages : packages[g] \in Store
  BY DEF PInv, Shape
<1>4. \A t \in Types : GoodRows(t, PackageOf(job[c])[t])
  BY <1>2 DEF PInv, FilesGood, PackageOf
<1> QED BY <1>1, <1>2, <1>3, <1>4 DEF Grows, PackageOf

LEMMA CarriedIs ==
  ASSUME PInv, Grows, NEW c \in Clients, Carried(c)
  PROVE  job'[c] \in Jobs /\ ClientSound(c)'
<1>0. job[c] \in Jobs
  BY DEF PInv, Shape
<1>1. CASE job'[c] = NoJob
  BY <1>1 DEF ClientSound, Importing, NoJob, Jobs
<1>2. CASE job'[c] = job[c] /\ ~Importing(c) /\ job'[c] # NoJob
  BY <1>0, <1>2, PackageStays DEF ClientSound, Importing
<1>3. CASE /\ Importing(c)
           /\ job'[c] \in {job[c], [job[c] EXCEPT !.fresh = FALSE]}
           /\ lock'[job[c].m] = lock[job[c].m]
           /\ job'[c].fresh => db'[job[c].m] = db[job[c].m]
  <2>1. job[c] \in Imports /\ job[c] # NoJob
    BY <1>0, <1>3, JobIs DEF Importing
  <2>2. /\ job'[c].m = job[c].m /\ job'[c].k = job[c].k /\ job'[c].mode = job[c].mode
        /\ job'[c].tables = job[c].tables /\ job'[c].done = job[c].done
        /\ job'[c].moved = job[c].moved /\ job'[c].failed = job[c].failed
        /\ job'[c].pc = "import" /\ job'[c].fresh => job[c].fresh
    BY <1>3, <2>1 DEF Imports
  <2>3. job'[c].k \in DOMAIN records'[job'[c].m]
          /\ packages'[records'[job'[c].m][job'[c].k].pkg] = PackageOf(job[c])
    BY <2>1, <2>2, PackageStays
  <2>4. PackageOf(job[c])' = PackageOf(job[c])
    BY <2>3 DEF PackageOf
  <2>5. /\ lock[job[c].m] = {c}
        /\ GoodTables(job[c].tables)
        /\ job[c].fresh => \A t \in Types :
             Keeps(job[c].mode, db[job[c].m][t], job[c].tables[t])
        /\ AllLanded(PackageOf(job[c]), job[c])
    BY <1>3 DEF PInv, ClientSound
  <2>6. AllLanded(PackageOf(job[c]), job'[c])
    BY <2>2, <2>5 DEF AllLanded, Landed, At
  <2>7. job'[c] \in Jobs
    BY <1>3, <2>1, JobIs DEF Jobs
  <2> QED BY <1>3, <2>2, <2>3, <2>4, <2>5, <2>6, <2>7 DEF ClientSound, Importing
<1> QED BY <1>1, <1>2, <1>3 DEF Carried

LEMMA AgedIs ==
  ASSUME PInv, NEW m \in Machines, job' = Aged(m), lock' = lock,
         \A n \in Machines \ {m} : db'[n] = db[n]
  PROVE  /\ job' = [c \in Clients |-> job'[c]]
         /\ \A c \in Clients : Carried(c)
<1>1. job' = [c \in Clients |-> job'[c]]
  BY DEF Aged
<1>2. ASSUME NEW c \in Clients PROVE Carried(c)
  <2>1. CASE ~Importing(c)
    BY <2>1 DEF Aged, Carried
  <2>2. CASE Importing(c) /\ job[c].m # m
    <3>1. job[c].m \in Machines
      BY <2>2, JobIs DEF PInv, Shape, Importing, NoJob
    <3>2. job'[c] = job[c]
      BY <2>2 DEF Aged
    <3> QED BY <2>2, <3>1, <3>2 DEF Carried
  <2>3. CASE Importing(c) /\ job[c].m = m
    <3>1. job[c] \in Imports
      BY <2>3, JobIs DEF PInv, Shape, Importing
    <3>2. job'[c] = [job[c] EXCEPT !.fresh = FALSE] /\ job'[c].fresh = FALSE
      BY <2>3, <3>1 DEF Aged, Imports
    <3> QED BY <2>3, <3>2 DEF Carried
  <2> QED BY <2>1, <2>2, <2>3
<1> QED BY <1>1, <1>2

LEMMA SameRowsStay ==
  ASSUME NEW T \in Table, NEW mode
  PROVE  Keeps(mode, T, T)
<1>1. \A i \in DOMAIN T : T[i].ver \in Nat /\ IsThere(T[i].who, T[i].who)
  BY TableIs, RowIs, Known
<1> QED BY <1>1 DEF Keeps

LEMMA UnchangedRowsStay == PInv /\ db' = db => RowsStay
  BY SameRowsStay DEF PInv, Shape, Store, RowsStay

\* An answer that was true stays true.
TrueAnswer(m, r) ==
  /\ r.pkg \in DOMAIN packages
  /\ r.mode # "newer" => \A t \in r.types : \A i \in DOMAIN packages[r.pkg][t] :
       \E k \in DOMAIN db[m][t] : IsThere(packages[r.pkg][t][i].who, db[m][t][k].who)

LEMMA ReceiptsStay ==
  ASSUME PInv, Grows, RowsStay, NEW m \in Machines, NEW r \in receipts[m]
  PROVE  TrueAnswer(m, r)'
<1>1. r.pkg \in DOMAIN packages /\ r.types \subseteq Types
  BY DEF PInv, RecordsName, Shape, Answers
<1>2. r.pkg \in DOMAIN packages' /\ packages'[r.pkg] = packages[r.pkg]
  BY <1>1 DEF Grows
<1>3. ASSUME r.mode # "newer", NEW t \in r.types, NEW i \in DOMAIN packages[r.pkg][t]
      PROVE  \E k \in DOMAIN db'[m][t] :
               IsThere(packages[r.pkg][t][i].who, db'[m][t][k].who)
  <2>1. PICK k \in DOMAIN db[m][t] : IsThere(packages[r.pkg][t][i].who, db[m][t][k].who)
    BY <1>3 DEF PInv, ReceiptIsTrue
  <2>2. k \in DOMAIN db'[m][t] /\ IsThere(db[m][t][k].who, db'[m][t][k].who)
    BY <1>1, <2>1 DEF RowsStay, Keeps
  <2>3. IsThere(packages[r.pkg][t][i].who, db'[m][t][k].who)
    BY <2>1, <2>2, Known
  <2> QED BY <2>2, <2>3
<1> QED BY <1>2, <1>3 DEF TrueAnswer

\* What has to be shown of a step.
LEMMA StepKeeps ==
  ASSUME PInv, Grows, RowsStay, receipts' \in [Machines -> SUBSET Answers],
         \A m \in Machines : \A r \in receipts'[m] :
           r \in receipts[m] \/ TrueAnswer(m, r)',
         now' \in Nat, db' \in [Machines -> Store], packages' \in Seq(Store),
         records' \in [Machines -> Seq(Record)], export' \in [Machines -> Exporting],
         lock' \in [Machines -> SUBSET Clients],
         MachinesGood', FilesGood',
         \A m \in Machines : \A k \in DOMAIN records'[m] :
           records'[m][k].pkg \in DOMAIN packages',
         job' = [c \in Clients |-> job'[c]],
         \A c \in Clients : Carried(c) \/ (job'[c] \in Jobs /\ ClientSound(c)')
  PROVE  PInv'
<1>1. \A c \in Clients : job'[c] \in Jobs /\ ClientSound(c)'
  BY CarriedIs
<1>2. Shape'
  BY <1>1 DEF Shape
<1>3. \A m \in Machines : \A r \in receipts'[m] : TrueAnswer(m, r)'
  BY ReceiptsStay
<1>4. RecordsName' /\ ReceiptIsTrue'
  BY <1>3 DEF RecordsName, ReceiptIsTrue, TrueAnswer
<1> QED BY <1>1, <1>2, <1>4 DEF PInv

LEMMA QuietStep ==
  ASSUME PInv, Grows, RowsStay, receipts' = receipts,
         now' \in Nat, db' \in [Machines -> Store], packages' \in Seq(Store),
         records' \in [Machines -> Seq(Record)], export' \in [Machines -> Exporting],
         lock' \in [Machines -> SUBSET Clients],
         MachinesGood', FilesGood',
         \A m \in Machines : \A k \in DOMAIN records'[m] :
           records'[m][k].pkg \in DOMAIN packages',
         job' = [c \in Clients |-> job'[c]],
         \A c \in Clients : Carried(c) \/ (job'[c] \in Jobs /\ ClientSound(c)')
  PROVE  PInv'
<1>1. receipts' \in [Machines -> SUBSET Answers]
  BY DEF PInv, Shape
<1> QED BY <1>1, StepKeeps

(***************************************************************************)
(* The work on a machine, and exports.                                     *)
(***************************************************************************)
LEMMA FewerAreFine ==
  ASSUME PInv, packages' = packages, records' = records
  PROVE  /\ Grows
         /\ packages' \in Seq(Store) /\ records' \in [Machines -> Seq(Record)]
         /\ \A m \in Machines : \A k \in DOMAIN records'[m] :
              records'[m][k].pkg \in DOMAIN packages'
  BY DEF PInv, Shape, Grows, RecordsName

\* A table is replaced by one that keeps its rows.
LEMMA WorkIs ==
  ASSUME PInv, NEW m \in Machines, NEW t \in Types, NEW T \in Table,
         GoodRows(t, T), \A k \in DOMAIN T : HasParent(T[k], db[m]["villages"]),
         Keeps("keep", db[m][t], T),
         db' = [db EXCEPT ![m] = [db[m] EXCEPT ![t] = T]],
         now' \in Nat, CommitsOn(m),
         UNCHANGED <<packages, records, export, lock, receipts>>
  PROVE  PInv' /\ RowsStay
<1>1. db \in [Machines -> Store] /\ GoodTables(db[m])
  BY DEF PInv, Shape, MachinesGood
<1>2. [db[m] EXCEPT ![t] = T] \in Store /\ GoodTables([db[m] EXCEPT ![t] = T])
  BY <1>1, GoodTablesWith
<1>3. db' \in [Machines -> Store] /\ \A n \in Machines \ {m} : db'[n] = db[n]
  BY <1>1, <1>2
<1>4. MachinesGood'
  BY <1>1, <1>2 DEF PInv, MachinesGood
<1>5. RowsStay
  <2> SUFFICES ASSUME NEW n \in Machines, NEW s \in Types
               PROVE  Keeps("keep", db[n][s], db'[n][s])
    BY DEF RowsStay
  <2>1. CASE n = m /\ s = t
    BY <1>1, <2>1 DEF Store
  <2>2. CASE ~(n = m /\ s = t)
    <3>1. db'[n][s] = db[n][s] /\ db[n][s] \in Table
      BY <1>1, <2>2 DEF Store
    <3> QED BY <3>1, SameRowsStay
  <2> QED BY <2>1, <2>2
<1>6. FilesGood'
  BY DEF PInv, FilesGood
<1>7. export' \in [Machines -> Exporting] /\ lock' \in [Machines -> SUBSET Clients]
  BY DEF PInv, Shape
<1>8. job' = [c \in Clients |-> job'[c]] /\ \A c \in Clients : Carried(c)
  BY <1>3, AgedIs DEF CommitsOn
<1> QED BY <1>3, <1>4, <1>5, <1>6, <1>7, <1>8, FewerAreFine, QuietStep

LEMMA CreateIs ==
  ASSUME PInv, NEW m \in Machines, NEW t \in Types, NEW w \in Subject(t),
         NEW up \in DOMAIN db[m]["villages"] \cup {None}, Create(m, t, w, up)
  PROVE  PInv' /\ RowsStay
<1> DEFINE row == [who |-> w, ver |-> now', up |-> up]
<1> DEFINE T == db[m][t]
<1> DEFINE id == NextId(T)
<1>1. db[m] \in Store /\ T \in Table /\ GoodTables(db[m]) /\ now \in Nat
  BY DEF PInv, Shape, MachinesGood, Store
<1>2. now' = now + 1 /\ now' \in Nat /\ db' = [db EXCEPT ![m][t] = With(T, id, row)]
        /\ CodeIsFree(t, w, T)
  BY <1>1 DEF Create
<1>3. up \in Nat
  <2>1. db[m]["villages"] \in Table
    BY <1>1 DEF Store, Types
  <2> QED BY <2>1, TableIs DEF Ids, None
<1>4. row \in Row(t) /\ row \in AnyRow
  BY <1>2, <1>3 DEF Row, AnyRow, Types
<1>5. db' = [db EXCEPT ![m] = [db[m] EXCEPT ![t] = With(T, id, row)]]
  BY <1>2
<1> HIDE DEF T
<1>6. id \notin DOMAIN T /\ With(T, id, row) \in Table
  BY <1>1, <1>4, WithIs
<1>7. /\ DOMAIN With(T, id, row) = DOMAIN T \cup {id}
      /\ With(T, id, row)[id] = row
      /\ \A k \in DOMAIN T : With(T, id, row)[k] = T[k]
  BY <1>6 DEF With
<1> HIDE DEF id
<1> DEFINE W == With(T, id, row)
<1>8. GoodRows(t, T) /\ \A k \in DOMAIN T : HasParent(T[k], db[m]["villages"])
  BY <1>1 DEF GoodTables, T
<1>9. GoodRows(t, W)
  <2>1. \A k \in DOMAIN W : W[k] \in Row(t)
    BY <1>4, <1>7, <1>8 DEF GoodRows
  <2>2. CodesAreUnique(t, W)
    <3> SUFFICES ASSUME t = "projects", NEW i \in DOMAIN W, NEW k \in DOMAIN W,
                        SameKey(W[i].who, W[k].who)
                 PROVE  i = k
      BY DEF CodesAreUnique
    <3>1. \A x \in DOMAIN T : ~SameKey(w, T[x].who) /\ ~SameKey(T[x].who, w)
      BY <1>2 DEF CodeIsFree, SameKey, T
    <3> QED BY <1>6, <1>7, <1>8, <3>1 DEF GoodRows, CodesAreUnique
  <2> QED BY <1>6, <2>1, <2>2, TableIs DEF GoodRows
<1>10. \A k \in DOMAIN W : HasParent(W[k], db[m]["villages"])
  BY <1>7, <1>8 DEF HasParent
<1>11. Keeps("keep", T, W)
  <2>1. \A k \in DOMAIN T : IsThere(T[k].who, T[k].who)
    BY Known
  <2> QED BY <1>7, <2>1 DEF Keeps
<1>12. CommitsOn(m) /\ UNCHANGED <<packages, records, export, lock, receipts>>
  BY DEF Create
<1> HIDE DEF W, row
<1>13. W \in Table /\ db' = [db EXCEPT ![m] = [db[m] EXCEPT ![t] = W]]
  BY <1>5, <1>6 DEF W
<1> QED BY <1>2, <1>9, <1>10, <1>11, <1>12, <1>13, WorkIs DEF T

LEMMA EditIs ==
  ASSUME PInv, NEW m \in Machines, NEW t \in Types, NEW i \in DOMAIN db[m][t],
         Edit(m, t, i)
  PROVE  PInv' /\ RowsStay
<1> DEFINE T == db[m][t]
<1> DEFINE W == [T EXCEPT ![i].ver = now']
<1>1. db[m] \in Store /\ T \in Table /\ GoodTables(db[m]) /\ now \in Nat
  BY DEF PInv, Shape, MachinesGood, Store
<1>2. now' \in Nat /\ db' = [db EXCEPT ![m] = [db[m] EXCEPT ![t] = W]]
  BY <1>1 DEF Edit
<1>3. GoodRows(t, T) /\ \A k \in DOMAIN T : HasParent(T[k], db[m]["villages"])
  BY <1>1 DEF GoodTables
<1>4. /\ DOMAIN W = DOMAIN T
      /\ W[i] = [T[i] EXCEPT !.ver = now']
      /\ \A k \in DOMAIN T \ {i} : W[k] = T[k]
  OBVIOUS
<1>5. T[i] \in AnyRow /\ T[i] \in Row(t)
  BY <1>1, <1>3, TableIs DEF GoodRows
<1>6. W[i] \in AnyRow /\ W[i].who = T[i].who /\ W[i].up = T[i].up /\ W[i].ver = now'
  BY <1>2, <1>4, <1>5, RowIs
<1>7. W[i] \in Row(t)
  BY <1>2, <1>4, <1>5 DEF Row
<1>8. W \in Table
  <2>1. DOMAIN T \in IdSets /\ \A k \in DOMAIN T : W[k] \in AnyRow
    BY <1>1, <1>4, <1>6, TableIs
  <2>2. W = [k \in DOMAIN T |-> W[k]]
    OBVIOUS
  <2> HIDE DEF W
  <2> QED BY <2>1, <2>2, IsTable
<1> HIDE DEF W
<1>9. \A k \in DOMAIN T : /\ W[k].who = T[k].who /\ W[k].up = T[k].up
                           /\ W[k] \in Row(t)
  BY <1>3, <1>4, <1>6, <1>7 DEF GoodRows
<1>10. GoodRows(t, W)
  BY <1>3, <1>4, <1>9 DEF GoodRows, CodesAreUnique
<1>11. \A k \in DOMAIN W : HasParent(W[k], db[m]["villages"])
  BY <1>3, <1>4, <1>9 DEF HasParent
<1>12. Keeps("keep", T, W)
  <2>1. \A k \in DOMAIN T : IsThere(T[k].who, W[k].who)
    BY <1>9, Known
  <2> QED BY <1>4, <2>1 DEF Keeps
<1>13. CommitsOn(m) /\ UNCHANGED <<packages, records, export, lock, receipts>>
  BY DEF Edit
<1> QED BY <1>2, <1>8, <1>10, <1>11, <1>12, <1>13, WorkIs

\* Requests that a step does not touch.
LEMMA Untouched ==
  ASSUME PInv, job' = job, lock' = lock, db' = db
  PROVE  /\ job' = [c \in Clients |-> job'[c]]
         /\ \A c \in Clients : Carried(c)
  BY DEF PInv, Shape, Carried

LEMMA ExportIs ==
  ASSUME PInv, NEW m \in Machines,
         \/ \E order \in Orders, since \in Bases(m) : StartExport(m, order, since)
         \/ ReadTable(m)
  PROVE  PInv' /\ RowsStay
<1>1. UNCHANGED <<db, now, packages, records, job, lock, receipts>>
  BY DEF StartExport, ReadTable
<1>2. export \in [Machines -> Exporting] /\ db[m] \in Store /\ GoodTables(db[m])
        /\ \A t \in Types : GoodRows(t, export[m].rows[t])
  BY DEF PInv, Shape, MachinesGood, FilesGood
<1>3. \E x \in Exporting : /\ export' = [export EXCEPT ![m] = x]
                           /\ \A t \in Types : GoodRows(t, x.rows[t])
  <2>1. ASSUME NEW order \in Orders, NEW since \in Bases(m),
               StartExport(m, order, since)
        PROVE  \E x \in Exporting : /\ export' = [export EXCEPT ![m] = x]
                                    /\ \A t \in Types : GoodRows(t, x.rows[t])
    <3> DEFINE x == [NoExport EXCEPT !.todo = order, !.since = since, !.busy = TRUE]
    <3>1. since \in Nat
      <4>1. \A k \in DOMAIN records[m] : records[m][k] \in Record
        BY DEF PInv, Shape
      <4>2. \A k \in DOMAIN records[m] : records[m][k].made \in Nat
        BY <4>1 DEF Record
      <4> QED BY <4>2 DEF Bases
    <3>2. order \in Seq(Types)
      BY PackageAssumption
    <3>3. x \in Exporting /\ x.rows = NoRows
      BY <3>1, <3>2, EmptyIs DEF NoExport, Exporting
    <3>4. export' = [export EXCEPT ![m] = x]
      BY <2>1 DEF StartExport
    <3> HIDE DEF x
    <3> QED BY <3>3, <3>4, EmptyIs
  <2>2. CASE ReadTable(m)
    <3> DEFINE t == Head(export[m].todo)
    <3> DEFINE C == Changed(db[m][t], export[m].since)
    <3> DEFINE x == [export[m] EXCEPT !.todo = Tail(export[m].todo),
                                      !.rows = [export[m].rows EXCEPT ![t] = C]]
    <3>1. export[m] \in Exporting /\ export[m].todo \in Seq(Types)
            /\ export[m].rows \in Store
      BY <1>2 DEF Exporting
    <3>2. export' = [export EXCEPT ![m] = x]
      BY <2>2 DEF ReadTable
    <3>3. t \in Types /\ Tail(export[m].todo) \in Seq(Types)
      BY <2>2, <3>1 DEF ReadTable
    <3>4. db[m][t] \in Table /\ GoodRows(t, db[m][t])
      BY <1>2, <3>3 DEF Store, GoodTables
    <3>5. C \in Table /\ GoodRows(t, C)
      <4> DEFINE S == {i \in DOMAIN db[m][t] : db[m][t][i].ver > export[m].since}
      <4>1. C = Restrict(db[m][t], S) /\ S \in SUBSET DOMAIN db[m][t]
        BY DEF Changed
      <4> HIDE DEF S, C, t
      <4> QED BY <3>3, <3>4, <4>1, PartOf
    <3> HIDE DEF C, t
    <3>6. [export[m].rows EXCEPT ![t] = C] \in Store
      BY <3>1, <3>5 DEF Store
    <3>7. x \in Exporting /\ x.rows = [export[m].rows EXCEPT ![t] = C]
      BY <3>1, <3>3, <3>6 DEF Exporting
    <3> HIDE DEF x
    <3>8. \A s \in Types : GoodRows(s, x.rows[s])
      BY <1>2, <3>1, <3>5, <3>7 DEF Store
    <3> QED BY <3>2, <3>7, <3>8
  <2> QED BY <2>1, <2>2
<1>4. PICK x \in Exporting : /\ export' = [export EXCEPT ![m] = x]
                             /\ \A t \in Types : GoodRows(t, x.rows[t])
  BY <1>3
<1>5. export' \in [Machines -> Exporting]
  BY <1>2, <1>4
<1>6. FilesGood'
  BY <1>1, <1>2, <1>4 DEF PInv, FilesGood
<1>7. MachinesGood' /\ RowsStay
  BY <1>1, UnchangedRowsStay DEF PInv, MachinesGood
<1>8. /\ now' \in Nat /\ db' \in [Machines -> Store]
      /\ lock' \in [Machines -> SUBSET Clients]
  BY <1>1 DEF PInv, Shape
<1>9. job' = [c \in Clients |-> job'[c]] /\ \A c \in Clients : Carried(c)
  BY <1>1, Untouched
<1> QED BY <1>1, <1>5, <1>6, <1>7, <1>8, <1>9, FewerAreFine, QuietStep

\* A record is added to those of a machine.
LEMMA RecordIs ==
  ASSUME PInv, NEW m \in Machines, NEW x \in Record, x.pkg \in DOMAIN packages',
         records' = [records EXCEPT ![m] = Append(records[m], x)],
         packages' \in Seq(Store),
         \A g \in DOMAIN packages : g \in DOMAIN packages' /\ packages'[g] = packages[g]
  PROVE  /\ Grows
         /\ records' \in [Machines -> Seq(Record)]
         /\ \A n \in Machines : \A k \in DOMAIN records'[n] :
              records'[n][k].pkg \in DOMAIN packages'
<1>1. records \in [Machines -> Seq(Record)] /\ records[m] \in Seq(Record)
  BY DEF PInv, Shape
<1>2. \A n \in Machines : \A k \in DOMAIN records[n] :
        records[n][k].pkg \in DOMAIN packages'
  BY DEF PInv, RecordsName
<1> DEFINE A == Append(records[m], x)
<1>3. /\ A \in Seq(Record)
      /\ DOMAIN A = 1..(Len(records[m]) + 1) /\ DOMAIN records[m] = 1..Len(records[m])
      /\ \A k \in DOMAIN records[m] : A[k] = records[m][k]
      /\ A[Len(records[m]) + 1] = x
      /\ Len(records[m]) \in Nat
  BY <1>1
<1> HIDE DEF A
<1>4. records' = [records EXCEPT ![m] = A]
  BY DEF A
<1>5. \A k \in DOMAIN A : A[k].pkg \in DOMAIN packages'
  <2> SUFFICES ASSUME NEW k \in DOMAIN A PROVE A[k].pkg \in DOMAIN packages'
    OBVIOUS
  <2>1. k \in DOMAIN records[m] \/ k = Len(records[m]) + 1
    BY <1>3
  <2> QED BY <1>2, <1>3, <2>1
<1>6. \A k \in DOMAIN records[m] : k \in DOMAIN A
  BY <1>3
<1> QED BY <1>1, <1>2, <1>3, <1>4, <1>5, <1>6 DEF Grows

LEMMA RegisterIs ==
  ASSUME PInv, NEW m \in Machines,
         \/ RecordPackage(m)
         \/ \E g \in DOMAIN packages, status \in {"validated", "failed"} :
              Register(m, g, status)
  PROVE  PInv' /\ RowsStay
<1>1. UNCHANGED <<db, now, lock, receipts>> /\ CommitsOn(m)
  BY DEF RecordPackage, Register
<1>2. /\ packages \in Seq(Store) /\ now \in Nat /\ export \in [Machines -> Exporting]
      /\ \A g \in DOMAIN packages : g \in Nat
  BY DEF PInv, Shape
<1>3. MachinesGood' /\ RowsStay
  BY <1>1, UnchangedRowsStay DEF PInv, MachinesGood
<1>4. job' = [c \in Clients |-> job'[c]] /\ \A c \in Clients : Carried(c)
  BY <1>1, AgedIs DEF CommitsOn
<1>5. CASE RecordPackage(m)
  <2> DEFINE x == Recorded(Len(packages) + 1, "validated")
  <2>1. export[m].rows \in Store /\ \A t \in Types : GoodRows(t, export[m].rows[t])
    BY <1>2 DEF Exporting, PInv, FilesGood
  <2>2. packages' = Append(packages, export[m].rows)
          /\ records' = [records EXCEPT ![m] = Append(records[m], x)]
          /\ export' = [export EXCEPT ![m] = NoExport]
    BY <1>5 DEF RecordPackage
  <2>3. /\ packages' \in Seq(Store)
        /\ Len(packages) \in Nat
        /\ DOMAIN packages' = 1..(Len(packages) + 1)
        /\ DOMAIN packages = 1..Len(packages)
        /\ \A g \in DOMAIN packages : packages'[g] = packages[g]
        /\ packages'[Len(packages) + 1] = export[m].rows
    BY <1>2, <2>1, <2>2
  <2>4. \A g \in DOMAIN packages' : g \in DOMAIN packages \/ g = Len(packages) + 1
    BY <2>3
  <2>5. \A g \in DOMAIN packages : g \in DOMAIN packages'
    BY <2>3
  <2>6. x \in Record /\ x.pkg \in DOMAIN packages'
    BY <1>2, <2>3 DEF Recorded, Record
  <2> HIDE DEF x
  <2>7. /\ Grows
        /\ records' \in [Machines -> Seq(Record)]
        /\ \A n \in Machines : \A k \in DOMAIN records'[n] :
             records'[n][k].pkg \in DOMAIN packages'
    BY <2>2, <2>3, <2>5, <2>6, RecordIs
  <2>8. NoExport \in Exporting /\ NoExport.rows = NoRows
    BY EmptyIs DEF NoExport, Exporting
  <2>9. export' \in [Machines -> Exporting]
    BY <1>2, <2>2, <2>8
  <2>10. FilesGood'
    <3>1. \A g \in DOMAIN packages', t \in Types : GoodRows(t, packages'[g][t])
      BY <2>1, <2>3, <2>4 DEF PInv, FilesGood
    <3>2. \A n \in Machines, t \in Types : GoodRows(t, export'[n].rows[t])
      BY <1>2, <2>2, <2>8, EmptyIs DEF PInv, FilesGood
    <3> QED BY <3>1, <3>2 DEF FilesGood
  <2>11. db' \in [Machines -> Store] /\ now' \in Nat
           /\ lock' \in [Machines -> SUBSET Clients]
    BY <1>1 DEF PInv, Shape
  <2> QED BY <1>1, <1>3, <1>4, <2>3, <2>7, <2>9, <2>10, <2>11, QuietStep
<1>6. ASSUME NEW g \in DOMAIN packages, NEW status \in {"validated", "failed"},
             Register(m, g, status)
      PROVE  PInv'
  <2> DEFINE x == Recorded(g, status)
  <2>1. UNCHANGED <<packages, export>>
          /\ records' = [records EXCEPT ![m] = Append(records[m], x)]
    BY <1>6 DEF Register
  <2>2. x \in Record /\ x.pkg \in DOMAIN packages'
    BY <1>2, <2>1 DEF Recorded, Record
  <2> HIDE DEF x
  <2>3. /\ Grows
        /\ records' \in [Machines -> Seq(Record)]
        /\ \A n \in Machines : \A k \in DOMAIN records'[n] :
             records'[n][k].pkg \in DOMAIN packages'
    BY <1>2, <2>1, <2>2, RecordIs
  <2>4. FilesGood'
    BY <2>1 DEF PInv, FilesGood
  <2>5. /\ db' \in [Machines -> Store] /\ now' \in Nat /\ packages' \in Seq(Store)
        /\ lock' \in [Machines -> SUBSET Clients] /\ export' \in [Machines -> Exporting]
    BY <1>1, <2>1 DEF PInv, Shape
  <2> QED BY <1>1, <1>3, <1>4, <2>3, <2>4, <2>5, QuietStep
<1> QED BY <1>3, <1>5, <1>6

(***************************************************************************)
(* Imports.                                                                *)
(***************************************************************************)
\* The status of a package is set.
LEMMA StatusIs ==
  ASSUME PInv, NEW m \in Machines, NEW k \in DOMAIN records[m],
         NEW status \in {"validated", "imported", "failed"},
         records' = [records EXCEPT ![m][k].status = status], packages' = packages
  PROVE  /\ Grows
         /\ packages' \in Seq(Store) /\ records' \in [Machines -> Seq(Record)]
         /\ \A n \in Machines : \A i \in DOMAIN records'[n] :
              records'[n][i].pkg \in DOMAIN packages'
<1> DEFINE x == [records[m][k] EXCEPT !.status = status]
<1> DEFINE A == [records[m] EXCEPT ![k] = x]
<1>1. records \in [Machines -> Seq(Record)] /\ records[m] \in Seq(Record)
        /\ records[m][k] \in Record
  BY DEF PInv, Shape
<1>2. x \in Record /\ x.pkg = records[m][k].pkg
  BY <1>1 DEF Record
<1>3. records' = [records EXCEPT ![m] = A]
  OBVIOUS
<1> HIDE DEF x
<1>4. /\ A \in Seq(Record) /\ DOMAIN A = DOMAIN records[m]
      /\ A[k] = x /\ \A i \in DOMAIN A \ {k} : A[i] = records[m][i]
  BY <1>1, <1>2
<1> HIDE DEF A
<1>5. \A n \in Machines : /\ DOMAIN records'[n] = DOMAIN records[n]
                          /\ \A i \in DOMAIN records[n] :
                               records'[n][i].pkg = records[n][i].pkg
  BY <1>1, <1>2, <1>3, <1>4
<1>6. records' \in [Machines -> Seq(Record)]
  BY <1>1, <1>3, <1>4
<1> QED BY <1>5, <1>6 DEF PInv, Shape, RecordsName, Grows

\* Two imports do not run on one machine.
LEMMA OneImport ==
  ASSUME PInv, NEW c \in Clients, NEW d \in Clients, Importing(c), Importing(d),
         job[c].m = job[d].m
  PROVE  c = d
  BY DEF PInv, ClientSound

LEMMA FilesStay == PInv /\ UNCHANGED <<packages, export>> => FilesGood'
  BY DEF PInv, FilesGood

\* Requests come, end and wait.
LEMMA AskIs ==
  ASSUME PInv, NEW m \in Machines, NEW c \in Clients, NEW k \in DOMAIN records[m],
         NEW order \in Orders, NEW mode \in Modes, Ask(c, m, k, order, mode)
  PROVE  PInv' /\ RowsStay
<1> DEFINE j == [pc |-> "wait", m |-> m, k |-> k, todo |-> order, mode |-> mode]
<1>1. UNCHANGED <<db, now, packages, records, export, lock, receipts>>
        /\ job' = [job EXCEPT ![c] = j]
  BY DEF Ask
<1>2. j \in Waits /\ j.m = m /\ j.k = k /\ j.pc = "wait"
  BY PackageAssumption DEF Waits, PInv, Shape
<1> HIDE DEF j
<1>3. job \in [Clients -> Jobs]
  BY DEF PInv, Shape
<1>4. job'[c] = j /\ job' = [d \in Clients |-> job'[d]]
        /\ \A d \in Clients \ {c} : job'[d] = job[d]
  BY <1>1, <1>3
<1>5. job'[c] \in Jobs /\ ClientSound(c)'
  BY <1>1, <1>2, <1>4 DEF Jobs, ClientSound, Importing
<1>6. \A d \in Clients \ {c} : Carried(d)
  BY <1>1, <1>4 DEF Carried
<1>7. MachinesGood' /\ RowsStay
  BY <1>1, UnchangedRowsStay DEF PInv, MachinesGood
<1>8. /\ now' \in Nat /\ db' \in [Machines -> Store] /\ export' \in [Machines -> Exporting]
      /\ lock' \in [Machines -> SUBSET Clients]
  BY <1>1 DEF PInv, Shape
<1>9. FilesGood'
  BY <1>1, FilesStay
<1>10. /\ Grows
       /\ packages' \in Seq(Store) /\ records' \in [Machines -> Seq(Record)]
       /\ \A n \in Machines : \A i \in DOMAIN records'[n] :
            records'[n][i].pkg \in DOMAIN packages'
  BY <1>1, FewerAreFine
<1>11. \A d \in Clients : Carried(d) \/ (job'[d] \in Jobs /\ ClientSound(d)')
  BY <1>5, <1>6
<1>12. receipts' = receipts
  BY <1>1
<1>13. job' = [d \in Clients |-> job'[d]]
  BY <1>4
<1>14. PInv'
  BY <1>7, <1>8, <1>9, <1>10, <1>11, <1>12, <1>13, QuietStep
<1> QED BY <1>7, <1>14

LEMMA FailIs ==
  ASSUME PInv, NEW c \in Clients, Fail(c)
  PROVE  PInv' /\ RowsStay
<1> DEFINE m == job[c].m
<1>1. /\ UNCHANGED <<db, now, packages, export, receipts>>
      /\ job' = [Aged(m) EXCEPT ![c] = NoJob]
      /\ records' = [records EXCEPT ![m][job[c].k].status = "failed"]
      /\ lock' = [lock EXCEPT ![m] = lock[m] \ {c}]
      /\ job[c] # NoJob
  BY DEF Fail, Importing, NoJob
<1>2. m \in Machines /\ job[c].k \in DOMAIN records[m]
  BY <1>1, JobIs DEF PInv, Shape, ClientSound
<1>3. lock \in [Machines -> SUBSET Clients]
  BY DEF PInv, Shape
<1> HIDE DEF m
<1>4. job' = [d \in Clients |-> job'[d]]
  BY <1>1 DEF Aged
<1>5. ASSUME NEW d \in Clients PROVE Carried(d)
  <2>1. CASE d = c
    BY <1>1, <2>1 DEF Aged, Carried
  <2>2. CASE d # c
    <3>1. job'[d] = Aged(m)[d]
      BY <1>1, <2>2 DEF Aged
    <3>2. CASE ~Importing(d)
      BY <3>1, <3>2 DEF Aged, Carried
    <3>3. CASE Importing(d)
      <4>1. lock[job[d].m] = {d} /\ job[d].m \in Machines
        BY <3>3, JobIs DEF PInv, Shape, ClientSound, Importing, NoJob
      <4>2. lock'[job[d].m] = lock[job[d].m]
        BY <1>1, <1>2, <1>3, <2>2, <4>1
      <4>3. job'[d] \in {job[d], [job[d] EXCEPT !.fresh = FALSE]}
        BY <3>1 DEF Aged
      <4> QED BY <1>1, <3>3, <4>2, <4>3 DEF Carried
    <3> QED BY <3>2, <3>3
  <2> QED BY <2>1, <2>2
<1>6. MachinesGood' /\ RowsStay
  BY <1>1, UnchangedRowsStay DEF PInv, MachinesGood
<1>7. /\ now' \in Nat /\ db' \in [Machines -> Store] /\ export' \in [Machines -> Exporting]
      /\ lock' \in [Machines -> SUBSET Clients]
  BY <1>1, <1>2, <1>3 DEF PInv, Shape
<1>8. /\ Grows
      /\ packages' \in Seq(Store) /\ records' \in [Machines -> Seq(Record)]
      /\ \A n \in Machines : \A i \in DOMAIN records'[n] :
           records'[n][i].pkg \in DOMAIN packages'
  BY <1>1, <1>2, StatusIs
<1> QED BY <1>1, <1>4, <1>5, <1>6, <1>7, <1>8, FilesStay, QuietStep

LEMMA StopIs ==
  ASSUME PInv, NEW m \in Machines, Stop(m)
  PROVE  PInv' /\ RowsStay
<1>1. /\ UNCHANGED <<db, now, packages, records, receipts>>
      /\ job' = [c \in Clients |->
                    IF job[c] # NoJob /\ job[c].m = m THEN NoJob ELSE job[c]]
      /\ export' = [export EXCEPT ![m] = NoExport]
      /\ lock' = [lock EXCEPT ![m] = {}]
  BY DEF Stop
<1>2. /\ lock \in [Machines -> SUBSET Clients] /\ job \in [Clients -> Jobs]
      /\ export \in [Machines -> Exporting]
  BY DEF PInv, Shape
<1>3. job' = [c \in Clients |-> job'[c]]
  BY <1>1
<1>4. ASSUME NEW d \in Clients PROVE Carried(d)
  <2>1. CASE job'[d] = NoJob
    BY <2>1 DEF Carried
  <2>2. CASE job'[d] # NoJob
    <3>1. job'[d] = job[d] /\ job[d].m # m /\ job[d].m \in Machines
      BY <1>1, <1>2, <2>2, JobIs
    <3>2. lock'[job[d].m] = lock[job[d].m]
      BY <1>1, <1>2, <3>1
    <3> QED BY <1>1, <3>1, <3>2 DEF Carried
  <2> QED BY <2>1, <2>2
<1>5. NoExport \in Exporting /\ NoExport.rows = NoRows
  BY EmptyIs DEF NoExport, Exporting
<1>6. FilesGood'
  BY <1>1, <1>2, <1>5, EmptyIs DEF PInv, FilesGood
<1>7. MachinesGood' /\ RowsStay
  BY <1>1, UnchangedRowsStay DEF PInv, MachinesGood
<1>8. /\ now' \in Nat /\ db' \in [Machines -> Store] /\ export' \in [Machines -> Exporting]
      /\ lock' \in [Machines -> SUBSET Clients]
  BY <1>1, <1>2, <1>5 DEF PInv, Shape
<1> QED BY <1>1, <1>3, <1>4, <1>6, <1>7, <1>8, FewerAreFine, QuietStep

LEMMA BeginIs ==
  ASSUME PInv, NEW c \in Clients, Begin(c)
  PROVE  PInv' /\ RowsStay
<1> DEFINE m == job[c].m
<1> DEFINE j ==
      [pc |-> "import", m |-> m, k |-> job[c].k, todo |-> job[c].todo,
       mode |-> job[c].mode,
       tables |-> db[m], done |-> {}, moved |-> NoRows, failed |-> {},
       fresh |-> TRUE, wrote |-> FALSE]
<1>1. /\ UNCHANGED <<db, now, packages, records, export, receipts>>
      /\ job' = [job EXCEPT ![c] = j]
      /\ lock[m] = {}
      /\ lock' = [lock EXCEPT ![m] = {c}]
      /\ job[c].pc = "wait"
  BY DEF Begin
<1>2. job[c] \in Waits /\ job[c] # NoJob
  BY <1>1, JobIs DEF PInv, Shape, NoJob
<1>3. m \in Machines /\ job[c].k \in Nat /\ job[c].k \in DOMAIN records[m]
        /\ job[c].todo \in Seq(Types) /\ job[c].mode \in Modes
  BY <1>2 DEF Waits, PInv, ClientSound
<1>4. /\ lock \in [Machines -> SUBSET Clients] /\ job \in [Clients -> Jobs]
      /\ db[m] \in Store /\ GoodTables(db[m])
  BY <1>3 DEF PInv, Shape, MachinesGood
<1> HIDE DEF m
<1>5. /\ j \in Imports /\ j.pc = "import" /\ j.m = m /\ j.k = job[c].k
      /\ j.tables = db[m] /\ j.done = {} /\ j.moved = NoRows /\ j.failed = {}
  BY <1>3, <1>4, EmptyIs DEF Imports
<1> HIDE DEF j
<1>6. job'[c] = j /\ job' = [d \in Clients |-> job'[d]]
        /\ \A d \in Clients \ {c} : job'[d] = job[d]
  BY <1>1, <1>4
<1>7. job'[c] \in Jobs /\ ClientSound(c)'
  <2>1. lock'[m] = {c}
    BY <1>1, <1>3, <1>4
  <2>2. \A t \in Types : Keeps(j.mode, db[m][t], j.tables[t])
    BY <1>4, <1>5, SameRowsStay DEF Store
  <2>3. AllLanded(packages'[records'[j.m][j.k].pkg], j)
    BY <1>5, EmptyIs DEF AllLanded
  <2>4. j.k \in DOMAIN records'[j.m] /\ db' = db
    BY <1>1, <1>3, <1>5
  <2>5. GoodTables(j.tables) /\ j \in Jobs
    BY <1>4, <1>5 DEF Jobs
  <2>6. PackageOf(job[c])' = packages'[records'[j.m][j.k].pkg]
    BY <1>6 DEF PackageOf
  <2> QED BY <1>5, <1>6, <2>1, <2>2, <2>3, <2>4, <2>5, <2>6 DEF ClientSound
<1>8. ASSUME NEW d \in Clients \ {c} PROVE Carried(d)
  <2>1. CASE ~Importing(d)
    BY <1>6, <2>1 DEF Carried
  <2>2. CASE Importing(d)
    <3>1. lock[job[d].m] = {d} /\ job[d].m \in Machines
      BY <2>2, JobIs DEF PInv, Shape, ClientSound, Importing, NoJob
    <3>2. lock'[job[d].m] = lock[job[d].m]
      BY <1>1, <1>4, <3>1
    <3> QED BY <1>1, <1>6, <2>2, <3>2 DEF Carried
  <2> QED BY <2>1, <2>2
<1>9. MachinesGood' /\ RowsStay
  BY <1>1, UnchangedRowsStay DEF PInv, MachinesGood
<1>10. /\ now' \in Nat /\ db' \in [Machines -> Store] /\ export' \in [Machines -> Exporting]
       /\ lock' \in [Machines -> SUBSET Clients]
  BY <1>1, <1>3, <1>4 DEF PInv, Shape
<1> QED BY <1>1, <1>6, <1>7, <1>8, <1>9, <1>10, FewerAreFine, FilesStay, QuietStep

\* As long as nothing else was committed an import has every row of its machine,
\* and one more type written keeps them.
LEMMA ImportTypeIs ==
  ASSUME PInv, NEW c \in Clients, ImportType(c)
  PROVE  PInv' /\ RowsStay
<1> DEFINE j == job[c]
<1> DEFINE t == Head(j.todo)
<1> DEFINE J == Imported(j, t)
<1> DEFINE g == PackageOf(j)
<1>1. /\ UNCHANGED <<db, now, packages, records, export, lock, receipts>>
      /\ job' = [job EXCEPT ![c] = J]
      /\ Importing(c) /\ j.todo # <<>>
  BY DEF ImportType
<1>2. j \in Imports /\ j # NoJob /\ j.m \in Machines /\ j.todo \in Seq(Types)
  <2>1. j \in Imports
    BY <1>1, JobIs DEF PInv, Shape, Importing
  <2> QED BY <2>1, JobIs DEF Imports, Jobs
<1>3. t \in Types
  BY <1>1, <1>2
<1>4. Grows /\ RowsStay
  BY <1>1, FewerAreFine, UnchangedRowsStay
<1>5. /\ g \in Store /\ GoodRows(t, g[t])
      /\ j.k \in DOMAIN records'[j.m]
      /\ packages'[records'[j.m][j.k].pkg] = g
  BY <1>2, <1>3, <1>4, PackageStays
<1>6. /\ lock[j.m] = {c}
      /\ GoodTables(j.tables)
      /\ j.fresh => \A s \in Types : Keeps(j.mode, db[j.m][s], j.tables[s])
      /\ AllLanded(g, j)
  BY <1>1 DEF PInv, ClientSound
<1>7. /\ J \in Imports
      /\ J.m = j.m /\ J.k = j.k /\ J.mode = j.mode /\ J.fresh = j.fresh
      /\ GoodTables(J.tables)
      /\ \A s \in Types : Keeps(j.mode, j.tables[s], J.tables[s])
      /\ AllLanded(g, J)
  <2> HIDE DEF j
  <2> QED BY <1>1, <1>2, <1>3, <1>5, <1>6, ImportedIs
<1> HIDE DEF J, t
<1>8. job'[c] = J /\ job' = [d \in Clients |-> job'[d]]
        /\ \A d \in Clients \ {c} : job'[d] = job[d]
  BY <1>1 DEF PInv, Shape
<1>9. J.fresh => \A s \in Types : Keeps(J.mode, db[J.m][s], J.tables[s])
  <2> SUFFICES ASSUME J.fresh, NEW s \in Types
               PROVE  Keeps(J.mode, db[J.m][s], J.tables[s])
    OBVIOUS
  <2>1. db[j.m] \in Store /\ j.tables \in Store /\ J.tables \in Store
    BY <1>2, <1>7 DEF PInv, Shape, Imports
  <2>2. db[j.m][s] \in Table /\ j.tables[s] \in Table /\ J.tables[s] \in Table
    BY <2>1 DEF Store
  <2>3. Keeps(j.mode, db[j.m][s], j.tables[s]) /\ Keeps(j.mode, j.tables[s], J.tables[s])
    BY <1>6, <1>7
  <2>4. Keeps(j.mode, db[j.m][s], J.tables[s])
    BY <2>2, <2>3, KeepsOn
  <2> QED BY <1>7, <2>4
<1>10. job'[c] \in Jobs /\ ClientSound(c)'
  <2>1. J \in Jobs
    BY <1>7 DEF Jobs
  <2>2. PackageOf(job[c])' = g
    BY <1>5, <1>7, <1>8 DEF PackageOf
  <2> HIDE DEF g
  <2> QED BY <1>1, <1>5, <1>6, <1>7, <1>8, <1>9, <2>1, <2>2 DEF ClientSound
<1>11. \A d \in Clients \ {c} : Carried(d)
  BY <1>1, <1>8 DEF Carried
<1>12. MachinesGood'
  BY <1>1 DEF PInv, MachinesGood
<1>13. /\ now' \in Nat /\ db' \in [Machines -> Store] /\ export' \in [Machines -> Exporting]
       /\ lock' \in [Machines -> SUBSET Clients]
  BY <1>1 DEF PInv, Shape
<1>14. \A d \in Clients : Carried(d) \/ (job'[d] \in Jobs /\ ClientSound(d)')
  BY <1>10, <1>11
<1>15. receipts' = receipts /\ job' = [d \in Clients |-> job'[d]]
  BY <1>1, <1>8
<1>16. FilesGood'
  BY <1>1, FilesStay
<1>17. /\ packages' \in Seq(Store) /\ records' \in [Machines -> Seq(Record)]
       /\ \A n \in Machines : \A i \in DOMAIN records'[n] :
            records'[n][i].pkg \in DOMAIN packages'
  BY <1>1, FewerAreFine
<1> QED BY <1>4, <1>12, <1>13, <1>14, <1>15, <1>16, <1>17, QuietStep

\* A commit puts the tables of the import in the place of those of the machine.
LEMMA CommitIs ==
  ASSUME PInv, NEW c \in Clients, Commit(c)
  PROVE  /\ PInv' /\ RowsStay
         /\ \A t \in Types : Keeps(job[c].mode, db[job[c].m][t], db'[job[c].m][t])
<1> DEFINE j == job[c]
<1> DEFINE m == job[c].m
<1> DEFINE g == PackageOf(j)
<1>1. /\ UNCHANGED <<now, packages, export>>
      /\ db' = [db EXCEPT ![m] = j.tables]
      /\ records' = [records EXCEPT ![m][j.k].status = "imported"]
      /\ receipts' = IF AnswersWithoutErrors(j)
                     THEN [receipts EXCEPT ![m] = receipts[m] \cup {Receipt(j)}]
                     ELSE receipts
      /\ lock' = [lock EXCEPT ![m] = {}]
      /\ job' = [job EXCEPT ![c] = NoJob]
      /\ Importing(c) /\ j.fresh
  BY DEF Commit
<1>2. j \in Imports /\ j # NoJob /\ m \in Machines /\ j.k \in DOMAIN records[m]
        /\ j.tables \in Store /\ j.done \subseteq Types
  <2>1. j \in Imports
    BY <1>1, JobIs DEF PInv, Shape, Importing
  <2>2. j # NoJob
    BY <2>1, JobIs DEF Jobs
  <2> QED BY <2>1, <2>2 DEF Imports, PInv, ClientSound
<1>3. /\ GoodTables(j.tables)
      /\ \A s \in Types : Keeps(j.mode, db[m][s], j.tables[s])
      /\ AllLanded(g, j)
  BY <1>1 DEF PInv, ClientSound
<1>4. /\ db \in [Machines -> Store] /\ lock \in [Machines -> SUBSET Clients]
      /\ job \in [Clients -> Jobs] /\ receipts \in [Machines -> SUBSET Answers]
  BY DEF PInv, Shape
<1>5. /\ Grows
      /\ packages' \in Seq(Store) /\ records' \in [Machines -> Seq(Record)]
      /\ \A n \in Machines : \A i \in DOMAIN records'[n] :
           records'[n][i].pkg \in DOMAIN packages'
  BY <1>1, <1>2, StatusIs
<1>6. db'[m] = j.tables /\ \A n \in Machines \ {m} : db'[n] = db[n]
  BY <1>1, <1>2, <1>4
<1>7. RowsStay
  <2> SUFFICES ASSUME NEW n \in Machines, NEW s \in Types
               PROVE  Keeps("keep", db[n][s], db'[n][s])
    BY DEF RowsStay
  <2>1. CASE n = m
    BY <1>3, <1>6, <2>1 DEF Keeps
  <2>2. CASE n # m
    BY <1>4, <1>6, <2>2, SameRowsStay DEF Store
  <2> QED BY <2>1, <2>2
<1>8. /\ now' \in Nat /\ db' \in [Machines -> Store] /\ export' \in [Machines -> Exporting]
      /\ lock' \in [Machines -> SUBSET Clients]
  BY <1>1, <1>2, <1>4 DEF PInv, Shape
<1>9. MachinesGood'
  BY <1>3, <1>6 DEF PInv, MachinesGood
<1>10. FilesGood'
  BY <1>1, FilesStay
<1>11. job' = [d \in Clients |-> job'[d]]
  BY <1>1, <1>4
<1>12. ASSUME NEW d \in Clients PROVE Carried(d)
  <2>1. CASE d = c
    BY <1>1, <1>4, <2>1 DEF Carried
  <2>2. CASE d # c
    <3>1. job'[d] = job[d]
      BY <1>1, <1>4, <2>2
    <3>2. CASE ~Importing(d)
      BY <3>1, <3>2 DEF Carried
    <3>3. CASE Importing(d)
      <4>1. job[d].m # m /\ job[d].m \in Machines
        <5>1. job[d].m # m
          BY <1>1, <2>2, <3>3, OneImport
        <5>2. job[d].m \in Machines
          BY <1>4, <3>3, JobIs DEF Importing, NoJob
        <5> QED BY <5>1, <5>2
      <4>2. lock'[job[d].m] = lock[job[d].m] /\ db'[job[d].m] = db[job[d].m]
        BY <1>1, <1>4, <1>6, <4>1
      <4> QED BY <3>1, <3>3, <4>2 DEF Carried
    <3> QED BY <3>2, <3>3
  <2> QED BY <2>1, <2>2
<1>13. g = packages[records[m][j.k].pkg] /\ records[m][j.k].pkg \in DOMAIN packages
  BY <1>2 DEF PackageOf, PInv, RecordsName
<1>14. Receipt(j) \in Answers
  <2>1. records[m][j.k].pkg \in Nat
    BY <1>13 DEF PInv, Shape
  <2>2. j.mode \in Modes
    BY <1>2 DEF Imports
  <2> QED BY <1>2, <2>1, <2>2 DEF Receipt, Answers
<1>15. ASSUME AnswersWithoutErrors(j), NEW n \in Machines, n = m, NEW r, r = Receipt(j)
       PROVE  TrueAnswer(n, r)'
  <2> DEFINE p == records[m][j.k].pkg
  <2>1. r.pkg = p /\ r.types = j.done /\ r.mode = j.mode
    BY <1>15 DEF Receipt
  <2>2. p \in DOMAIN packages' /\ packages'[p] = g
    BY <1>1, <1>13
  <2>3. ASSUME j.mode # "newer", NEW t \in j.done, NEW i \in DOMAIN g[t]
        PROVE  \E k \in DOMAIN db'[n][t] : IsThere(g[t][i].who, db'[n][t][k].who)
    <3>1. Accepted(g, t) = g[t] /\ t \notin j.failed /\ t \in Types
      BY <1>2, <1>15, <2>3 DEF AnswersWithoutErrors, WithoutErrors
    <3>2. Landed(g, j, t)
      BY <1>3, <3>1 DEF AllLanded
    <3>3. LandedAt(g[t][i].who, At(j, t, i), j.tables[t])
      BY <3>1, <3>2 DEF Landed
    <3> QED BY <1>6, <1>15, <3>3 DEF LandedAt
  <2> HIDE DEF p, g
  <2> QED BY <2>1, <2>2, <2>3 DEF TrueAnswer
<1>16. /\ receipts' \in [Machines -> SUBSET Answers]
       /\ \A n \in Machines : \A r \in receipts'[n] :
            r \in receipts[n] \/ TrueAnswer(n, r)'
  <2>1. CASE ~AnswersWithoutErrors(j)
    BY <1>1, <1>4, <2>1
  <2>2. CASE AnswersWithoutErrors(j)
    <3>1. receipts' = [receipts EXCEPT ![m] = receipts[m] \cup {Receipt(j)}]
      BY <1>1, <2>2
    <3>2. receipts' \in [Machines -> SUBSET Answers]
      BY <1>2, <1>4, <1>14, <3>1
    <3>3. \A n \in Machines : \A r \in receipts'[n] :
            r \in receipts[n] \/ (n = m /\ r = Receipt(j))
      BY <1>2, <1>4, <3>1
    <3> QED BY <1>15, <2>2, <3>2, <3>3
  <2> QED BY <2>1, <2>2
<1>17. PInv'
  BY <1>5, <1>7, <1>8, <1>9, <1>10, <1>11, <1>12, <1>16, StepKeeps
<1> QED BY <1>3, <1>6, <1>7, <1>17

(***************************************************************************)
(* The theorems.                                                           *)
(***************************************************************************)
LEMMA StepIs == PInv /\ [PackagesNext]_pvars => PInv' /\ RowsStay
<1> SUFFICES ASSUME PInv, [PackagesNext]_pvars PROVE PInv' /\ RowsStay
  OBVIOUS
<1>1. ASSUME NEW m \in Machines, NEW t \in Types, NEW w \in Subject(t),
             NEW up \in DOMAIN db[m]["villages"] \cup {None}, Create(m, t, w, up)
      PROVE  PInv' /\ RowsStay
  BY <1>1, CreateIs
<1>2. ASSUME NEW m \in Machines, NEW t \in Types, NEW i \in DOMAIN db[m][t], Edit(m, t, i)
      PROVE  PInv' /\ RowsStay
  BY <1>2, EditIs
<1>3. ASSUME NEW m \in Machines,
             \/ \E order \in Orders, since \in Bases(m) : StartExport(m, order, since)
             \/ ReadTable(m)
      PROVE  PInv' /\ RowsStay
  BY <1>3, ExportIs
<1>4. ASSUME NEW m \in Machines,
             \/ RecordPackage(m)
             \/ \E g \in DOMAIN packages, status \in {"validated", "failed"} :
                  Register(m, g, status)
      PROVE  PInv' /\ RowsStay
  BY <1>4, RegisterIs
<1>5. ASSUME NEW m \in Machines, Stop(m) PROVE PInv' /\ RowsStay
  BY <1>5, StopIs
<1>6. ASSUME NEW m \in Machines, NEW c \in Clients, NEW k \in DOMAIN records[m],
             NEW order \in Orders, NEW mode \in Modes, Ask(c, m, k, order, mode)
      PROVE  PInv' /\ RowsStay
  BY <1>6, AskIs
<1>7. ASSUME NEW c \in Clients, Begin(c) \/ ImportType(c) \/ Commit(c) \/ Fail(c)
      PROVE  PInv' /\ RowsStay
  BY <1>7, BeginIs, ImportTypeIs, CommitIs, FailIs
<1>8. CASE UNCHANGED pvars
  <2>1. UNCHANGED <<db, now, packages, records, export, job, lock, receipts>>
    BY <1>8 DEF pvars
  <2>2. Shape' /\ MachinesGood' /\ FilesGood' /\ RecordsName'
    BY <2>1 DEF PInv, Shape, MachinesGood, FilesGood, RecordsName
  <2>3. (\A c \in Clients : ClientSound(c)')
    BY <2>1 DEF PInv, ClientSound, Importing, PackageOf
  <2>4. ReceiptIsTrue'
    BY <2>1 DEF PInv, ReceiptIsTrue
  <2> QED BY <2>1, <2>2, <2>3, <2>4, UnchangedRowsStay DEF PInv
<1> QED BY <1>1, <1>2, <1>3, <1>4, <1>5, <1>6, <1>7, <1>8 DEF PackagesNext

\* Rows change when people work or an import commits.
LEMMA WhoWrites ==
  ASSUME PackagesNext
  PROVE  \/ db' = db
         \/ \E c \in Clients : Commit(c)
         \/ \E m \in Machines : CommitsOn(m)
<1>1. ASSUME NEW m \in Machines, NEW t \in Types, NEW w, NEW up, Create(m, t, w, up)
      PROVE  CommitsOn(m)
  BY <1>1 DEF Create
<1>2. ASSUME NEW m \in Machines, NEW t \in Types, NEW i, Edit(m, t, i)
      PROVE  CommitsOn(m)
  BY <1>2 DEF Edit
<1>3. ASSUME NEW m, NEW order, NEW since, StartExport(m, order, since)
      PROVE  db' = db
  BY <1>3 DEF StartExport
<1>4. ASSUME NEW m, ReadTable(m) \/ RecordPackage(m) \/ Stop(m)
      PROVE  db' = db
  BY <1>4 DEF ReadTable, RecordPackage, Stop
<1>5. ASSUME NEW m, NEW g, NEW status, Register(m, g, status)
      PROVE  db' = db
  BY <1>5 DEF Register
<1>6. ASSUME NEW m, NEW c, NEW k, NEW order, NEW mode, Ask(c, m, k, order, mode)
      PROVE  db' = db
  BY <1>6 DEF Ask
<1>7. ASSUME NEW c, Begin(c) \/ ImportType(c) \/ Fail(c)
      PROVE  db' = db
  BY <1>7 DEF Begin, ImportType, Fail
<1> QED BY <1>1, <1>2, <1>3, <1>4, <1>5, <1>6, <1>7 DEF PackagesNext

\* The tables of an import change when it writes a type.
LEMMA WhoImports ==
  ASSUME PInv, [PackagesNext]_pvars, NEW c \in Clients, Importing(c),
         job'[c].pc = "import", ~ImportType(c)
  PROVE  job'[c].tables = job[c].tables
<1>0. /\ job \in [Clients -> Jobs] /\ job[c].pc = "import"
      /\ NoJob.pc = "idle" /\ job[c] \in Imports
  BY JobIs DEF PInv, Shape, Importing, NoJob
<1>1. ASSUME NEW m, CommitsOn(m) PROVE job'[c].tables = job[c].tables
  BY <1>0, <1>1 DEF CommitsOn, Aged, Imports
<1>2. ASSUME NEW m, NEW t, NEW w, NEW up, Create(m, t, w, up)
      PROVE  job'[c].tables = job[c].tables
  BY <1>1, <1>2 DEF Create
<1>3. ASSUME NEW m, NEW t, NEW i, Edit(m, t, i)
      PROVE  job'[c].tables = job[c].tables
  BY <1>1, <1>3 DEF Edit
<1>4. ASSUME NEW m, NEW order, NEW since, StartExport(m, order, since) \/ ReadTable(m)
      PROVE  job'[c].tables = job[c].tables
  BY <1>4 DEF StartExport, ReadTable
<1>5. ASSUME NEW m, NEW g, NEW status, RecordPackage(m) \/ Register(m, g, status)
      PROVE  job'[c].tables = job[c].tables
  BY <1>1, <1>5 DEF RecordPackage, Register
<1>6. ASSUME NEW m, Stop(m) PROVE job'[c].tables = job[c].tables
  BY <1>0, <1>6 DEF Stop
<1>7. ASSUME NEW m, NEW d \in Clients, NEW k, NEW order, NEW mode,
             Ask(d, m, k, order, mode)
      PROVE  job'[c].tables = job[c].tables
  BY <1>0, <1>7 DEF Ask
<1>8. ASSUME NEW d \in Clients, Begin(d) PROVE job'[c].tables = job[c].tables
  <2>1. d # c
    BY <1>0, <1>8 DEF Begin
  <2> QED BY <1>0, <1>8, <2>1 DEF Begin
<1>9. ASSUME NEW d \in Clients, ImportType(d) \/ Commit(d)
      PROVE  job'[c].tables = job[c].tables
  BY <1>0, <1>9 DEF ImportType, Commit
<1>10. ASSUME NEW d \in Clients, Fail(d) PROVE job'[c].tables = job[c].tables
  <2>1. job'[c] = NoJob \/ job'[c] = Aged(job[d].m)[c]
    BY <1>0, <1>10 DEF Fail, Aged
  <2> QED BY <1>0, <2>1 DEF Aged, Imports
<1>11. CASE UNCHANGED pvars
  BY <1>11 DEF pvars
<1> QED
  BY <1>2, <1>3, <1>4, <1>5, <1>6, <1>7, <1>8, <1>9, <1>10, <1>11 DEF PackagesNext

LEMMA PInvHolds == PackagesSpec => []PInv
<1>1. PInv /\ [PackagesNext]_pvars => PInv'
  BY StepIs
<1> QED BY <1>1, PInvInit, PTL DEF PackagesSpec

\* Tables stay good, packages are what the tables were, records name packages
\* that exist, and imports of one machine run one at a time.
THEOREM PackageTypeOKHolds == PackagesSpec => []PackageTypeOK
<1>1. PInv => PackageTypeOK
  <2> SUFFICES ASSUME PInv PROVE PackageTypeOK
    OBVIOUS
  <2>1. \A c, d \in Clients :
          Importing(c) /\ Importing(d) /\ job[c].m = job[d].m => c = d
    BY OneImport
  <2>2. \A m \in Machines : \A k \in DOMAIN records[m] :
          /\ records[m][k].pkg \in DOMAIN packages
          /\ records[m][k].status \in {"validated", "imported", "failed"}
    <3>1. \A m \in Machines : \A k \in DOMAIN records[m] : records[m][k] \in Record
      BY DEF PInv, Shape
    <3> QED BY <3>1 DEF PInv, RecordsName, Record
  <2> QED BY <2>1, <2>2 DEF PInv, Shape, MachinesGood, FilesGood, PackageTypeOK
<1> QED BY <1>1, PInvHolds, PTL

\* Whatever ids the packages bring, in whatever order they come and however
\* often, no row is ever replaced by another record.
THEOREM NoRowIsTakenOverHolds == PackagesSpec => NoRowIsTakenOver
<1> DEFINE A == \A m \in Machines, t \in Types : \A i \in DOMAIN db[m][t] :
                  /\ i \in DOMAIN db[m][t]'
                  /\ IsThere(db[m][t][i].who, db[m][t][i].who')
<1>1. PInv /\ [PackagesNext]_pvars => [A]_pvars
  BY StepIs DEF RowsStay, Keeps
<1> QED BY <1>1, PInvHolds, PTL DEF PackagesSpec, NoRowIsTakenOver

\* An import that guards by time commits no older version of a row than the one
\* that it replaces, because a commit of a stale snapshot is refused.
THEOREM GuardedImportKeepsEditsHolds == PackagesSpec => GuardedImportKeepsEdits
<1> DEFINE A == \A c \in Clients : Importing(c) /\ job[c].mode = "newer" /\ ~Importing(c)' =>
                  \A t \in Types : \A i \in DOMAIN db[job[c].m][t] :
                    db'[job[c].m][t][i].ver >= db[job[c].m][t][i].ver
<1>1. ASSUME PInv, PackagesNext, NEW c \in Clients, Importing(c), job[c].mode = "newer",
             ~Importing(c)', NEW t \in Types, NEW i \in DOMAIN db[job[c].m][t]
      PROVE  db'[job[c].m][t][i].ver >= db[job[c].m][t][i].ver
  <2>0. job \in [Clients -> Jobs] /\ job[c] \in Imports /\ job[c].m \in Machines
    BY <1>1, JobIs DEF PInv, Shape, Importing, Imports
  <2>1. CASE db' = db
    <3>1. db[job[c].m][t] \in Table
      BY <1>1, <2>0 DEF PInv, Shape, Store
    <3>2. db[job[c].m][t][i].ver \in Nat
      BY <1>1, <3>1, TableIs, RowIs
    <3> QED BY <2>1, <3>2
  <2>2. CASE Commit(c)
    BY <1>1, <2>2, CommitIs DEF Keeps
  <2>3. ASSUME NEW d \in Clients \ {c}, Commit(d) PROVE FALSE
    BY <1>1, <2>0, <2>3 DEF Commit, Importing
  <2>4. ASSUME NEW m \in Machines, CommitsOn(m) PROVE FALSE
    BY <1>1, <2>0, <2>4 DEF CommitsOn, Aged, Importing, Imports
  <2> QED BY <1>1, <2>1, <2>2, <2>3, <2>4, WhoWrites
<1>2. PInv /\ [PackagesNext]_pvars => [A]_pvars
  BY <1>1
<1> QED BY <1>2, PInvHolds, PTL DEF PackagesSpec, GuardedImportKeepsEdits

\* An answer of confirm_import without errors is true, and stays so whatever comes
\* after it; incremental_import answers without errors whatever was lost.
THEOREM ReceiptIsTrueHolds == PackagesSpec => []ReceiptIsTrue
<1>1. PInv => ReceiptIsTrue
  BY DEF PInv
<1> QED BY <1>1, PInvHolds, PTL

\* Projects written after their villages are attached to them, wherever their
\* villages are: the map of moved ids leads to the row that every village of
\* the package has become.
THEOREM ProjectsFollowVillagesHolds == PackagesSpec => ProjectsFollowVillages
<1> DEFINE Follows(c, g, k) ==
      LET before == job[c].tables["projects"]
          after == job'[c].tables["projects"]
      IN \/ k \in DOMAIN before /\ before[k] = after[k]
         \/ \E i \in DOMAIN Accepted(g, "projects") :
              LET home == g["projects"][i].up IN
              /\ g["projects"][i].who = after[k].who
              /\ home \in DOMAIN Accepted(g, "villages") =>
                   IsThere(g["villages"][home].who,
                           job'[c].tables["villages"][after[k].up].who)
<1>1. ASSUME PInv, [PackagesNext]_pvars, NEW c \in Clients, Importing(c),
             job'[c].pc = "import", "villages" \in job[c].done \ job[c].failed,
             NEW k \in DOMAIN job'[c].tables["projects"]
      PROVE  Follows(c, PackageOf(job[c]), k)
  <2> DEFINE j == job[c]
  <2> DEFINE t == Head(j.todo)
  <2> DEFINE g == PackageOf(j)
  <2>1. CASE ~ImportType(c)
    BY <1>1, <2>1, WhoImports
  <2>2. CASE ImportType(c)
    <3>1. j \in Imports /\ j # NoJob /\ j.todo # <<>> /\ j.todo \in Seq(Types)
            /\ j.tables \in Store /\ j.moved \in [Types -> Moves]
      <4>1. j \in Imports
        BY <1>1, JobIs DEF PInv, Shape, Importing
      <4>2. j # NoJob
        BY <4>1, JobIs DEF Jobs
      <4> QED BY <2>2, <4>1, <4>2 DEF Imports, ImportType
    <3>2. t \in Types /\ job'[c] = Imported(j, t)
      <4>1. job \in [Clients -> Jobs]
        BY <1>1 DEF PInv, Shape
      <4>2. job' = [job EXCEPT ![c] = Imported(j, t)]
        BY <2>2 DEF ImportType
      <4>3. t \in Types
        BY <3>1
      <4> QED BY <4>1, <4>2, <4>3
    <3>3. Grows
      BY <1>1, <2>2, FewerAreFine DEF ImportType
    <3>4. g \in Store /\ \A s \in Types : GoodRows(s, g[s])
      BY <1>1, <3>1, <3>3, PackageStays
    <3>5. GoodTables(j.tables) /\ Landed(g, j, "villages")
      BY <1>1 DEF PInv, ClientSound, AllLanded, Types
    <3> DEFINE R == Rows(j, t)
    <3>6. PICK V \in Table, at \in Moves, failed \in BOOLEAN : Writes(j, t, V, at, failed)
      BY <3>1, <3>2, <3>4, <3>5, ImportedRows
    <3>7. /\ job'[c].tables = [j.tables EXCEPT ![t] = V]
          /\ \A x \in DOMAIN V : \/ x \in DOMAIN j.tables[t] /\ V[x] = j.tables[t][x]
                                \/ \E i \in DOMAIN R : V[x] = R[i]
      <4>1. /\ Imported(j, t) =
                 [j EXCEPT !.todo = Tail(j.todo), !.done = j.done \cup {t},
                           !.tables[t] = V, !.moved[t] = Remapped(j.moved[t], at),
                           !.failed = IF failed THEN j.failed \cup {t} ELSE j.failed,
                           !.wrote = j.wrote \/ DOMAIN R # {}]
            /\ \A x \in DOMAIN V : \/ x \in DOMAIN j.tables[t] /\ V[x] = j.tables[t][x]
                                  \/ \E i \in DOMAIN R : V[x] = R[i]
        BY <3>6 DEF Writes
      <4> HIDE DEF j, t, R
      <4>2. Imported(j, t).tables = [j.tables EXCEPT ![t] = V]
        BY <3>1, <4>1 DEF Imports
      <4> QED BY <3>2, <4>1, <4>2
    <3>8. CASE t = "villages"
      <4>1. job'[c].tables["projects"] = j.tables["projects"]
        BY <3>1, <3>7, <3>8 DEF Store, Types
      <4> QED BY <4>1
    <3>9. CASE t = "projects"
      <4>1. /\ job'[c].tables["projects"] = V
            /\ job'[c].tables["villages"] = j.tables["villages"]
        BY <3>1, <3>7, <3>9 DEF Store, Types
      <4>2. CASE k \in DOMAIN j.tables[t] /\ V[k] = j.tables[t][k]
        BY <3>9, <4>1, <4>2
      <4>3. CASE \E i \in DOMAIN R : V[k] = R[i]
        <5>1. PICK i \in DOMAIN R : V[k] = R[i]
          BY <4>3
        <5> DEFINE home == g["projects"][i].up
        <5>2. /\ i \in DOMAIN Accepted(g, "projects")
              /\ R[i].who = g["projects"][i].who
              /\ home \in DOMAIN j.moved["villages"] => R[i].up = j.moved["villages"][home]
              /\ home \notin DOMAIN j.moved["villages"] => R[i].up = home
          BY <3>1, <3>2, <3>4, <3>9, RowsIs
        <5>3. R[i].up = At(j, "villages", home)
          BY <5>2 DEF At
        <5>4. home \in DOMAIN Accepted(g, "villages") =>
                LandedAt(g["villages"][home].who, R[i].up, j.tables["villages"])
          BY <3>5, <5>3 DEF Landed
        <5> HIDE DEF R, g, j
        <5> QED BY <4>1, <5>1, <5>2, <5>4 DEF LandedAt, g, j
      <4> QED BY <1>1, <3>7, <3>9, <4>1, <4>2, <4>3
    <3> QED BY <3>2, <3>8, <3>9 DEF Types
  <2> QED BY <2>1, <2>2
<1>2. PInv /\ [PackagesNext]_pvars =>
        [\A c \in Clients :
           /\ Importing(c) /\ job'[c].pc = "import"
           /\ "villages" \in job[c].done \ job[c].failed
           => \A k \in DOMAIN job'[c].tables["projects"] :
                Follows(c, PackageOf(job[c]), k)]_pvars
  <2> HIDE DEF Follows
  <2> QED BY <1>1
<1> QED BY <1>2, PInvHolds, PTL DEF PackagesSpec, ProjectsFollowVillages
=============================================================================
