---------------------------- MODULE SchemaProofs ----------------------------
(***************************************************************************)
(* Proofs about lists and sets, and about universal-schema.                *)
(***************************************************************************)
EXTENDS Packages, Sequences, FiniteSetTheorems, SequenceTheorems, WellFoundedInduction, TLAPS

-----------------------------------------------------------------------------
\* A set of naturals with an element has a least one.
LEMMA LeastNatural ==
    ASSUME NEW T \in SUBSET Nat, T # {} PROVE \E m \in T : \A k \in T : m <= k
<1> DEFINE R == OpToRel(<, Nat)
<1>1. IsWellFoundedOn(R, Nat)
  BY NatLessThanWellFounded
<1> HIDE DEF R
<1>2. PICK m \in T : \A k \in T : <<k, m>> \notin R
  BY <1>1, WFMin
<1>3. \A k \in T : ~ (k < m)
  BY <1>2 DEF R, OpToRel
<1> QED
  BY <1>2, <1>3

\* A set that holds a, and with each number below b the next, holds all from a to b.
LEMMA HoldsUpTo ==
    ASSUME NEW a \in Nat, NEW b \in Nat, NEW T, a \in T, \A n \in a .. b - 1 : n \in T => n + 1 \in T
    PROVE  a .. b \subseteq T
<1> DEFINE missing == (a .. b) \ T
<1> SUFFICES ASSUME missing # {} PROVE FALSE
  OBVIOUS
<1>0. missing \in SUBSET Nat
  OBVIOUS
<1> HIDE DEF missing
<1>1. PICK m \in missing : \A k \in missing : m <= k
  BY <1>0, LeastNatural
<1> USE DEF missing
<1>2. m - 1 \in a .. b - 1 /\ m - 1 \in T
  BY <1>1
<1> QED
  BY <1>1, <1>2

\* A finite set with a total order can be written down in that order.
LEMMA Sorted ==
    ASSUME NEW S, IsFiniteSet(S), NEW R,
           \A x \in S : <<x, x>> \in R,
           \A x, y \in S : <<x, y>> \in R \/ <<y, x>> \in R,
           \A x, y \in S : <<x, y>> \in R /\ <<y, x>> \in R => x = y,
           \A x, y, z \in S : <<x, y>> \in R /\ <<y, z>> \in R => <<x, z>> \in R
    PROVE  \E s \in [1 .. Cardinality(S) -> S] :
                /\ \A n, m \in 1 .. Cardinality(S) : n # m => s[n] # s[m]
                /\ \A x \in S : \E n \in 1 .. Cardinality(S) : s[n] = x
                /\ \A n, m \in 1 .. Cardinality(S) : n < m => <<s[n], s[m]>> \in R
<1> DEFINE N == Cardinality(S)
           Upto(x) == {y \in S : <<y, x>> \in R}
           rank == [x \in S |-> Cardinality(Upto(x))]
<1>1. N \in Nat
  BY FS_CardinalityType
<1>2. ASSUME NEW x \in S PROVE IsFiniteSet(Upto(x)) /\ Cardinality(Upto(x)) \in 1 .. N
  <2>1. Upto(x) \in SUBSET S /\ x \in Upto(x)
    OBVIOUS
  <2>2. IsFiniteSet(Upto(x)) /\ Cardinality(Upto(x)) <= N
    BY <2>1, FS_Subset
  <2>3. Cardinality(Upto(x)) \in Nat /\ Cardinality(Upto(x)) # 0
    BY <2>1, <2>2, FS_CardinalityType, FS_EmptySet
  <2> HIDE DEF Upto, N
  <2> QED
    BY <1>1, <2>2, <2>3
<1>3. ASSUME NEW x \in S, NEW y \in S, x # y, <<x, y>> \in R
      PROVE  Cardinality(Upto(x)) < Cardinality(Upto(y))
  <2>1. Upto(x) \in SUBSET Upto(y) /\ y \in Upto(y) /\ y \notin Upto(x)
    BY <1>3
  <2>2. /\ IsFiniteSet(Upto(y)) /\ Cardinality(Upto(x)) \in Nat /\ Cardinality(Upto(y)) \in Nat
    BY <1>2
  <2> HIDE DEF Upto
  <2>3. Cardinality(Upto(x)) <= Cardinality(Upto(y)) /\ Cardinality(Upto(x)) # Cardinality(Upto(y))
    BY <2>1, <2>2, FS_Subset
  <2> QED
    BY <2>2, <2>3
<1>4. rank \in [S -> 1 .. N]
  BY <1>2
<1>5. \A x, y \in S : x # y /\ <<x, y>> \in R => rank[x] < rank[y]
  BY <1>3
<1> HIDE DEF rank, N
<1>6. \A x, y \in S : rank[x] = rank[y] => x = y
  <2> SUFFICES ASSUME NEW x \in S, NEW y \in S, rank[x] = rank[y], x # y PROVE FALSE
    OBVIOUS
  <2>1. rank[x] \in Int /\ rank[y] \in Int
    BY <1>1, <1>4
  <2>2. rank[x] < rank[y] \/ rank[y] < rank[x]
    BY <1>5
  <2> QED
    BY <2>1, <2>2
<1>7. rank \in Injection(S, 1 .. N)
  BY <1>4, <1>6 DEF Injection, IsInjective
<1>8. IsFiniteSet(1 .. N) /\ Cardinality(1 .. N) = N
  BY <1>1, FS_Interval
<1>9. rank \in Surjection(S, 1 .. N)
  BY <1>7, <1>8, FS_Injection DEF N
<1>10. \A n \in 1 .. N : \E x \in S : rank[x] = n
  BY <1>9 DEF Surjection
<1> DEFINE s == [n \in 1 .. N |-> CHOOSE x \in S : rank[x] = n]
<1>11. s \in [1 .. N -> S] /\ \A n \in 1 .. N : rank[s[n]] = n
  BY <1>10
<1> HIDE DEF s
<1>12. \A n, m \in 1 .. N : n # m => s[n] # s[m]
  BY <1>11
<1>13. \A x \in S : s[rank[x]] = x
  BY <1>4, <1>6, <1>11
<1>14. \A n, m \in 1 .. N : n < m => <<s[n], s[m]>> \in R
  <2> SUFFICES ASSUME NEW n \in 1 .. N, NEW m \in 1 .. N, n < m, <<s[n], s[m]>> \notin R PROVE FALSE
    OBVIOUS
  <2>1. s[n] \in S /\ s[m] \in S /\ rank[s[n]] = n /\ rank[s[m]] = m /\ s[m] # s[n]
    BY <1>11, <1>12
  <2>2. <<s[m], s[n]>> \in R
    BY <2>1
  <2>3. m < n
    BY <1>5, <2>1, <2>2
  <2> QED
    BY <2>3
<1> QED
  BY <1>4, <1>11, <1>12, <1>13, <1>14 DEF N

\* What the sequences add up to, if each addition is known.
LEMMA Flattened ==
    ASSUME NEW S, NEW seqs \in Seq(Seq(S)), Len(seqs) # 0, NEW sum \in [1 .. Len(seqs) -> Seq(S)],
           sum[1] = seqs[1], \A i \in 2 .. Len(seqs) : sum[i] = sum[i - 1] \o seqs[i]
    PROVE  Crud!FlattenSeq(seqs) = sum[Len(seqs)]
<1> DEFINE N == Len(seqs)
           Flat(f) == f = [i \in 1 .. N |-> IF i = 1 THEN seqs[i] ELSE f[i - 1] \o seqs[i]]
           flat == CHOOSE f : Flat(f)
<1>1. N \in Nat \ {0} /\ N \in Nat /\ N >= 1 /\ 1 .. N = DOMAIN sum
  <2>1. N \in Nat
    BY LenProperties
  <2> QED
    BY <2>1
<1>2. Crud!FlattenSeq(seqs) = flat[N]
  BY DEF Crud!FlattenSeq
<1>3. Flat(sum)
  <2>1. \A i \in 1 .. N : i # 1 => i \in 2 .. N
    BY <1>1
  <2>3. \A i \in 1 .. N : sum[i] = IF i = 1 THEN seqs[i] ELSE sum[i - 1] \o seqs[i]
    BY <2>1
  <2>2. sum = [i \in 1 .. N |-> sum[i]]
    OBVIOUS
  <2> QED
    BY <2>3, <2>2
<1>4. Flat(flat)
  <2> HIDE DEF Flat
  <2> QED
    BY <1>3
<1>5. \A i \in 1 .. N : flat[i] = IF i = 1 THEN seqs[i] ELSE flat[i - 1] \o seqs[i]
  <2> DEFINE g == flat
  <2>1. g = [i \in 1 .. N |-> IF i = 1 THEN seqs[i] ELSE g[i - 1] \o seqs[i]]
    BY <1>4
  <2> HIDE DEF g
  <2>2. \A i \in 1 .. N : g[i] = IF i = 1 THEN seqs[i] ELSE g[i - 1] \o seqs[i]
    BY <2>1
  <2> QED
    BY <2>2 DEF g
<1> DEFINE same == {i \in 1 .. N : flat[i] = sum[i]}
<1> HIDE DEF flat
<1>6. 1 \in same
  BY <1>1, <1>5
<1>7. \A i \in 1 .. N - 1 : i \in same => i + 1 \in same
  <2> SUFFICES ASSUME NEW i \in 1 .. N - 1, flat[i] = sum[i] PROVE flat[i + 1] = sum[i + 1] /\ i + 1 \in 1 .. N
    OBVIOUS
  <2>1. i + 1 \in 2 .. N /\ i + 1 \in 1 .. N /\ i + 1 # 1 /\ (i + 1) - 1 = i
    BY <1>1
  <2>2. flat[i + 1] = flat[(i + 1) - 1] \o seqs[i + 1]
    BY <1>5, <2>1
  <2>3. sum[i + 1] = sum[(i + 1) - 1] \o seqs[i + 1]
    BY <2>1
  <2> QED
    BY <2>1, <2>2, <2>3
<1> HIDE DEF same
<1>8. 1 .. N \subseteq same
  BY <1>1, <1>6, <1>7, HoldsUpTo
<1>9. N \in same
  <2> N \in 1 .. N
    BY <1>1
  <2> QED
    BY <1>8
<1> QED
  BY <1>2, <1>9 DEF same

-----------------------------------------------------------------------------
(***************************************************************************)
(* universal-schema.  What a list of fragments is, and the invariant of    *)
(* its loops.                                                              *)
(***************************************************************************)
\* No fragment is twice in a list.
Distinct(fs) == \A n, m \in DOMAIN fs : n # m => fs[n] # fs[m]

\* What a fragment waits for, and a list in which each has it before it.
Needs(f) == Schemas!Deps(f) \union (IF f.mode = "extend" THEN {f.table} ELSE {})

InOrder(fs) == \A n \in DOMAIN fs : Needs(fs[n]) \subseteq Schemas!CreatedBefore(fs, n)

Orderable == \E fs \in Schemas!SetToSeqs(Schemas!ToSet(fragments)) : InOrder(fs)

\* The lists.
ListsInv ==
    /\ Distinct(fragments) /\ Distinct(out) /\ Schemas!ToSet(out) \subseteq Schemas!ToSet(fragments)
    /\ cursor <= Len(Schemas!List) + 1
    /\ stage \in {"collect", "references", "done"} => cursor = 1
    /\ stage = "collect" => out = <<>>

\* The order: what the passes emit has what it needs before it, and what one that
\* emits nothing leaves, no order of the fragments has.
OrderInv ==
    /\ stage \in {"collect", "order"} => InOrder(out)
    /\ stage = "order" /\ ~progress =>
        \A n \in 1 .. cursor - 1 : fragments[n] \in Schemas!ToSet(out) \/ ~Schemas!Ready(fragments[n])
    /\ stage \notin {"collect", "order"} /\ Orderable => InOrder(out) /\ Schemas!ToSet(out) = Schemas!ToSet(fragments)
    /\ stage = "rest" => \A n \in 1 .. cursor - 1 : fragments[n] \in Schemas!ToSet(out)
    /\ stage \notin {"collect", "order", "rest"} => Schemas!ToSet(out) = Schemas!ToSet(fragments)

\* The fragments that were merged so far.
Merged ==
    LET done == {out[n] : n \in 1 .. cursor - 1}
    IN  CASE stage = "creates" -> Schemas!Creates(done)
          [] stage = "extends" -> Schemas!Creates(Schemas!ToSet(out)) \union {f \in done : f.mode = "extend"}
          [] stage \in {"references", "files", "done"} -> Schemas!ToSet(out)
          [] OTHER -> {}

\* The merge: so far there are conflicts if the merged fragments have some, and
\* if not the tables are those that they say.
MergeInv ==
    /\ DOMAIN tables = Schemas!TablesOf(Schemas!Creates(Merged))
    /\ conflicts = {} => tables = Schemas!TablesFrom(Merged)
    /\ stage \notin {"files", "done"} => (conflicts = {} <=> Schemas!Apart(Merged))
    /\ stage \in {"files", "done"} => (conflicts = {} <=> Schemas!Compatible(Merged))

\* The migrations: without conflicts no fragment is skipped.
FilesInv ==
    /\ stage \notin {"files", "done"} => files = <<>>
    /\ stage = "files" => conflicts = {} /\ files = SubSeq(out, 1, cursor - 1)
    /\ stage = "done" /\ conflicts = {} => files = out

SchemaInv == Schemas!TypeOK /\ ListsInv /\ OrderInv /\ MergeInv /\ FilesInv

-----------------------------------------------------------------------------
\* Lists and what they hold.
LEMMA Listed ==
    ASSUME NEW S, NEW s \in Seq(S)
    PROVE  /\ Len(s) \in Nat /\ DOMAIN s = 1 .. Len(s)
           /\ Schemas!ToSet(s) \subseteq S /\ \A n \in 1 .. Len(s) : s[n] \in Schemas!ToSet(s)
           /\ \A e \in Schemas!ToSet(s) : \E n \in 1 .. Len(s) : s[n] = e
BY DEF Schemas!ToSet

LEMMA Appended ==
    ASSUME NEW S, NEW s \in Seq(S), NEW e \in S
    PROVE  /\ Append(s, e) \in Seq(S) /\ Len(Append(s, e)) = Len(s) + 1
           /\ \A n \in 1 .. Len(s) : Append(s, e)[n] = s[n]
           /\ Append(s, e)[Len(s) + 1] = e
           /\ Schemas!ToSet(Append(s, e)) = Schemas!ToSet(s) \union {e}
           /\ Distinct(s) /\ e \notin Schemas!ToSet(s) => Distinct(Append(s, e))
<1> DEFINE t == Append(s, e)
<1>1. /\ t \in Seq(S) /\ Len(t) = Len(s) + 1 /\ Len(s) \in Nat
      /\ \A n \in 1 .. Len(s) : t[n] = s[n]
      /\ t[Len(s) + 1] = e
  BY AppendProperties, LenProperties
<1> HIDE DEF t
<1>2. DOMAIN t = 1 .. Len(s) + 1 /\ DOMAIN s = 1 .. Len(s)
  BY <1>1
<1>3. Schemas!ToSet(t) = Schemas!ToSet(s) \union {e}
  <2>1. \A n \in DOMAIN t : n \in DOMAIN s \/ n = Len(s) + 1
    BY <1>1, <1>2
  <2>2. \A n \in DOMAIN s : n \in DOMAIN t
    BY <1>1, <1>2
  <2>3. Len(s) + 1 \in DOMAIN t
    BY <1>1, <1>2
  <2> QED
    BY <1>1, <1>2, <2>1, <2>2, <2>3 DEF Schemas!ToSet
<1>4. ASSUME Distinct(s), e \notin Schemas!ToSet(s), NEW n \in DOMAIN t, NEW m \in DOMAIN t, n # m
      PROVE  t[n] # t[m]
  <2>1. (n \in DOMAIN s \/ n = Len(s) + 1) /\ (m \in DOMAIN s \/ m = Len(s) + 1)
    BY <1>1, <1>2, <1>4
  <2>2. \A k \in DOMAIN s : t[k] = s[k] /\ s[k] # e
    BY <1>1, <1>2, <1>4 DEF Schemas!ToSet
  <2>3. n \in DOMAIN s /\ m \in DOMAIN s => s[n] # s[m]
    BY <1>4 DEF Distinct
  <2> QED
    BY <1>1, <1>4, <2>1, <2>2, <2>3
<1> QED
  BY <1>1, <1>3, <1>4 DEF t, Distinct

\* A list without repetition is as long as what it holds is large.
LEMMA DistinctCardinality ==
    ASSUME NEW S, NEW s \in Seq(S), Distinct(s)
    PROVE  IsFiniteSet(Schemas!ToSet(s)) /\ Cardinality(Schemas!ToSet(s)) = Len(s)
<1>1. Len(s) \in Nat /\ DOMAIN s = 1 .. Len(s)
  BY LenProperties
<1>2. s \in [1 .. Len(s) -> Schemas!ToSet(s)]
  BY <1>1 DEF Schemas!ToSet
<1>3. s \in Bijection(1 .. Len(s), Schemas!ToSet(s))
  BY <1>1, <1>2 DEF Distinct, Schemas!ToSet, Bijection, Injection, Surjection, IsInjective
<1>4. IsFiniteSet(1 .. Len(s)) /\ Cardinality(1 .. Len(s)) = Len(s)
  BY <1>1, FS_Interval
<1>5. ExistsBijection(1 .. Len(s), Schemas!ToSet(s))
  BY <1>3 DEF ExistsBijection
<1> QED
  BY <1>4, <1>5, FS_Bijection

LEMMA DistinctLength ==
    ASSUME NEW S, NEW s \in Seq(S), NEW t \in Seq(S), Distinct(s), Distinct(t), Schemas!ToSet(s) \subseteq Schemas!ToSet(t)
    PROVE  Len(s) <= Len(t) /\ (Len(s) >= Len(t) => Schemas!ToSet(s) = Schemas!ToSet(t))
<1>1. /\ IsFiniteSet(Schemas!ToSet(t)) /\ Cardinality(Schemas!ToSet(t)) = Len(t)
      /\ Cardinality(Schemas!ToSet(s)) = Len(s) /\ Len(s) \in Nat /\ Len(t) \in Nat
  BY DistinctCardinality, LenProperties
<1> QED
  BY <1>1, FS_Subset

\* The orders of a finite set.
LEMMA Orders ==
    ASSUME NEW S, IsFiniteSet(S), NEW fs \in Schemas!SetToSeqs(S)
    PROVE  /\ fs \in Seq(S) /\ Len(fs) \in Nat /\ DOMAIN fs = 1 .. Len(fs)
           /\ Distinct(fs) /\ Schemas!ToSet(fs) = S
<1> DEFINE N == Cardinality(S)
<1>1. N \in Nat
  BY FS_CardinalityType
<1>2. fs \in [1 .. N -> S] /\ \A n, m \in 1 .. N : n # m => fs[n] # fs[m]
  BY DEF Schemas!SetToSeqs, Schemas!Cardinality, Schemas!IsFiniteSet, Cardinality
<1> HIDE DEF N
<1>3. fs \in Seq(S) /\ Len(fs) = N /\ DOMAIN fs = 1 .. N
  BY <1>1, <1>2
<1>4. Distinct(fs)
  BY <1>2, <1>3 DEF Distinct
<1>5. Schemas!ToSet(fs) \in SUBSET S /\ Cardinality(Schemas!ToSet(fs)) = N
  BY <1>3, <1>4, DistinctCardinality, Listed
<1>6. Schemas!ToSet(fs) = S
  BY <1>5, FS_Subset DEF N
<1> QED
  BY <1>1, <1>3, <1>4, <1>6

\* The tables created before a position.
LEMMA BeforeAppended ==
    ASSUME NEW S, NEW s \in Seq(S), NEW e \in S
    PROVE  /\ \A n \in 1 .. Len(s) + 1 : Schemas!CreatedBefore(Append(s, e), n) = Schemas!CreatedBefore(s, n)
           /\ Schemas!CreatedBefore(s, Len(s) + 1) = Schemas!Created(s)
<1>1. Len(s) \in Nat /\ DOMAIN s = 1 .. Len(s)
  BY LenProperties
<1>2. \A n \in 1 .. Len(s) : Append(s, e)[n] = s[n]
  BY AppendProperties
<1>3. ASSUME NEW n \in 1 .. Len(s) + 1 PROVE Schemas!CreatedBefore(Append(s, e), n) = Schemas!CreatedBefore(s, n)
  <2>1. \A m \in 1 .. n - 1 : Append(s, e)[m] = s[m]
    BY <1>1, <1>2
  <2>2. {Append(s, e)[m] : m \in 1 .. n - 1} = {s[m] : m \in 1 .. n - 1}
    BY <2>1
  <2> QED
    BY <2>2 DEF Schemas!CreatedBefore
<1>4. Schemas!CreatedBefore(s, Len(s) + 1) = Schemas!Created(s)
  <2>1. 1 .. (Len(s) + 1) - 1 = DOMAIN s
    BY <1>1
  <2>2. {s[m] : m \in 1 .. (Len(s) + 1) - 1} = Schemas!ToSet(s)
    BY <2>1 DEF Schemas!ToSet
  <2> QED
    BY <2>2 DEF Schemas!CreatedBefore, Schemas!Created, Schemas!Creates
<1> QED
  BY <1>3, <1>4

\* What is created before a position is created.
LEMMA BeforeIsCreated ==
    ASSUME NEW S, NEW s \in Seq(S), NEW n \in 1 .. Len(s) + 1
    PROVE  Schemas!CreatedBefore(s, n) \subseteq Schemas!Created(s)
<1>1. Len(s) \in Nat /\ DOMAIN s = 1 .. Len(s)
  BY LenProperties
<1>2. \A m \in 1 .. n - 1 : m \in DOMAIN s
  BY <1>1
<1> QED
  BY <1>2 DEF Schemas!CreatedBefore, Schemas!Created, Schemas!Creates, Schemas!TablesOf, Schemas!ToSet

\* An extension has keys of a column alone, and the column is its own.
LEMMA FragmentFields ==
    ASSUME Schemas!FragmentConstants, NEW f \in Schemas!Fragment
    PROVE  /\ f.mode \in {"create", "extend"}
           /\ f.mode = "extend" => \A r \in f.references : \E c \in f.columns : r.from = {c}
<1>1. PICK g \in Fragments : f = Schemas!Contributed(g)
  BY DEF Schemas!Fragment
<1>2. /\ DOMAIN g = {"mode", "table", "columns", "references"} /\ g.mode \in {"create", "extend"}
      /\ \A r \in g.references : r.level = "column" => \E c \in g.columns : r.from = {c}
  BY DEF Schemas!FragmentConstants
<1> QED
  BY <1>1, <1>2 DEF Schemas!Contributed

-----------------------------------------------------------------------------
\* The lists hold what they should, and no fragment twice.
LEMMA Lengths ==
    ASSUME Schemas!FragmentConstants, Schemas!TypeOK, ListsInv
    PROVE  /\ MaxFragments \in Nat /\ cursor \in Nat /\ cursor >= 1
           /\ fragments \in Seq(Schemas!Fragment) /\ out \in Seq(Schemas!Fragment) /\ files \in Seq(Schemas!Fragment)
           /\ Len(fragments) \in Nat /\ Len(out) \in Nat
           /\ Len(out) <= Len(fragments) /\ Len(fragments) <= MaxFragments
           /\ Len(out) >= Len(fragments) => Schemas!ToSet(out) = Schemas!ToSet(fragments)
<1>1. fragments \in Seq(Schemas!Fragment) /\ out \in Seq(Schemas!Fragment) /\ files \in Seq(Schemas!Fragment)
  BY DEF Schemas!TypeOK
<1>2. Len(out) <= Len(fragments) /\ (Len(out) >= Len(fragments) => Schemas!ToSet(out) = Schemas!ToSet(fragments))
  BY <1>1, DistinctLength DEF ListsInv
<1> QED
  BY <1>1, <1>2, LenProperties DEF Schemas!TypeOK, Schemas!FragmentConstants

\* A step of a loop is at a fragment of its list.
LEMMA AtFragment ==
    ASSUME Schemas!FragmentConstants, Schemas!TypeOK, ListsInv, NEW s, Schemas!At(s)
    PROVE  /\ cursor \in 1 .. Len(Schemas!List) /\ cursor \in Nat /\ cursor' = cursor + 1
           /\ stage = s /\ stage' = s /\ cursor' \in 1 .. MaxFragments + 1
           /\ s \in {"order", "rest"} => Schemas!List = fragments
           /\ s \notin {"order", "rest"} => Schemas!List = out
           /\ Schemas!List[cursor] \in Schemas!Fragment /\ Schemas!List[cursor] \in Schemas!ToSet(Schemas!List)
           /\ Schemas!List[cursor].mode \in {"create", "extend"}
<1>1. /\ Schemas!List \in {fragments, out} /\ Schemas!List \in Seq(Schemas!Fragment)
      /\ Len(Schemas!List) \in Nat /\ Len(Schemas!List) <= MaxFragments
  BY Lengths DEF Schemas!List
<1>2. /\ cursor <= Len(Schemas!List) /\ cursor' = cursor + 1 /\ stage = s /\ stage' = s
      /\ cursor \in Nat /\ cursor >= 1 /\ MaxFragments \in Nat
  BY Lengths DEF Schemas!At
<1>3. cursor \in 1 .. Len(Schemas!List) /\ cursor' \in 1 .. MaxFragments + 1
  BY <1>1, <1>2
<1>4. Schemas!List[cursor] \in Schemas!Fragment /\ Schemas!List[cursor] \in Schemas!ToSet(Schemas!List)
  BY <1>1, <1>3, Listed
<1>5. Schemas!List[cursor].mode \in {"create", "extend"}
  BY <1>4, FragmentFields
<1> QED
  BY <1>2, <1>3, <1>4, <1>5 DEF Schemas!List

LEMMA ListsStep ==
    ASSUME Schemas!FragmentConstants, Schemas!TypeOK, ListsInv, Schemas!Next PROVE Schemas!TypeOK' /\ ListsInv'
<1>1. ASSUME NEW f \in Fragments, Schemas!Contribute(f) PROVE Schemas!TypeOK' /\ ListsInv'
  <2> DEFINE e == Schemas!Contributed(f)
  <2>1. /\ stage = "collect" /\ Len(fragments) < MaxFragments /\ fragments' = Schemas!Dedupe(fragments, e)
        /\ UNCHANGED <<stage, cursor, out, progress, tables, conflicts, files>>
    BY <1>1 DEF Schemas!Contribute
  <2>2. e \in Schemas!Fragment
    BY DEF Schemas!Fragment
  <2> HIDE DEF e
  <2>3. cursor = 1 /\ out = <<>>
    BY <2>1 DEF ListsInv
  <2>4. /\ fragments' \in Seq(Schemas!Fragment) /\ Len(fragments') \in Nat /\ Len(fragments') <= MaxFragments
        /\ Distinct(fragments')
    <3>1. CASE e \in Schemas!ToSet(fragments)
      BY <2>1, <3>1, Lengths DEF Schemas!Dedupe, ListsInv
    <3>2. CASE e \notin Schemas!ToSet(fragments)
      <4>1. fragments' = Append(fragments, e)
        BY <2>1, <3>2 DEF Schemas!Dedupe
      <4>2. /\ Append(fragments, e) \in Seq(Schemas!Fragment) /\ Len(Append(fragments, e)) = Len(fragments) + 1
            /\ Distinct(Append(fragments, e))
        BY <2>2, <3>2, Lengths, Appended DEF ListsInv
      <4> QED
        BY <2>1, <4>1, <4>2, Lengths
    <3> QED
      BY <3>1, <3>2
  <2>5. Schemas!ToSet(out') \subseteq Schemas!ToSet(fragments') /\ Distinct(out')
    BY <2>1, <2>3 DEF Schemas!ToSet, Distinct
  <2>6. cursor' <= Len(Schemas!List') + 1
    BY <2>1, <2>3 DEF Schemas!List
  <2> QED
    BY <2>1, <2>3, <2>4, <2>5, <2>6 DEF Schemas!TypeOK, ListsInv
<1>2. CASE Schemas!Generate
  BY <1>2, Lengths DEF Schemas!Generate, Schemas!TypeOK, ListsInv, Schemas!List
<1>3. CASE Schemas!Visit
  <2> DEFINE f == fragments[cursor]
  <2>1. /\ Schemas!At("order")
        /\ \/ f \notin Schemas!ToSet(out) /\ out' = Append(out, f) /\ progress' = TRUE
           \/ UNCHANGED <<out, progress>>
        /\ UNCHANGED <<fragments, tables, conflicts, files>>
    BY <1>3 DEF Schemas!Visit
  <2>2. /\ cursor \in 1 .. Len(fragments) /\ cursor' = cursor + 1 /\ cursor' \in 1 .. MaxFragments + 1
        /\ stage = "order" /\ stage' = "order" /\ f \in Schemas!Fragment /\ f \in Schemas!ToSet(fragments)
    BY <2>1, AtFragment
  <2> HIDE DEF f
  <2>3. out' \in Seq(Schemas!Fragment) /\ Distinct(out') /\ Schemas!ToSet(out') \subseteq Schemas!ToSet(fragments)
    <3>1. CASE UNCHANGED out
      BY <3>1, Lengths DEF ListsInv
    <3>2. CASE f \notin Schemas!ToSet(out) /\ out' = Append(out, f)
      <4>1. /\ Append(out, f) \in Seq(Schemas!Fragment) /\ Distinct(Append(out, f))
            /\ Schemas!ToSet(Append(out, f)) = Schemas!ToSet(out) \union {f}
        BY <2>2, <3>2, Lengths, Appended DEF ListsInv
      <4> QED
        BY <2>2, <3>2, <4>1 DEF ListsInv
    <3> QED
      BY <2>1, <3>1, <3>2
  <2>4. cursor' <= Len(Schemas!List') + 1
    BY <2>1, <2>2, Lengths DEF Schemas!List
  <2> QED
    BY <2>1, <2>2, <2>3, <2>4, Lengths DEF Schemas!TypeOK, ListsInv
<1>4. CASE Schemas!EndPass
  <2>1. /\ stage = "order" /\ cursor' = 1 /\ stage' \in {"order", "rest"}
        /\ progress' = FALSE /\ UNCHANGED <<fragments, out, tables, conflicts, files>>
    BY <1>4 DEF Schemas!EndPass, Schemas!After
  <2>2. Schemas!List' = fragments
    BY <2>1 DEF Schemas!List
  <2>3. Schemas!TypeOK'
    <3>1. progress' \in BOOLEAN
      BY <2>1
    <3>2. cursor' \in 1 .. MaxFragments + 1
      BY <2>1, Lengths
    <3> QED
      BY <2>1, <3>1, <3>2 DEF Schemas!TypeOK
  <2>4. cursor' <= Len(Schemas!List') + 1
    BY <2>1, <2>2, Lengths
  <2> QED
    BY <2>1, <2>3, <2>4 DEF ListsInv
<1>5. CASE Schemas!AppendRest
  <2> DEFINE f == fragments[cursor]
  <2>1. /\ Schemas!At("rest") /\ out' = Schemas!Dedupe(out, f)
        /\ UNCHANGED <<fragments, progress, tables, conflicts, files>>
    BY <1>5 DEF Schemas!AppendRest
  <2>2. /\ cursor \in 1 .. Len(fragments) /\ cursor' = cursor + 1 /\ cursor' \in 1 .. MaxFragments + 1
        /\ stage = "rest" /\ stage' = "rest" /\ f \in Schemas!Fragment /\ f \in Schemas!ToSet(fragments)
    BY <2>1, AtFragment
  <2> HIDE DEF f
  <2>3. out' \in Seq(Schemas!Fragment) /\ Distinct(out') /\ Schemas!ToSet(out') \subseteq Schemas!ToSet(fragments)
    BY <2>1, <2>2, Lengths, Appended DEF ListsInv, Schemas!Dedupe
  <2>4. cursor' <= Len(Schemas!List') + 1
    BY <2>1, <2>2, Lengths DEF Schemas!List
  <2> QED
    BY <2>1, <2>2, <2>3, <2>4, Lengths DEF Schemas!TypeOK, ListsInv
<1>6. ASSUME NEW s \in {"creates", "extends", "files"}, Schemas!At(s), UNCHANGED <<fragments, out, progress>>,
             DOMAIN tables' \subseteq Schemas!TablesOf(Schemas!Fragment), files' \in Seq(Schemas!Fragment)
      PROVE  Schemas!TypeOK' /\ ListsInv'
  <2>1. /\ cursor \in 1 .. Len(out) /\ cursor' = cursor + 1 /\ cursor' \in 1 .. MaxFragments + 1
        /\ stage = s /\ stage' = s
    BY <1>6, AtFragment
  <2>2. cursor' <= Len(Schemas!List') + 1
    BY <1>6, <2>1, Lengths DEF Schemas!List
  <2> QED
    BY <1>6, <2>1, <2>2, Lengths DEF Schemas!TypeOK, ListsInv
<1>7. CASE Schemas!MergeCreate
  <2> DEFINE f == out[cursor]
  <2>1. /\ Schemas!At("creates") /\ UNCHANGED <<fragments, out, progress, files>>
        /\ DOMAIN tables' \subseteq DOMAIN tables \union {f.table}
    BY <1>7 DEF Schemas!MergeCreate
  <2>2. f \in Schemas!Fragment
    BY <2>1, AtFragment
  <2>3. DOMAIN tables' \subseteq Schemas!TablesOf(Schemas!Fragment) /\ files' \in Seq(Schemas!Fragment)
    BY <2>1, <2>2, Lengths DEF Schemas!TypeOK, Schemas!TablesOf
  <2> QED
    BY <1>6, <2>1, <2>3
<1>8. CASE Schemas!MergeExtend
  <2>1. Schemas!At("extends") /\ UNCHANGED <<fragments, out, progress, files>> /\ DOMAIN tables' = DOMAIN tables
    BY <1>8 DEF Schemas!MergeExtend
  <2>2. DOMAIN tables' \subseteq Schemas!TablesOf(Schemas!Fragment) /\ files' \in Seq(Schemas!Fragment)
    BY <2>1, Lengths DEF Schemas!TypeOK
  <2> QED
    BY <1>6, <2>1, <2>2
<1>9. CASE Schemas!CheckReferences
  BY <1>9, Lengths DEF Schemas!CheckReferences, Schemas!TypeOK, ListsInv, Schemas!List
<1>10. CASE Schemas!WriteMigration
  <2> DEFINE f == out[cursor]
  <2>1. /\ Schemas!At("files") /\ UNCHANGED <<fragments, out, progress, tables, conflicts>>
        /\ files' \in {files, Append(files, f)}
    BY <1>10 DEF Schemas!WriteMigration
  <2>2. f \in Schemas!Fragment
    BY <2>1, AtFragment
  <2> HIDE DEF f
  <2>3. DOMAIN tables' \subseteq Schemas!TablesOf(Schemas!Fragment)
    BY <2>1 DEF Schemas!TypeOK
  <2>4. files' \in Seq(Schemas!Fragment)
    <3>1. files \in Seq(Schemas!Fragment)
      BY Lengths
    <3>2. Append(files, f) \in Seq(Schemas!Fragment)
      BY <2>2, <3>1, AppendProperties
    <3> QED
      BY <2>1, <3>1, <3>2
  <2> QED
    BY <1>6, <2>1, <2>3, <2>4
<1>11. CASE Schemas!NextLoop
  <2>1. /\ cursor' = 1 /\ stage' \in {"creates", "extends", "references", "done"}
        /\ UNCHANGED <<fragments, out, progress, tables, conflicts, files>>
    BY <1>11 DEF Schemas!NextLoop, Schemas!After
  <2>2. cursor' <= Len(Schemas!List') + 1
    BY <2>1, Lengths DEF Schemas!List
  <2> QED
    BY <2>1, <2>2, Lengths DEF Schemas!TypeOK, ListsInv
<1> QED
  BY <1>1, <1>2, <1>3, <1>4, <1>5, <1>7, <1>8, <1>9, <1>10, <1>11 DEF Schemas!Next

-----------------------------------------------------------------------------
(***************************************************************************)
(* A pass that emits nothing has emitted all that an order could have: of  *)
(* the fragments left over, the first in that order would have been ready. *)
(***************************************************************************)
LEMMA NothingReadyIsLeft ==
    ASSUME Schemas!FragmentConstants, Schemas!TypeOK, ListsInv, Orderable,
           \A f \in Schemas!ToSet(fragments) : f \in Schemas!ToSet(out) \/ ~Schemas!Ready(f)
    PROVE  Schemas!ToSet(out) = Schemas!ToSet(fragments)
<1> SUFFICES ASSUME Schemas!ToSet(out) # Schemas!ToSet(fragments) PROVE FALSE
  OBVIOUS
<1>1. IsFiniteSet(Schemas!ToSet(fragments)) /\ Schemas!ToSet(out) \subseteq Schemas!ToSet(fragments)
  BY Lengths, DistinctCardinality DEF ListsInv
<1>2. PICK fs \in Schemas!SetToSeqs(Schemas!ToSet(fragments)) : InOrder(fs)
  BY DEF Orderable
<1>3. /\ Len(fs) \in Nat /\ DOMAIN fs = 1 .. Len(fs) /\ Schemas!ToSet(fs) = Schemas!ToSet(fragments)
      /\ fs \in Seq(Schemas!ToSet(fragments))
  BY <1>1, <1>2, Orders
<1> DEFINE left == {n \in DOMAIN fs : fs[n] \notin Schemas!ToSet(out)}
<1>4. left \in SUBSET Nat /\ left # {}
  <2>1. \E f \in Schemas!ToSet(fs) : f \notin Schemas!ToSet(out)
    BY <1>1, <1>3
  <2> QED
    BY <1>3, <2>1 DEF Schemas!ToSet
<1> HIDE DEF left
<1>5. PICK n \in left : \A m \in left : n <= m
  BY <1>4, LeastNatural
<1>6. n \in DOMAIN fs /\ n \in Nat /\ fs[n] \notin Schemas!ToSet(out) /\ fs[n] \in Schemas!ToSet(fragments)
  BY <1>3, <1>4, <1>5 DEF left, Schemas!ToSet
<1>7. \A m \in 1 .. n - 1 : fs[m] \in Schemas!ToSet(out)
  BY <1>3, <1>5, <1>6 DEF left
<1>8. Schemas!CreatedBefore(fs, n) \subseteq Schemas!Created(out)
  BY <1>7 DEF Schemas!CreatedBefore, Schemas!Created, Schemas!Creates, Schemas!TablesOf
<1>9. Schemas!Ready(fs[n])
  BY <1>2, <1>6, <1>8 DEF InOrder, Needs, Schemas!Ready
<1> QED
  BY <1>6, <1>9

\* What fragments need is a matter of which there are.
LEMMA OrderFrame ==
    ASSUME UNCHANGED fragments
    PROVE  /\ \A f : Needs(f)' = Needs(f)
           /\ Orderable' = Orderable
           /\ UNCHANGED out => /\ InOrder(out)' <=> InOrder(out)
                               /\ \A f : Schemas!Ready(f)' <=> Schemas!Ready(f)
<1>1. ASSUME NEW f PROVE Schemas!Deps(f)' = Schemas!Deps(f)
  BY DEF Schemas!Deps
<1>2. \A f : Needs(f)' = Needs(f)
  BY <1>1 DEF Needs
<1>3. ASSUME NEW fs PROVE InOrder(fs)' <=> InOrder(fs)
  BY <1>2 DEF InOrder, Schemas!CreatedBefore
<1>4. Orderable' = Orderable
  BY <1>3 DEF Orderable
<1>5. UNCHANGED out => (InOrder(out)' <=> InOrder(out)) /\ \A f : Schemas!Ready(f)' <=> Schemas!Ready(f)
  BY <1>1, <1>3 DEF Schemas!Ready
<1> QED
  BY <1>2, <1>4, <1>5

LEMMA OrderStep ==
    ASSUME Schemas!FragmentConstants, Schemas!TypeOK, ListsInv, OrderInv, Schemas!Next PROVE OrderInv'
<1>1. ASSUME NEW f \in Fragments, Schemas!Contribute(f) PROVE OrderInv'
  <2>1. stage' = "collect" /\ out' = <<>>
    BY <1>1 DEF Schemas!Contribute, ListsInv
  <2>2. InOrder(out)'
    BY <2>1 DEF InOrder
  <2> QED
    BY <2>1, <2>2 DEF OrderInv
<1>2. CASE Schemas!Generate
  <2>1. stage = "collect" /\ stage' = "order" /\ cursor' = 1 /\ UNCHANGED <<fragments, out>>
    BY <1>2 DEF Schemas!Generate, ListsInv
  <2> QED
    BY <2>1, OrderFrame DEF OrderInv
<1>3. CASE Schemas!Visit
  <2> DEFINE f == fragments[cursor]
  <2>1. /\ Schemas!At("order")
        /\ \/ f \notin Schemas!ToSet(out) /\ Schemas!Ready(f) /\ out' = Append(out, f) /\ progress' = TRUE
           \/ (f \in Schemas!ToSet(out) \/ ~Schemas!Ready(f)) /\ UNCHANGED <<out, progress>>
        /\ UNCHANGED fragments
    BY <1>3 DEF Schemas!Visit
  <2>2. /\ cursor \in Nat /\ cursor' = cursor + 1
        /\ stage = "order" /\ stage' = "order" /\ f \in Schemas!Fragment
    BY <2>1, AtFragment
  <2>3. InOrder(out)
    BY <2>2 DEF OrderInv
  <2>4. CASE (f \in Schemas!ToSet(out) \/ ~Schemas!Ready(f)) /\ UNCHANGED <<out, progress>>
    <3>1. ASSUME ~progress, NEW n \in 1 .. cursor' - 1
          PROVE  fragments[n] \in Schemas!ToSet(out) \/ ~Schemas!Ready(fragments[n])
      <4>1. n \in 1 .. cursor - 1 \/ n = cursor
        BY <2>2
      <4> QED
        BY <2>2, <2>4, <3>1, <4>1 DEF OrderInv
    <3>2. UNCHANGED <<fragments, out, progress>>
      BY <2>1, <2>4
    <3> QED
      BY <2>2, <2>3, <3>1, <3>2, OrderFrame DEF OrderInv
  <2>5. CASE Schemas!Ready(f) /\ out' = Append(out, f) /\ progress' = TRUE
    <3> HIDE DEF f
    <3>1. /\ Len(out) \in Nat /\ DOMAIN out' = 1 .. Len(out) + 1
          /\ DOMAIN out = 1 .. Len(out)
          /\ \A n \in 1 .. Len(out) : out'[n] = out[n]
          /\ out'[Len(out) + 1] = f
          /\ \A n \in 1 .. Len(out) + 1 : Schemas!CreatedBefore(out', n) = Schemas!CreatedBefore(out, n)
          /\ Schemas!CreatedBefore(out, Len(out) + 1) = Schemas!Created(out)
      BY <2>2, <2>5, Lengths, Appended, BeforeAppended
    <3>2. Needs(f) \subseteq Schemas!Created(out)
      BY <2>5 DEF Needs, Schemas!Ready
    <3>3. ASSUME NEW n \in DOMAIN out' PROVE Needs(out'[n]) \subseteq Schemas!CreatedBefore(out', n)
      <4>1. CASE n = Len(out) + 1
        BY <3>1, <3>2, <4>1
      <4>2. CASE n \in DOMAIN out
        BY <2>3, <3>1, <4>2 DEF InOrder
      <4> QED
        BY <3>1, <4>1, <4>2
    <3>4. InOrder(out)'
      BY <2>1, <3>3, OrderFrame DEF InOrder, Schemas!CreatedBefore
    <3> QED
      BY <2>2, <2>5, <3>4 DEF OrderInv
  <2> QED
    BY <2>1, <2>4, <2>5
<1>4. CASE Schemas!EndPass
  <2>1. /\ stage = "order" /\ cursor > Len(fragments) /\ cursor' = 1
        /\ \/ stage' = "order"
           \/ stage' = "rest" /\ (~progress \/ Len(out) >= Len(fragments))
        /\ UNCHANGED <<fragments, out>>
    <3>1. stage = "order"
      BY <1>4 DEF Schemas!EndPass, Schemas!After
    <3> QED
      BY <1>4, <3>1, Lengths DEF Schemas!EndPass, Schemas!After, Schemas!List
  <2>2. InOrder(out) /\ InOrder(out)'
    BY <2>1, OrderFrame DEF OrderInv
  <2>3. CASE stage' = "order"
    BY <2>1, <2>2, <2>3 DEF OrderInv
  <2>4. CASE stage' = "rest" /\ (~progress \/ Len(out) >= Len(fragments))
    <3>1. ASSUME Orderable PROVE Schemas!ToSet(out) = Schemas!ToSet(fragments)
      <4>1. CASE Len(out) >= Len(fragments)
        BY <4>1, Lengths
      <4>2. CASE ~progress
        <5>1. ASSUME NEW f \in Schemas!ToSet(fragments) PROVE f \in Schemas!ToSet(out) \/ ~Schemas!Ready(f)
          <6>1. PICK n \in 1 .. Len(fragments) : fragments[n] = f
            BY Lengths, Listed
          <6>2. n \in 1 .. cursor - 1
            BY <2>1, Lengths
          <6> QED
            BY <2>1, <4>2, <6>1, <6>2 DEF OrderInv
        <5> QED
          BY <3>1, <5>1, NothingReadyIsLeft
      <4> QED
        BY <2>4, <4>1, <4>2
    <3> QED
      BY <2>1, <2>2, <2>4, <3>1, OrderFrame DEF OrderInv
  <2> QED
    BY <2>1, <2>3, <2>4
<1>5. CASE Schemas!AppendRest
  <2> DEFINE f == fragments[cursor]
  <2>1. Schemas!At("rest") /\ out' = Schemas!Dedupe(out, f) /\ UNCHANGED fragments
    BY <1>5 DEF Schemas!AppendRest
  <2>2. /\ cursor \in Nat /\ cursor' = cursor + 1 /\ stage = "rest" /\ stage' = "rest"
        /\ f \in Schemas!Fragment /\ f \in Schemas!ToSet(fragments)
    BY <2>1, AtFragment
  <2>3. ASSUME Orderable PROVE UNCHANGED out /\ InOrder(out)' /\ Schemas!ToSet(out) = Schemas!ToSet(fragments)
    <3>1. InOrder(out) /\ Schemas!ToSet(out) = Schemas!ToSet(fragments)
      BY <2>2, <2>3 DEF OrderInv
    <3>2. UNCHANGED out
      BY <2>1, <2>2, <3>1 DEF Schemas!Dedupe
    <3> QED
      BY <2>1, <3>1, <3>2, OrderFrame
  <2>4. Schemas!ToSet(out') = Schemas!ToSet(out) \union {f}
    <3>1. CASE f \in Schemas!ToSet(out)
      BY <2>1, <3>1 DEF Schemas!Dedupe
    <3>2. CASE f \notin Schemas!ToSet(out)
      <4>1. out' = Append(out, f)
        BY <2>1, <3>2 DEF Schemas!Dedupe
      <4> HIDE DEF f
      <4> QED
        BY <2>2, <4>1, Lengths, Appended
    <3> QED
      BY <3>1, <3>2
  <2>5. ASSUME NEW n \in 1 .. cursor' - 1 PROVE fragments[n] \in Schemas!ToSet(out')
    <3>1. n \in 1 .. cursor - 1 \/ n = cursor
      BY <2>2
    <3> QED
      BY <2>2, <2>4, <3>1 DEF OrderInv
  <2>6. UNCHANGED fragments /\ Orderable' = Orderable
    BY <2>1, OrderFrame
  <2> QED
    BY <2>2, <2>3, <2>5, <2>6 DEF OrderInv
<1>6. ASSUME UNCHANGED <<fragments, out>>, Schemas!ToSet(out) = Schemas!ToSet(fragments),
             stage \notin {"collect", "order"},
             stage' \in {"creates", "extends", "references", "files", "done"}
      PROVE  OrderInv'
  BY <1>6, OrderFrame DEF OrderInv
<1>7. CASE Schemas!MergeCreate \/ Schemas!MergeExtend \/ Schemas!CheckReferences \/ Schemas!WriteMigration
  <2>1. /\ stage \in {"creates", "extends", "references", "files"}
        /\ stage' \in {"creates", "extends", "references", "files", "done"}
        /\ UNCHANGED <<fragments, out>>
    BY <1>7 DEF Schemas!MergeCreate, Schemas!MergeExtend, Schemas!CheckReferences, Schemas!WriteMigration, Schemas!At
  <2> QED
    BY <1>6, <2>1 DEF OrderInv
<1>8. CASE Schemas!NextLoop
  <2>1. /\ stage \in {"rest", "creates", "extends", "files"}
        /\ stage' \in {"creates", "extends", "references", "done"}
        /\ UNCHANGED <<fragments, out>>
        /\ stage = "rest" => cursor > Len(fragments)
    BY <1>8 DEF Schemas!NextLoop, Schemas!After, Schemas!List
  <2>2. ASSUME stage = "rest" PROVE Schemas!ToSet(out) = Schemas!ToSet(fragments)
    <3>1. ASSUME NEW f \in Schemas!ToSet(fragments) PROVE f \in Schemas!ToSet(out)
      <4>1. PICK n \in 1 .. Len(fragments) : fragments[n] = f
        BY Lengths, Listed
      <4>2. n \in 1 .. cursor - 1
        BY <2>1, <2>2, Lengths
      <4> QED
        BY <2>2, <4>1, <4>2 DEF OrderInv
    <3> QED
      BY <3>1 DEF ListsInv
  <2> QED
    BY <1>6, <2>1, <2>2 DEF OrderInv
<1> QED
  BY <1>1, <1>2, <1>3, <1>4, <1>5, <1>7, <1>8 DEF Schemas!Next

-----------------------------------------------------------------------------
\* A create adds its table to those of other creates, if none of them has it.
LEMMA CreateMerges ==
    ASSUME NEW P, NEW f, f \notin P, f.mode = "create", \A g \in P : g.mode = "create"
    PROVE  /\ Schemas!Creates(P) = P /\ Schemas!Creates(P \union {f}) = P \union {f}
           /\ Schemas!TablesOf(P \union {f}) = Schemas!TablesOf(P) \union {f.table}
           /\ f.table \in Schemas!TablesOf(P) => ~Schemas!Apart(P \union {f})
           /\ f.table \notin Schemas!TablesOf(P) =>
                /\ Schemas!Apart(P \union {f}) <=> Schemas!Apart(P)
                /\ Schemas!TablesFrom(P \union {f}) =
                    [t \in Schemas!TablesOf(P) \union {f.table} |->
                        IF t = f.table THEN Schemas!TableOf(f) ELSE Schemas!TablesFrom(P)[t]]
<1>1. Schemas!Creates(P) = P /\ Schemas!Creates(P \union {f}) = P \union {f}
  BY DEF Schemas!Creates
<1>2. Schemas!TablesOf(P \union {f}) = Schemas!TablesOf(P) \union {f.table}
  BY DEF Schemas!TablesOf
<1>3. ASSUME f.table \in Schemas!TablesOf(P) PROVE ~Schemas!Apart(P \union {f})
  <2>1. PICK g \in P : g.table = f.table
    BY <1>3 DEF Schemas!TablesOf
  <2>2. f # g /\ f.mode # "extend" /\ g.mode # "extend"
    BY <2>1
  <2> QED
    BY <2>1, <2>2 DEF Schemas!Apart
<1>4. ASSUME f.table \notin Schemas!TablesOf(P) PROVE Schemas!Apart(P \union {f}) <=> Schemas!Apart(P)
  <2>1. \A g \in P : g.table # f.table
    BY <1>4 DEF Schemas!TablesOf
  <2> QED
    BY <1>1, <2>1 DEF Schemas!Apart
<1>5. ASSUME f.table \notin Schemas!TablesOf(P)
      PROVE  Schemas!TablesFrom(P \union {f}) =
                [t \in Schemas!TablesOf(P) \union {f.table} |->
                    IF t = f.table THEN Schemas!TableOf(f) ELSE Schemas!TablesFrom(P)[t]]
  <2>1. \A g \in P : g.table # f.table
    BY <1>5 DEF Schemas!TablesOf
  <2> DEFINE of(t) == {g \in P \union {f} : g.table = t}
             old(t) == {g \in P : g.table = t}
             merge(F) == [columns |-> UNION {g.columns : g \in F},
                          references |-> UNION {g.references : g \in F}]
  <2>2. of(f.table) = {f}
    BY <2>1
  <2>3. merge({f}) = Schemas!TableOf(f)
    BY DEF Schemas!TableOf
  <2>4. \A t \in Schemas!TablesOf(P) : t # f.table /\ of(t) = old(t)
    BY <1>5
  <2>5. Schemas!TablesFrom(P \union {f}) = [t \in Schemas!TablesOf(P) \union {f.table} |-> merge(of(t))]
    BY <1>1, <1>2 DEF Schemas!TablesFrom
  <2>6. Schemas!TablesFrom(P) = [t \in Schemas!TablesOf(P) |-> merge(old(t))]
    BY <1>1 DEF Schemas!TablesFrom
  <2> HIDE DEF of, old, merge
  <2>7. \A t \in Schemas!TablesOf(P) : merge(of(t)) = Schemas!TablesFrom(P)[t]
    BY <2>4, <2>6
  <2>8. merge(of(f.table)) = Schemas!TableOf(f)
    BY <2>2, <2>3
  <2> QED
    BY <2>4, <2>5, <2>7, <2>8
<1> QED
  BY <1>1, <1>2, <1>3, <1>4, <1>5

\* What a set of fragments declares, and one more.
LEMMA Joined ==
    ASSUME NEW F, NEW f
    PROVE  /\ UNION {g.columns : g \in F \union {f}} = (UNION {g.columns : g \in F}) \union f.columns
           /\ UNION {g.references : g \in F \union {f}} = (UNION {g.references : g \in F}) \union f.references
<1> DEFINE cols == {g.columns : g \in F}
           cols2 == {g.columns : g \in F \union {f}}
           refs == {g.references : g \in F}
           refs2 == {g.references : g \in F \union {f}}
<1>1. cols2 = cols \union {f.columns} /\ refs2 = refs \union {f.references}
  OBVIOUS
<1> HIDE DEF cols, cols2, refs, refs2
<1>2. UNION cols2 = (UNION cols) \union f.columns
  BY <1>1
<1>3. UNION refs2 = (UNION refs) \union f.references
  BY <1>1
<1> QED
  BY <1>2, <1>3 DEF cols, cols2, refs, refs2

\* An extend adds columns that its table has not.
LEMMA ExtendMerges ==
    ASSUME NEW P, NEW f, f \notin P, f.mode = "extend"
    PROVE  /\ Schemas!Creates(P \union {f}) = Schemas!Creates(P)
           /\ f.table \notin Schemas!TablesOf(Schemas!Creates(P)) => ~Schemas!Apart(P \union {f})
           /\ Schemas!Apart(P \union {f}) /\ f.table \in Schemas!TablesOf(Schemas!Creates(P)) => Schemas!Apart(P)
           /\ Schemas!Apart(P) /\ f.table \in Schemas!TablesOf(Schemas!Creates(P)) =>
                (Schemas!Apart(P \union {f}) <=> f.columns \intersect Schemas!TablesFrom(P)[f.table].columns = {})
           /\ f.table \in Schemas!TablesOf(Schemas!Creates(P)) =>
                Schemas!TablesFrom(P \union {f}) = [Schemas!TablesFrom(P) EXCEPT ![f.table] =
                    [columns |-> @.columns \union f.columns,
                     references |-> @.references \union f.references]]
<1> DEFINE old(t) == {g \in P : g.table = t}
           of(t) == {g \in P \union {f} : g.table = t}
           merge(F) == [columns |-> UNION {g.columns : g \in F},
                        references |-> UNION {g.references : g \in F}]
<1>1. Schemas!Creates(P \union {f}) = Schemas!Creates(P)
  BY DEF Schemas!Creates
<1>2. Schemas!TablesOf(P \union {f}) = Schemas!TablesOf(P) \union {f.table}
  BY DEF Schemas!TablesOf
<1>3. f.table \notin Schemas!TablesOf(Schemas!Creates(P)) => ~Schemas!Apart(P \union {f})
  BY <1>1, <1>2 DEF Schemas!Apart
<1>4. ASSUME Schemas!Apart(P \union {f}), f.table \in Schemas!TablesOf(Schemas!Creates(P)) PROVE Schemas!Apart(P)
  <2>1. Schemas!TablesOf(P) \union {f.table} = Schemas!TablesOf(Schemas!Creates(P))
    BY <1>1, <1>2, <1>4 DEF Schemas!Apart
  <2>2. Schemas!TablesOf(Schemas!Creates(P)) \subseteq Schemas!TablesOf(P)
    BY DEF Schemas!TablesOf, Schemas!Creates
  <2> QED
    BY <1>4, <2>1, <2>2 DEF Schemas!Apart
<1>5. Schemas!TablesFrom(P) = [t \in Schemas!TablesOf(Schemas!Creates(P)) |-> merge(old(t))]
  BY DEF Schemas!TablesFrom
<1>6. ASSUME Schemas!Apart(P), f.table \in Schemas!TablesOf(Schemas!Creates(P))
      PROVE  Schemas!Apart(P \union {f}) <=> f.columns \intersect Schemas!TablesFrom(P)[f.table].columns = {}
  <2>1. Schemas!TablesFrom(P)[f.table].columns = UNION {g.columns : g \in old(f.table)}
    BY <1>5, <1>6
  <2>2. f.columns \intersect Schemas!TablesFrom(P)[f.table].columns = {}
        <=> \A g \in P : g.table = f.table => f.columns \intersect g.columns = {}
    BY <2>1
  <2>3. Schemas!TablesOf(P \union {f}) = Schemas!TablesOf(Schemas!Creates(P \union {f}))
    BY <1>1, <1>2, <1>6 DEF Schemas!Apart
  <2>4. Schemas!Apart(P \union {f}) <=> \A g \in P : g.table = f.table => f.columns \intersect g.columns = {}
    <3>1. ASSUME Schemas!Apart(P \union {f}), NEW g \in P, g.table = f.table PROVE f.columns \intersect g.columns = {}
      BY <3>1 DEF Schemas!Apart
    <3>2. ASSUME \A g \in P : g.table = f.table => f.columns \intersect g.columns = {},
                 NEW g \in P \union {f}, NEW h \in P \union {f}, g # h, g.table = h.table
          PROVE  (g.mode = "extend" \/ h.mode = "extend") /\ g.columns \intersect h.columns = {}
      <4>1. CASE g = f
        BY <3>2, <4>1
      <4>2. CASE h = f
        BY <3>2, <4>2
      <4>3. CASE g \in P /\ h \in P
        BY <1>6, <3>2, <4>3 DEF Schemas!Apart
      <4> QED
        BY <3>2, <4>1, <4>2, <4>3
    <3> QED
      BY <2>3, <3>1, <3>2 DEF Schemas!Apart
  <2> QED
    BY <2>2, <2>4
<1>7. ASSUME f.table \in Schemas!TablesOf(Schemas!Creates(P))
      PROVE  Schemas!TablesFrom(P \union {f}) = [Schemas!TablesFrom(P) EXCEPT ![f.table] =
                [columns |-> @.columns \union f.columns,
                 references |-> @.references \union f.references]]
  <2>1. of(f.table) = old(f.table) \union {f} /\ \A t : t # f.table => of(t) = old(t)
    OBVIOUS
  <2>2. merge(old(f.table) \union {f}) =
            [columns |-> merge(old(f.table)).columns \union f.columns,
             references |-> merge(old(f.table)).references \union f.references]
    <3> DEFINE F == old(f.table)
    <3> HIDE DEF old
    <3> SUFFICES merge(F \union {f}) =
                    [columns |-> merge(F).columns \union f.columns,
                     references |-> merge(F).references \union f.references]
      OBVIOUS
    <3> HIDE DEF F
    <3>1. /\ merge(F).columns = UNION {g.columns : g \in F}
          /\ merge(F).references = UNION {g.references : g \in F}
      OBVIOUS
    <3>2. /\ UNION {g.columns : g \in F \union {f}} = merge(F).columns \union f.columns
          /\ UNION {g.references : g \in F \union {f}} = merge(F).references \union f.references
      BY <3>1, Joined
    <3> QED
      BY <3>2
  <2>3. Schemas!TablesFrom(P \union {f}) = [t \in Schemas!TablesOf(Schemas!Creates(P)) |-> merge(of(t))]
    BY <1>1 DEF Schemas!TablesFrom
  <2> DEFINE new == [columns |-> merge(old(f.table)).columns \union f.columns,
                     references |-> merge(old(f.table)).references \union f.references]
  <2> HIDE DEF of, old, merge
  <2>4. Schemas!TablesFrom(P)[f.table] = merge(old(f.table))
    BY <1>5, <1>7
  <2>5. [Schemas!TablesFrom(P) EXCEPT ![f.table] =
            [columns |-> @.columns \union f.columns,
             references |-> @.references \union f.references]]
        = [Schemas!TablesFrom(P) EXCEPT ![f.table] = new]
    BY <2>4
  <2>6. merge(of(f.table)) = new
    BY <2>1, <2>2
  <2> HIDE DEF new
  <2>7. [Schemas!TablesFrom(P) EXCEPT ![f.table] = new] = [t \in Schemas!TablesOf(Schemas!Creates(P)) |-> merge(of(t))]
    BY <1>5, <1>7, <2>1, <2>6
  <2> QED
    BY <2>3, <2>5, <2>7
<1> QED
  BY <1>1, <1>3, <1>4, <1>6, <1>7

\* What is merged when a loop moves on by one.
LEMMA DoneGrows ==
    ASSUME Schemas!FragmentConstants, Schemas!TypeOK, ListsInv, NEW s \in {"creates", "extends", "files"}, Schemas!At(s), UNCHANGED out
    PROVE  /\ {out[n] : n \in 1 .. cursor - 1}' = {out[n] : n \in 1 .. cursor - 1} \union {out[cursor]}
           /\ out[cursor] \notin {out[n] : n \in 1 .. cursor - 1}
           /\ {out[n] : n \in 1 .. cursor - 1} \subseteq Schemas!ToSet(out)
<1>1. cursor \in 1 .. Len(out) /\ cursor \in Nat /\ cursor' = cursor + 1
  BY AtFragment
<1>2. DOMAIN out = 1 .. Len(out) /\ Len(out) \in Nat
  BY Lengths, Listed
<1>3. 1 .. cursor' - 1 = (1 .. cursor - 1) \union {cursor}
  BY <1>1
<1>4. \A n \in 1 .. cursor - 1 : n \in DOMAIN out /\ n # cursor
  BY <1>1, <1>2
<1> QED
  BY <1>1, <1>2, <1>3, <1>4 DEF ListsInv, Distinct, Schemas!ToSet

LEMMA CreatesGrow ==
    ASSUME Schemas!FragmentConstants, Schemas!TypeOK, ListsInv, Schemas!At("creates"), UNCHANGED out
    PROVE  /\ \A g \in Merged : g.mode = "create"
           /\ out[cursor].mode = "create" =>
                out[cursor] \notin Merged /\ Merged' = Merged \union {out[cursor]}
           /\ out[cursor].mode # "create" => Merged' = Merged
<1> DEFINE done == {out[n] : n \in 1 .. cursor - 1}
<1>1. done' = done \union {out[cursor]} /\ out[cursor] \notin done
  BY DoneGrows
<1>2. stage = "creates" /\ stage' = "creates"
  BY AtFragment
<1>3. Merged = Schemas!Creates(done) /\ Merged' = Schemas!Creates(done')
  BY <1>2 DEF Merged
<1> HIDE DEF done
<1> QED
  BY <1>1, <1>3 DEF Schemas!Creates

LEMMA ExtendsGrow ==
    ASSUME Schemas!FragmentConstants, Schemas!TypeOK, ListsInv, Schemas!At("extends"), UNCHANGED out
    PROVE  /\ out[cursor].mode = "extend" =>
                out[cursor] \notin Merged /\ Merged' = Merged \union {out[cursor]}
           /\ out[cursor].mode # "extend" => Merged' = Merged
<1> DEFINE done == {out[n] : n \in 1 .. cursor - 1}
<1>1. done' = done \union {out[cursor]} /\ out[cursor] \notin done
  BY DoneGrows
<1>2. stage = "extends" /\ stage' = "extends"
  BY AtFragment
<1>3. /\ Merged = Schemas!Creates(Schemas!ToSet(out)) \union {f \in done : f.mode = "extend"}
      /\ Merged' = Schemas!Creates(Schemas!ToSet(out)) \union {f \in done' : f.mode = "extend"}
  BY <1>2 DEF Merged
<1> HIDE DEF done
<1> QED
  BY <1>1, <1>3 DEF Schemas!Creates

LEMMA MergeStep ==
    ASSUME Schemas!FragmentConstants, Schemas!TypeOK, ListsInv, OrderInv, MergeInv, Schemas!Next PROVE MergeInv'
<1>1. ASSUME stage \in {"collect", "order", "rest"}, stage' \in {"collect", "order", "rest", "creates"},
             stage' = "creates" => cursor' = 1, UNCHANGED <<tables, conflicts>>
      PROVE  MergeInv'
  <2>1. Merged = {}
    BY <1>1 DEF Merged
  <2>2. Merged' = {}
    <3>1. CASE stage' = "creates"
      <4>1. {out[n] : n \in 1 .. cursor - 1}' = {}
        BY <1>1, <3>1
      <4> QED
        BY <3>1, <4>1 DEF Merged, Schemas!Creates
    <3>2. CASE stage' # "creates"
      BY <1>1, <3>2 DEF Merged
    <3> QED
      BY <3>1, <3>2
  <2>3. Merged' = Merged
    BY <2>1, <2>2
  <2> QED
    BY <1>1, <2>3 DEF MergeInv
<1>2. ASSUME NEW f \in Fragments, Schemas!Contribute(f) PROVE MergeInv'
  BY <1>1, <1>2 DEF Schemas!Contribute
<1>3. CASE Schemas!Generate
  BY <1>1, <1>3 DEF Schemas!Generate
<1>4. CASE Schemas!Visit
  BY <1>1, <1>4 DEF Schemas!Visit, Schemas!At
<1>5. CASE Schemas!EndPass
  BY <1>1, <1>5 DEF Schemas!EndPass, Schemas!After
<1>6. CASE Schemas!AppendRest
  BY <1>1, <1>6 DEF Schemas!AppendRest, Schemas!At
<1>7. CASE Schemas!MergeCreate
  <2> DEFINE f == out[cursor]
  <2>1. /\ Schemas!At("creates") /\ UNCHANGED out
        /\ \/ f.mode # "create" /\ UNCHANGED <<tables, conflicts>>
           \/ /\ f.mode = "create" /\ f.table \in DOMAIN tables
              /\ conflicts' # {} /\ UNCHANGED tables
           \/ /\ f.mode = "create" /\ f.table \notin DOMAIN tables
              /\ tables' = [t \in DOMAIN tables \union {f.table} |->
                                IF t = f.table THEN Schemas!TableOf(f) ELSE tables[t]]
              /\ UNCHANGED conflicts
    BY <1>7 DEF Schemas!MergeCreate
  <2>2. stage = "creates" /\ stage' = "creates"
    BY <2>1, AtFragment
  <2>3. /\ \A g \in Merged : g.mode = "create"
        /\ f.mode = "create" => f \notin Merged /\ Merged' = Merged \union {f}
        /\ f.mode # "create" => Merged' = Merged
    BY <2>1, CreatesGrow
  <2> DEFINE P == Merged
  <2>4. /\ DOMAIN tables = Schemas!TablesOf(Schemas!Creates(P)) /\ (conflicts = {} => tables = Schemas!TablesFrom(P))
        /\ (conflicts = {} <=> Schemas!Apart(P))
    BY <2>2 DEF MergeInv
  <2>5. SUFFICES /\ DOMAIN tables' = Schemas!TablesOf(Schemas!Creates(P'))
                 /\ (conflicts' = {} => tables' = Schemas!TablesFrom(P'))
                 /\ (conflicts' = {} <=> Schemas!Apart(P'))
    BY <2>2 DEF MergeInv
  <2>6. CASE f.mode # "create" /\ UNCHANGED <<tables, conflicts>>
    BY <2>3, <2>4, <2>6
  <2>7. CASE f.mode = "create"
    <3> HIDE DEF f, P
    <3>1. P' = P \union {f} /\ f \notin P /\ \A g \in P : g.mode = "create"
      BY <2>3, <2>7 DEF P
    <3>2. /\ Schemas!Creates(P) = P /\ Schemas!Creates(P \union {f}) = P \union {f}
          /\ Schemas!TablesOf(P \union {f}) = Schemas!TablesOf(P) \union {f.table}
          /\ f.table \in Schemas!TablesOf(P) => ~Schemas!Apart(P \union {f})
          /\ f.table \notin Schemas!TablesOf(P) =>
                /\ Schemas!Apart(P \union {f}) <=> Schemas!Apart(P)
                /\ Schemas!TablesFrom(P \union {f}) =
                    [t \in Schemas!TablesOf(P) \union {f.table} |->
                        IF t = f.table THEN Schemas!TableOf(f) ELSE Schemas!TablesFrom(P)[t]]
      BY <2>7, <3>1, CreateMerges
    <3>3. CASE f.table \in DOMAIN tables
      BY <2>1, <2>4, <2>7, <3>1, <3>2, <3>3
    <3>4. CASE f.table \notin DOMAIN tables
      <4>1. /\ tables' = [t \in DOMAIN tables \union {f.table} |->
                                IF t = f.table THEN Schemas!TableOf(f) ELSE tables[t]]
            /\ conflicts' = conflicts
        BY <2>1, <2>7, <3>4
      <4>2. DOMAIN tables' = Schemas!TablesOf(Schemas!Creates(P'))
        BY <2>4, <3>1, <3>2, <4>1
      <4>3. conflicts' = {} <=> Schemas!Apart(P')
        BY <2>4, <3>1, <3>2, <3>4, <4>1
      <4>4. ASSUME conflicts' = {} PROVE tables' = Schemas!TablesFrom(P')
        BY <2>4, <3>1, <3>2, <3>4, <4>1, <4>4
      <4> QED
        BY <4>2, <4>3, <4>4
    <3> QED
      BY <3>3, <3>4
  <2> QED
    BY <2>1, <2>6, <2>7
<1>8. CASE Schemas!MergeExtend
  <2> DEFINE f == out[cursor]
             added == f.columns \ tables[f.table].columns
  <2>1. /\ Schemas!At("extends") /\ UNCHANGED out
        /\ \/ f.mode # "extend" /\ UNCHANGED <<tables, conflicts>>
           \/ /\ f.mode = "extend" /\ f.table \notin DOMAIN tables
              /\ conflicts' # {} /\ UNCHANGED tables
           \/ /\ f.mode = "extend" /\ f.table \in DOMAIN tables
              /\ tables' = [tables EXCEPT ![f.table] =
                    [columns |-> tables[f.table].columns \union added,
                     references |-> tables[f.table].references \union {r \in f.references : r.from \subseteq added}]]
              /\ conflicts' = conflicts \union Schemas!ColumnEdits(f)
    BY <1>8 DEF Schemas!MergeExtend
  <2>2. stage = "extends" /\ stage' = "extends" /\ f \in Schemas!Fragment
    <3>1. Schemas!List = out /\ stage = "extends" /\ stage' = "extends"
      BY <2>1, AtFragment
    <3> QED
      BY <2>1, <3>1, AtFragment
  <2>3. /\ f.mode = "extend" => f \notin Merged /\ Merged' = Merged \union {f}
        /\ f.mode # "extend" => Merged' = Merged
    BY <2>1, ExtendsGrow
  <2> DEFINE P == Merged
  <2>4. /\ DOMAIN tables = Schemas!TablesOf(Schemas!Creates(P)) /\ (conflicts = {} => tables = Schemas!TablesFrom(P))
        /\ (conflicts = {} <=> Schemas!Apart(P))
    BY <2>2 DEF MergeInv
  <2>5. SUFFICES /\ DOMAIN tables' = Schemas!TablesOf(Schemas!Creates(P'))
                 /\ (conflicts' = {} => tables' = Schemas!TablesFrom(P'))
                 /\ (conflicts' = {} <=> Schemas!Apart(P'))
    BY <2>2 DEF MergeInv
  <2>6. CASE f.mode # "extend" /\ UNCHANGED <<tables, conflicts>>
    BY <2>3, <2>4, <2>6
  <2>7. CASE f.mode = "extend"
    <3>1. P' = P \union {f} /\ f \notin P
      BY <2>3, <2>7
    <3>2. \A r \in f.references : \E c \in f.columns : r.from = {c}
      BY <2>2, <2>7, FragmentFields
    <3>3. Schemas!ColumnEdits(f) = {} <=> f.columns \intersect tables[f.table].columns = {}
      BY DEF Schemas!ColumnEdits
    <3>4. f.columns \intersect tables[f.table].columns = {} =>
            added = f.columns /\ {r \in f.references : r.from \subseteq added} = f.references
      BY <3>2
    <3> HIDE DEF f, P
    <3>5. /\ Schemas!Creates(P \union {f}) = Schemas!Creates(P)
          /\ f.table \notin Schemas!TablesOf(Schemas!Creates(P)) => ~Schemas!Apart(P \union {f})
          /\ Schemas!Apart(P \union {f}) /\ f.table \in Schemas!TablesOf(Schemas!Creates(P)) => Schemas!Apart(P)
          /\ Schemas!Apart(P) /\ f.table \in Schemas!TablesOf(Schemas!Creates(P)) =>
                (Schemas!Apart(P \union {f}) <=> f.columns \intersect Schemas!TablesFrom(P)[f.table].columns = {})
          /\ f.table \in Schemas!TablesOf(Schemas!Creates(P)) =>
                Schemas!TablesFrom(P \union {f}) = [Schemas!TablesFrom(P) EXCEPT ![f.table] =
                    [columns |-> @.columns \union f.columns,
                     references |-> @.references \union f.references]]
      BY <2>7, <3>1, ExtendMerges
    <3>6. CASE f.table \notin DOMAIN tables
      BY <2>1, <2>4, <2>7, <3>1, <3>5, <3>6
    <3>7. CASE f.table \in DOMAIN tables
      <4>1. /\ tables' = [tables EXCEPT ![f.table] =
                    [columns |-> tables[f.table].columns \union added,
                     references |-> tables[f.table].references \union {r \in f.references : r.from \subseteq added}]]
            /\ conflicts' = conflicts \union Schemas!ColumnEdits(f)
        BY <2>1, <2>7, <3>7
      <4>2. DOMAIN tables' = Schemas!TablesOf(Schemas!Creates(P'))
        BY <2>4, <3>1, <3>5, <4>1
      <4>3. conflicts' = {} <=> conflicts = {} /\ f.columns \intersect tables[f.table].columns = {}
        BY <3>3, <4>1
      <4>4. conflicts' = {} <=> Schemas!Apart(P')
        BY <2>4, <3>1, <3>5, <3>7, <4>3
      <4>5. ASSUME conflicts' = {} PROVE tables' = Schemas!TablesFrom(P')
        <5>1. /\ tables' = [tables EXCEPT ![f.table] =
                    [columns |-> tables[f.table].columns \union f.columns,
                     references |-> tables[f.table].references \union f.references]]
              /\ tables = Schemas!TablesFrom(P)
          BY <2>4, <3>4, <4>1, <4>3, <4>5
        <5>2. Schemas!TablesFrom(P') = [Schemas!TablesFrom(P) EXCEPT ![f.table] =
                    [columns |-> @.columns \union f.columns,
                     references |-> @.references \union f.references]]
          BY <2>4, <3>1, <3>5, <3>7
        <5> QED
          BY <5>1, <5>2
      <4> QED
        BY <4>2, <4>4, <4>5
    <3> QED
      BY <3>6, <3>7
  <2> QED
    BY <2>1, <2>6, <2>7
<1>9. CASE Schemas!CheckReferences
  <2>1. /\ stage = "references" /\ stage' \in {"files", "done"} /\ UNCHANGED <<out, tables>>
        /\ conflicts' = conflicts \union Schemas!DanglingReferences(tables)
    BY <1>9 DEF Schemas!CheckReferences
  <2>2. Merged = Schemas!ToSet(out) /\ Merged' = Schemas!ToSet(out)
    BY <2>1 DEF Merged
  <2> QED
    BY <2>1, <2>2 DEF MergeInv, Schemas!Compatible
<1>10. CASE Schemas!WriteMigration
  <2>1. stage = "files" /\ stage' = "files" /\ UNCHANGED <<out, tables, conflicts>>
    BY <1>10 DEF Schemas!WriteMigration, Schemas!At
  <2>2. Merged' = Merged
    BY <2>1 DEF Merged
  <2> QED
    BY <2>1, <2>2 DEF MergeInv
<1>11. CASE Schemas!NextLoop
  <2>1. UNCHANGED <<out, tables, conflicts>> /\ cursor' = 1
    BY <1>11 DEF Schemas!NextLoop, Schemas!After
  <2>2. CASE stage = "rest" /\ stage' = "creates"
    BY <1>1, <2>1, <2>2
  <2>3. CASE /\ \/ stage = "creates" /\ stage' = "extends" /\ cursor > Len(out)
                \/ stage = "extends" /\ stage' = "references" /\ cursor > Len(out)
                \/ stage = "files" /\ stage' = "done"
    <3>1. ASSUME cursor > Len(out) PROVE {out[n] : n \in 1 .. cursor - 1} = Schemas!ToSet(out)
                                            \/ stage \notin {"creates", "extends"}
      <4> SUFFICES ASSUME stage \in {"creates", "extends"} PROVE {out[n] : n \in 1 .. cursor - 1} = Schemas!ToSet(out)
        OBVIOUS
      <4>1. Schemas!List = out
        BY DEF Schemas!List
      <4>2. cursor <= Len(out) + 1
        BY <4>1 DEF ListsInv
      <4>3. Len(out) \in Nat /\ cursor \in Nat /\ DOMAIN out = 1 .. Len(out)
        BY Lengths, Listed
      <4>4. 1 .. cursor - 1 = DOMAIN out
        BY <3>1, <4>2, <4>3
      <4> QED
        BY <4>4 DEF Schemas!ToSet
    <3>2. {out[n] : n \in 1 .. cursor - 1}' = {}
      BY <2>1
    <3>3. Merged' = Merged
      <4>1. CASE stage = "creates"
        BY <2>1, <2>3, <3>1, <3>2, <4>1 DEF Merged
      <4>2. CASE stage = "extends"
        <5>1. Merged = Schemas!Creates(Schemas!ToSet(out)) \union {f \in Schemas!ToSet(out) : f.mode = "extend"}
          BY <2>3, <3>1, <4>2 DEF Merged
        <5>2. Merged' = Schemas!ToSet(out)
          BY <2>1, <2>3, <4>2 DEF Merged
        <5>3. \A f \in Schemas!ToSet(out) : f.mode \in {"create", "extend"}
          BY Lengths, Listed, FragmentFields
        <5> QED
          BY <5>1, <5>2, <5>3 DEF Schemas!Creates
      <4>3. CASE stage = "files"
        BY <2>1, <2>3, <4>3 DEF Merged
      <4> QED
        BY <2>3, <4>1, <4>2, <4>3
    <3> QED
      BY <2>1, <2>3, <3>3 DEF MergeInv
  <2>4. \/ stage = "rest" /\ stage' = "creates"
        \/ stage = "creates" /\ stage' = "extends" /\ cursor > Len(out)
        \/ stage = "extends" /\ stage' = "references" /\ cursor > Len(out)
        \/ stage = "files" /\ stage' = "done"
    BY <1>11 DEF Schemas!NextLoop, Schemas!After, Schemas!List
  <2> QED
    BY <2>2, <2>3, <2>4
<1> QED
  BY <1>2, <1>3, <1>4, <1>5, <1>6, <1>7, <1>8, <1>9, <1>10, <1>11 DEF Schemas!Next

\* Fragments that are compatible create each table once: no migration is skipped.
LEMMA FilesStep ==
    ASSUME Schemas!FragmentConstants, Schemas!TypeOK, ListsInv, OrderInv, MergeInv, FilesInv, Schemas!Next PROVE FilesInv'
<1>1. ASSUME stage \notin {"files", "done"}, stage' \notin {"files", "done"}, UNCHANGED files PROVE FilesInv'
  BY <1>1 DEF FilesInv
<1>2. ASSUME NEW f \in Fragments, Schemas!Contribute(f) PROVE FilesInv'
  BY <1>1, <1>2 DEF Schemas!Contribute
<1>3. CASE Schemas!Generate
  BY <1>1, <1>3 DEF Schemas!Generate
<1>4. CASE Schemas!Visit
  BY <1>1, <1>4 DEF Schemas!Visit, Schemas!At
<1>5. CASE Schemas!EndPass
  BY <1>1, <1>5 DEF Schemas!EndPass, Schemas!After
<1>6. CASE Schemas!AppendRest
  BY <1>1, <1>6 DEF Schemas!AppendRest, Schemas!At
<1>7. CASE Schemas!MergeCreate
  BY <1>1, <1>7 DEF Schemas!MergeCreate, Schemas!At
<1>8. CASE Schemas!MergeExtend
  BY <1>1, <1>8 DEF Schemas!MergeExtend, Schemas!At
<1>9. CASE Schemas!CheckReferences
  <2>1. /\ stage = "references" /\ cursor' = 1 /\ UNCHANGED <<out, files>>
        /\ stage' = IF conflicts' = {} THEN "files" ELSE "done"
    BY <1>9 DEF Schemas!CheckReferences, ListsInv
  <2>2. SubSeq(out, 1, cursor - 1)' = <<>>
    BY <2>1, Lengths, SubSeqEmpty
  <2> QED
    BY <2>1, <2>2 DEF FilesInv
<1>10. CASE Schemas!WriteMigration
  <2> DEFINE f == out[cursor]
             before == SubSeq(out, 1, cursor - 1)
  <2>1. /\ Schemas!At("files") /\ UNCHANGED <<out, conflicts>>
        /\ files' = IF f.mode = "create" /\ f.table \in Schemas!Created(files) THEN files ELSE Append(files, f)
    BY <1>10 DEF Schemas!WriteMigration
  <2>2. stage = "files" /\ stage' = "files" /\ cursor' = cursor + 1
    BY <2>1, AtFragment
  <2>3. /\ cursor \in Nat /\ cursor \in 1 .. Len(out) /\ out \in Seq(Schemas!Fragment) /\ Len(out) \in Nat
        /\ DOMAIN out = 1 .. Len(out)
    <3>1. Schemas!List = out
      BY <2>1, AtFragment
    <3> QED
      BY <2>1, <3>1, AtFragment, Lengths, Listed
  <2>4. conflicts = {} /\ files = before
    BY <2>2 DEF FilesInv
  <2>5. Len(before) = cursor - 1 /\ \A n \in 1 .. cursor - 1 : before[n] = out[n]
    <3>1. cursor - 1 \in 0 .. Len(out)
      BY <2>3
    <3> QED
      BY <2>3, <3>1, SubSeqProperties
  <2>6. \A g \in Schemas!ToSet(files) : g \in Schemas!ToSet(out) /\ g # f
    <3>1. DOMAIN before = 1 .. cursor - 1
      BY <2>3, <2>5
    <3> QED
      BY <2>3, <2>4, <2>5, <3>1 DEF Schemas!ToSet, ListsInv, Distinct
  <2>7. Schemas!Apart(Schemas!ToSet(out)) /\ f \in Schemas!ToSet(out)
    <3>1. Merged = Schemas!ToSet(out)
      BY <2>2 DEF Merged
    <3> QED
      BY <2>2, <2>3, <2>4, <3>1, Listed DEF MergeInv, Schemas!Compatible
  <2>8. ~(f.mode = "create" /\ f.table \in Schemas!Created(files))
    <3> SUFFICES ASSUME f.mode = "create", NEW g \in Schemas!ToSet(files), g.mode = "create", g.table = f.table PROVE FALSE
      BY DEF Schemas!Created, Schemas!TablesOf, Schemas!Creates
    <3> HIDE DEF f
    <3> QED
      BY <2>6, <2>7 DEF Schemas!Apart
  <2>9. files' = Append(files, f)
    BY <2>1, <2>8
  <2>10. SubSeq(out, 1, cursor' - 1) = Append(before, f)
    <3>1. /\ SubSeq(out, 1, cursor) \in Seq(Schemas!Fragment) /\ Len(SubSeq(out, 1, cursor)) = cursor
          /\ \A n \in 1 .. cursor : SubSeq(out, 1, cursor)[n] = out[n]
      BY <2>3, SubSeqProperties
    <3>2. before \in Seq(Schemas!Fragment) /\ f \in Schemas!Fragment
      BY <2>3, SubSeqProperties
    <3>3. /\ Append(before, f) \in Seq(Schemas!Fragment) /\ Len(Append(before, f)) = cursor
          /\ \A n \in 1 .. cursor - 1 : Append(before, f)[n] = out[n]
          /\ Append(before, f)[cursor] = out[cursor]
      <4> HIDE DEF before
      <4>1. /\ Append(before, f) \in Seq(Schemas!Fragment) /\ Len(Append(before, f)) = Len(before) + 1
            /\ \A n \in 1 .. Len(before) : Append(before, f)[n] = before[n]
            /\ Append(before, f)[Len(before) + 1] = f
        BY <3>2, AppendProperties
      <4> QED
        BY <2>3, <2>5, <4>1
    <3>4. cursor' - 1 = cursor
      BY <2>2, <2>3
    <3> DEFINE s == SubSeq(out, 1, cursor)
               t == Append(before, f)
    <3> HIDE DEF s, t, f, before
    <3>5. \A n \in 1 .. cursor : s[n] = t[n]
      <4>1. \A n \in 1 .. cursor : n \in 1 .. cursor - 1 \/ n = cursor
        BY <2>3
      <4> QED
        BY <3>1, <3>3, <4>1 DEF s, t
    <3>6. s = t
      BY <3>1, <3>3, <3>5, SeqEqual DEF s, t
    <3> QED
      BY <3>4, <3>6 DEF s, t
  <2> QED
    BY <2>1, <2>2, <2>4, <2>9, <2>10 DEF FilesInv
<1>11. CASE Schemas!NextLoop
  <2>1. UNCHANGED <<out, conflicts, files>>
    BY <1>11 DEF Schemas!NextLoop
  <2>2. \/ stage \notin {"files", "done"} /\ stage' \notin {"files", "done"}
        \/ stage = "files" /\ stage' = "done" /\ cursor > Len(Schemas!List) /\ Schemas!List = out
    BY <1>11 DEF Schemas!NextLoop, Schemas!After, Schemas!List
  <2>3. ASSUME stage = "files", cursor > Len(out), Schemas!List = out PROVE files = out
    <3>1. cursor - 1 = Len(out) /\ out \in Seq(Schemas!Fragment)
      BY <2>3, Lengths DEF ListsInv
    <3> QED
      BY <2>3, <3>1, SubSeqFull DEF FilesInv
  <2> QED
    BY <1>1, <2>1, <2>2, <2>3 DEF FilesInv
<1> QED
  BY <1>2, <1>3, <1>4, <1>5, <1>6, <1>7, <1>8, <1>9, <1>10, <1>11 DEF Schemas!Next

LEMMA SchemaBegins == Schemas!FragmentConstants /\ Schemas!Init => SchemaInv
<1> SUFFICES ASSUME Schemas!FragmentConstants, Schemas!Init PROVE SchemaInv
  OBVIOUS
<1>1. /\ stage = "collect" /\ cursor = 1 /\ fragments = <<>> /\ out = <<>> /\ files = <<>>
      /\ progress = FALSE /\ tables = [t \in {} |-> {}] /\ conflicts = {} /\ MaxFragments \in Nat
  BY DEF Schemas!Init, Schemas!FragmentConstants
<1>2. Merged = {}
  BY <1>1 DEF Merged
<1>3. Schemas!TypeOK
  <2>1. 1 \in 1 .. MaxFragments + 1 /\ Len(<<>>) <= MaxFragments /\ DOMAIN [t \in {} |-> {}] = {}
    BY <1>1
  <2>2. {fragments, out, files} \subseteq Seq(Schemas!Fragment)
    BY <1>1
  <2>3. progress \in BOOLEAN
    BY <1>1
  <2> QED
    BY <1>1, <2>1, <2>2, <2>3 DEF Schemas!TypeOK
<1>4. ListsInv
  BY <1>1 DEF ListsInv, Distinct, Schemas!ToSet, Schemas!List
<1>5. OrderInv
  BY <1>1 DEF OrderInv, InOrder
<1>6. MergeInv
  BY <1>1, <1>2 DEF MergeInv, Schemas!Apart, Schemas!Creates, Schemas!TablesOf, Schemas!TablesFrom
<1>7. FilesInv
  BY <1>1 DEF FilesInv
<1> QED
  BY <1>3, <1>4, <1>5, <1>6, <1>7 DEF SchemaInv

LEMMA SchemaStep == Schemas!FragmentConstants /\ SchemaInv /\ [Schemas!Next]_(Schemas!vars) => SchemaInv'
<1> SUFFICES ASSUME Schemas!FragmentConstants, SchemaInv, [Schemas!Next]_(Schemas!vars) PROVE SchemaInv'
  OBVIOUS
<1>1. CASE Schemas!Next
  BY <1>1, ListsStep, OrderStep, MergeStep, FilesStep DEF SchemaInv
<1>2. CASE UNCHANGED Schemas!vars
  <2>1. UNCHANGED <<stage, cursor, fragments, out, progress, tables, conflicts, files>>
    BY <1>2 DEF Schemas!vars
  <2>2. Schemas!TypeOK'
    BY <2>1 DEF SchemaInv, Schemas!TypeOK
  <2>3. ListsInv'
    BY <2>1 DEF SchemaInv, ListsInv, Schemas!List
  <2>4. OrderInv'
    BY <2>1, OrderFrame DEF SchemaInv, OrderInv
  <2>5. MergeInv'
    <3>1. Merged' = Merged
      BY <2>1 DEF Merged
    <3> QED
      BY <2>1, <3>1 DEF SchemaInv, MergeInv
  <2>6. FilesInv'
    BY <2>1 DEF SchemaInv, FilesInv
  <2> QED
    BY <2>2, <2>3, <2>4, <2>5, <2>6 DEF SchemaInv
<1> QED
  BY <1>1, <1>2

-----------------------------------------------------------------------------
\* What is true at the end.
LEMMA AtTheEnd ==
    ASSUME Schemas!FragmentConstants, SchemaInv, stage = "done"
    PROVE  /\ Schemas!ToSet(out) = Schemas!ToSet(fragments) /\ Merged = Schemas!ToSet(out)
           /\ conflicts = {} <=> Schemas!Compatible(Schemas!ToSet(out))
           /\ conflicts = {} => tables = Schemas!TablesFrom(Schemas!ToSet(out)) /\ files = out
           /\ DOMAIN tables = Schemas!Created(out)
<1>1. Schemas!ToSet(out) = Schemas!ToSet(fragments) /\ Merged = Schemas!ToSet(out)
  BY DEF SchemaInv, OrderInv, Merged
<1> QED
  BY <1>1 DEF SchemaInv, MergeInv, FilesInv, Schemas!Created

LEMMA SchemaIgnoresOrder == Schemas!FragmentConstants /\ SchemaInv => Schemas!MergeIgnoresOrder
BY AtTheEnd DEF Schemas!MergeIgnoresOrder

LEMMA SchemaMigrates == Schemas!FragmentConstants /\ SchemaInv => Schemas!MigrationsRun
<1> SUFFICES ASSUME Schemas!FragmentConstants, SchemaInv, stage = "done", conflicts = {},
                    NEW fs \in Schemas!SetToSeqs(Schemas!ToSet(fragments)), Schemas!Runs(fs)
             PROVE  \A n \in DOMAIN files :
                        /\ Schemas!FindsTables(files, n)
                        /\ Schemas!Targets(files[n]) \subseteq
                                Schemas!ColumnsOf({files[m] : m \in 1 .. n} \union
                                                  {f \in Schemas!ToSet(files) : f.mode = "extend"})
  BY DEF Schemas!MigrationsRun
<1> DEFINE S == Schemas!ToSet(out)
<1>1. /\ Schemas!ToSet(fragments) = S /\ files = out /\ Schemas!Apart(S) /\ Schemas!DanglingReferences(Schemas!TablesFrom(S)) = {}
      /\ Schemas!Created(fragments) = Schemas!TablesOf(Schemas!Creates(S))
  BY AtTheEnd DEF Schemas!Compatible, Schemas!Created
<1>2. /\ out \in Seq(Schemas!Fragment) /\ DOMAIN out = 1 .. Len(out) /\ Len(out) \in Nat /\ Distinct(out)
      /\ fragments \in Seq(Schemas!Fragment) /\ Distinct(fragments)
  BY Lengths, Listed DEF SchemaInv, ListsInv
<1>3. IsFiniteSet(Schemas!ToSet(fragments)) /\ Schemas!ToSet(fragments) \subseteq Schemas!Fragment
  BY <1>2, DistinctCardinality, Listed
<1>4. DOMAIN fs = 1 .. Len(fs) /\ \A n \in DOMAIN fs : fs[n] \in Schemas!Fragment
  BY <1>3, Orders, Listed
<1>5. InOrder(fs)
  <2> SUFFICES ASSUME NEW n \in DOMAIN fs PROVE Needs(fs[n]) \subseteq Schemas!CreatedBefore(fs, n)
    BY DEF InOrder
  <2>1. fs[n].mode \in {"create", "extend"}
    BY <1>4, FragmentFields
  <2>2. /\ fs[n].mode = "create" <=> fs[n].table \notin Schemas!CreatedBefore(fs, n)
        /\ {r.table : r \in fs[n].references} \subseteq Schemas!CreatedBefore(fs, n) \union {fs[n].table}
    BY DEF Schemas!Runs, Schemas!FindsTables
  <2> QED
    BY <2>1, <2>2 DEF Needs, Schemas!Deps
<1>6. InOrder(out)
  BY <1>5 DEF SchemaInv, OrderInv, Orderable
<1>7. ASSUME NEW f \in S, NEW r \in f.references
      PROVE  /\ r.table \in Schemas!Created(fragments)
             /\ \A c \in r.columns : \E g \in S : g.table = r.table /\ c \in g.columns
  <2> DEFINE merged == Schemas!TablesFrom(S)
             bad(t) == {q \in merged[t].references :
                  q.table \notin DOMAIN merged \/ ~(q.columns \subseteq merged[q.table].columns)}
  <2>1. f.table \in Schemas!TablesOf(Schemas!Creates(S))
    BY <1>1, <1>7 DEF Schemas!Apart, Schemas!TablesOf
  <2>2. DOMAIN merged = Schemas!TablesOf(Schemas!Creates(S)) /\ r \in merged[f.table].references
    BY <1>7, <2>1 DEF Schemas!TablesFrom
  <2>3. Schemas!DanglingReferences(merged) = UNION {{<<"unknown-reference", t, q>> : q \in bad(t)} : t \in DOMAIN merged}
    BY DEF Schemas!DanglingReferences
  <2>4. ASSUME NEW t \in DOMAIN merged, NEW c \in merged[t].columns
        PROVE  \E g \in S : g.table = t /\ c \in g.columns
    BY <2>2, <2>4 DEF Schemas!TablesFrom
  <2> HIDE DEF merged
  <2>5. r \notin bad(f.table)
    <3> DEFINE found(t) == {<<"unknown-reference", t, q>> : q \in bad(t)}
    <3>1. UNION {found(t) : t \in DOMAIN merged} = {}
      BY <1>1, <2>3 DEF merged
    <3>2. found(f.table) = {}
      <4> HIDE DEF found
      <4> QED
        BY <2>1, <2>2, <3>1
    <3> HIDE DEF bad
    <3> QED
      BY <3>2
  <2> QED
    BY <1>1, <2>2, <2>4, <2>5
<1>8. ASSUME NEW n \in DOMAIN out
      PROVE  Schemas!FindsTables(out, n)
  <2> DEFINE f == out[n]
  <2>1. f \in S /\ f.mode \in {"create", "extend"} /\ n \in Nat /\ Needs(f) \subseteq Schemas!CreatedBefore(out, n)
    BY <1>2, <1>6, Listed, FragmentFields DEF InOrder
  <2>2. f.mode = "extend" => f.table \in Schemas!CreatedBefore(out, n)
    BY <2>1 DEF Needs
  <2>3. ASSUME f.mode = "create", f.table \in Schemas!CreatedBefore(out, n) PROVE FALSE
    <3>1. PICK m \in 1 .. n - 1 : out[m].mode = "create" /\ out[m].table = f.table
      BY <2>3 DEF Schemas!CreatedBefore, Schemas!TablesOf
    <3>2. m \in DOMAIN out /\ m # n
      BY <1>2, <2>1
    <3>3. out[m] \in S /\ out[m] # out[n]
      BY <1>2, <3>2 DEF Schemas!ToSet, Distinct
    <3> QED
      BY <1>1, <2>1, <2>3, <3>1, <3>3 DEF Schemas!Apart
  <2>4. ASSUME NEW r \in f.references PROVE r.table \in Schemas!CreatedBefore(out, n) \union {f.table}
    <3>1. r.table \in Schemas!Created(fragments)
      BY <1>7, <2>1
    <3>2. r.table # f.table => r.table \in Schemas!Deps(f)
      BY <2>4, <3>1 DEF Schemas!Deps
    <3> QED
      BY <2>1, <3>2 DEF Needs
  <2> QED
    BY <2>1, <2>2, <2>3, <2>4 DEF Schemas!FindsTables
<1>9. ASSUME NEW n \in DOMAIN out, NEW r \in out[n].references, NEW c \in r.columns
      PROVE  \E g \in {out[m] : m \in 1 .. n} \union {f \in S : f.mode = "extend"} :
                g.table = r.table /\ c \in g.columns
  <2>1. n \in Nat /\ n >= 1 /\ out[n] \in S
    BY <1>2 DEF Schemas!ToSet
  <2>2. PICK g \in S : g.table = r.table /\ c \in g.columns
    BY <1>7, <2>1
  <2>3. g.mode \in {"create", "extend"} /\ out[n].mode \in {"create", "extend"}
    BY <1>2, <2>1, FragmentFields DEF Schemas!ToSet
  <2>4. CASE r.table \in Schemas!CreatedBefore(out, n) /\ g.mode = "create"
    <3>1. PICK m \in 1 .. n - 1 : out[m].mode = "create" /\ out[m].table = r.table
      BY <2>4 DEF Schemas!CreatedBefore, Schemas!TablesOf
    <3>2. m \in DOMAIN out /\ m \in 1 .. n
      BY <1>2, <2>1
    <3>3. out[m] = g
      BY <1>1, <2>2, <2>4, <3>1, <3>2 DEF Schemas!Apart, Schemas!ToSet
    <3> QED
      BY <2>2, <3>2, <3>3
  <2>5. CASE r.table \notin Schemas!CreatedBefore(out, n) /\ g.mode = "create"
    <3>1. r.table = out[n].table /\ out[n].mode = "create"
      BY <1>8, <2>3, <2>5 DEF Schemas!FindsTables
    <3>2. out[n] = g
      BY <1>1, <2>1, <2>2, <2>5, <3>1 DEF Schemas!Apart
    <3> QED
      BY <2>1, <2>2, <3>2
  <2> QED
    BY <2>2, <2>3, <2>4, <2>5
<1>10. ASSUME NEW n \in DOMAIN out
       PROVE  Schemas!Targets(out[n]) \subseteq
                Schemas!ColumnsOf({out[m] : m \in 1 .. n} \union {f \in S : f.mode = "extend"})
  <2> DEFINE G == {out[m] : m \in 1 .. n} \union {f \in S : f.mode = "extend"}
  <2>1. \A r \in out[n].references : \A c \in r.columns : \E g \in G : g.table = r.table /\ c \in g.columns
    BY <1>9
  <2> HIDE DEF G
  <2>2. ASSUME NEW x \in Schemas!Targets(out[n])
        PROVE  x \in Schemas!ColumnsOf(G)
    <3>1. PICK r \in out[n].references : x \in {r.table} \X r.columns
      BY <2>2 DEF Schemas!Targets
    <3>2. PICK c \in r.columns : x = <<r.table, c>>
      BY <3>1
    <3>3. PICK g \in G : g.table = r.table /\ c \in g.columns
      BY <2>1
    <3> QED
      BY <3>2, <3>3 DEF Schemas!ColumnsOf
  <2> QED
    BY <2>2 DEF G
<1> QED
  BY <1>1, <1>8, <1>10

LEMMA SchemaBuilds == Schemas!FragmentConstants /\ SchemaInv => Schemas!MigrationsBuildTables
<1> SUFFICES ASSUME Schemas!FragmentConstants, SchemaInv, stage = "done", conflicts = {}
             PROVE  /\ Schemas!TablesOf(Schemas!ToSet(files)) = DOMAIN tables
                    /\ \A t \in DOMAIN tables :
                        LET of == {n \in DOMAIN files : files[n].table = t}
                        IN  /\ UNION {files[n].columns : n \in of} = tables[t].columns
                            /\ UNION {files[n].references : n \in of} = tables[t].references
                            /\ \A n, m \in of : n # m => files[n].columns \intersect files[m].columns = {}
  BY DEF Schemas!MigrationsBuildTables
<1> DEFINE S == Schemas!ToSet(out)
<1>1. files = out /\ tables = Schemas!TablesFrom(S) /\ Schemas!Apart(S) /\ Distinct(out) /\ DOMAIN tables = Schemas!TablesOf(Schemas!Creates(S))
  BY AtTheEnd DEF Schemas!Compatible, SchemaInv, ListsInv, Schemas!Created
<1>2. Schemas!TablesOf(Schemas!ToSet(files)) = DOMAIN tables
  BY <1>1 DEF Schemas!Apart
<1>3. ASSUME NEW t \in DOMAIN tables
      PROVE  LET of == {n \in DOMAIN out : out[n].table = t}
             IN  /\ UNION {out[n].columns : n \in of} = tables[t].columns
                 /\ UNION {out[n].references : n \in of} = tables[t].references
                 /\ \A n, m \in of : n # m => out[n].columns \intersect out[m].columns = {}
  <2> DEFINE of == {n \in DOMAIN out : out[n].table = t}
             fs == {f \in S : f.table = t}
  <2>1. tables[t].columns = UNION {f.columns : f \in fs} /\ tables[t].references = UNION {f.references : f \in fs}
    BY <1>1 DEF Schemas!TablesFrom
  <2>2. fs = {out[n] : n \in of}
    BY DEF Schemas!ToSet
  <2>3. {out[n].columns : n \in of} = {f.columns : f \in fs} /\ {out[n].references : n \in of} = {f.references : f \in fs}
    <3> HIDE DEF of, fs
    <3> QED
      BY <2>2
  <2>4. ASSUME NEW n \in of, NEW m \in of, n # m PROVE out[n].columns \intersect out[m].columns = {}
    <3>1. out[n] \in S /\ out[m] \in S /\ out[n] # out[m] /\ out[n].table = out[m].table
      BY <1>1, <2>4 DEF Schemas!ToSet, Distinct
    <3> QED
      BY <1>1, <3>1 DEF Schemas!Apart
  <2> QED
    BY <2>1, <2>3, <2>4
<1> QED
  BY <1>1, <1>2, <1>3

-----------------------------------------------------------------------------
(***************************************************************************)
(* The loops alone.                                                        *)
(***************************************************************************)
LEMMA SchemaInvariant == ASSUME Schemas!FragmentConstants PROVE Schemas!Spec => []SchemaInv
BY SchemaBegins, SchemaStep, PTL DEF Schemas!Spec

\* mergeSchemas: the conflicts, and without them the merged tables, depend on which
\* fragments there are and not on the order in which they came.
THEOREM MergingIgnoresOrder ==
    ASSUME Schemas!FragmentConstants PROVE Schemas!Spec => []Schemas!MergeIgnoresOrder
BY SchemaInvariant, SchemaIgnoresOrder, PTL

\* orderFragments: if some order of the migrations runs, then in the generated one
\* each finds its tables, and its columns but for those that an alter adds.
THEOREM OrderedMigrationsRun ==
    ASSUME Schemas!FragmentConstants PROVE Schemas!Spec => []Schemas!MigrationsRun
BY SchemaInvariant, SchemaMigrates, PTL

\* rudderFiles, mergeSchemas: without conflicts the migrations add up to the merged
\* tables, each column and key once.
THEOREM MigrationsAddUp ==
    ASSUME Schemas!FragmentConstants PROVE Schemas!Spec => []Schemas!MigrationsBuildTables
BY SchemaInvariant, SchemaBuilds, PTL
=============================================================================
