-------------------------- MODULE TreeSettleProofs --------------------------
(***************************************************************************)
(* TotalsSettle of TreeTotals, for any finite tree, any sizes and number   *)
(* of changes, as long as no directory is renamed: once all notifications  *)
(* have been worked off, every row is the sum of its subtree.              *)
(*                                                                         *)
(* TotalsSettle speaks of moments of rest.  What holds in between is that  *)
(* the books of each directory balance: its total is its own size and the  *)
(* totals of its children's rows, unless its rescan is due or under way,   *)
(* and but for the difference that the scheduler carries up (BookKept).    *)
(* That is local: a change of the disk, a listing or one step of the       *)
(* propagation disturbs the books of one directory and of the one above.   *)
(* The rest of BookInv says what listings, purges, scans of new            *)
(* directories and scans of the root have added up so far, over rows that  *)
(* change under them.  At rest all books balance, and the totals are right *)
(* from the leaves up (BookSettles).                                       *)
(***************************************************************************)
EXTENDS TreeTotalsProofs, WellFoundedInduction

-----------------------------------------------------------------------------
(* The least number of a set.                                              *)

Less == {p \in Nat \X Nat : p[1] < p[2]}

\* A set of natural numbers that is not empty has a least one.
LEMMA LeastOf ==
  ASSUME NEW T, T \subseteq Nat, T # {}
  PROVE  \E x \in T : \A y \in T : x <= y
<1>1. IsWellFoundedOn(Less, Nat)
  BY NatLessThanWellFounded DEF Less, OpToRel
<1>2. PICK x \in T : \A y \in T : <<y, x>> \notin Less
  BY <1>1, WFMin
<1>3. x \in Nat /\ \A y \in T : y \in Nat
  OBVIOUS
<1>4. ASSUME NEW y \in T PROVE x <= y
  <2>1. <<y, x>> \in Less <=> y < x
    BY <1>3 DEF Less
  <2> QED
    BY <1>2, <1>3, <2>1
<1> QED
  BY <1>4

-----------------------------------------------------------------------------
(* Paths.                                                                  *)

LEMMA UnderIff ==
  ASSUME NEW p \in Path, NEW d \in Path
  PROVE  /\ Len(p) \in Nat /\ Len(d) \in Nat
         /\ IsUnder(p, d) <=> Len(d) <= Len(p) /\ \A i \in 1..Len(d) : p[i] = d[i]
<1>1. p \in Seq(Name) /\ d \in Seq(Name) /\ Len(p) \in Nat /\ Len(d) \in Nat
  BY Sequences
<1>2. ASSUME Len(d) <= Len(p), \A i \in 1..Len(d) : p[i] = d[i]
      PROVE  IsUnder(p, d)
  <2>1. \A i \in 1..Len(d) : p[i] \in Name /\ d[i] \in Name
    BY <1>1, <1>2, ElementOfSeq
  <2>2. /\ SubSeq(d, 1, Len(d)) \in Seq(Name)
        /\ Len(SubSeq(d, 1, Len(d))) = Len(d)
        /\ \A i \in 1..(Len(d) - 1 + 1) : SubSeq(d, 1, Len(d))[i] = d[1 + i - 1]
    BY <1>1, <2>1, SubSeqProperties
  <2>3. /\ SubSeq(p, 1, Len(d)) \in Seq(Name)
        /\ Len(SubSeq(p, 1, Len(d))) = Len(d)
        /\ \A i \in 1..(Len(d) - 1 + 1) : SubSeq(p, 1, Len(d))[i] = p[1 + i - 1]
    BY <1>1, <1>2, <2>1, SubSeqProperties
  <2>4. SubSeq(d, 1, Len(d)) = SubSeq(p, 1, Len(d))
    BY <1>1, <1>2, <2>2, <2>3, SeqEqual
  <2> QED
    BY <1>2, <2>4 DEF IsUnder, IsPrefix
<1> QED
  BY <1>1, <1>2, UnderAt

\* What Front does, place by place.
LEMMA FrontAt ==
  ASSUME NEW p \in Path, p # <<>>
  PROVE  /\ Front(p) \in Path /\ Len(p) \in Nat /\ Len(p) > 0
         /\ Len(Front(p)) = Len(p) - 1
         /\ \A i \in 1..Len(Front(p)) : Front(p)[i] = p[i]
<1>1. p \in Seq(Name) /\ Len(p) \in Nat /\ Front(p) \in Path
  BY Sequences
<1>2. Len(p) > 0
  BY <1>1, EmptySeq
<1> DEFINE n == Len(p) - 1
<1>3. n \in Nat /\ n = Len(p) - 1 /\ \A i \in 1..n : p[i] \in Name
  BY <1>1, <1>2, ElementOfSeq
<1>4. Front(p) = SubSeq(p, 1, n)
  BY DEF Front
<1> HIDE DEF n
<1>5. /\ Len(SubSeq(p, 1, n)) = IF 1 <= n THEN n - 1 + 1 ELSE 0
      /\ \A i \in 1..(n - 1 + 1) : SubSeq(p, 1, n)[i] = p[1 + i - 1]
  BY <1>1, <1>2, <1>3, SubSeqProperties
<1>6. Len(Front(p)) = n /\ \A i \in 1..n : Front(p)[i] = p[i]
  BY <1>3, <1>4, <1>5
<1> QED
  BY <1>1, <1>2, <1>3, <1>6

\* No path is below another of its length.
LEMMA SamePath ==
  ASSUME NEW p \in Path, NEW d \in Path, Len(p) = Len(d), IsUnder(p, d)
  PROVE  p = d
BY Sequences, UnderIff, SeqEqual

\* The order of the paths.
LEMMA Order ==
  /\ \A p \in Path : IsUnder(p, p) /\ IsUnder(p, <<>>)
  /\ \A p, q, d \in Path : IsUnder(p, q) /\ IsUnder(q, d) => IsUnder(p, d)
  /\ \A p, d \in Path : IsUnder(p, d) => Len(d) <= Len(p)
  /\ \A p, d \in Path : IsUnder(p, d) /\ p # d => Len(d) < Len(p) /\ ~IsUnder(d, p)
<1>1. \A p \in Path : IsUnder(p, p) /\ IsUnder(p, <<>>)
  BY Sequences, UnderIff
<1>2. ASSUME NEW p \in Path, NEW q \in Path, NEW d \in Path, IsUnder(p, q), IsUnder(q, d)
      PROVE  IsUnder(p, d)
  <2>1. Len(d) <= Len(q) /\ \A i \in 1..Len(d) : q[i] = d[i]
    BY <1>2, UnderIff
  <2>2. Len(q) <= Len(p) /\ \A i \in 1..Len(q) : p[i] = q[i]
    BY <1>2, UnderIff
  <2>3. Len(p) \in Nat /\ Len(q) \in Nat /\ Len(d) \in Nat
    BY Sequences
  <2>4. \A i \in 1..Len(d) : i \in 1..Len(q)
    BY <2>1, <2>3
  <2>5. Len(d) <= Len(p) /\ \A i \in 1..Len(d) : p[i] = d[i]
    BY <2>1, <2>2, <2>3, <2>4
  <2> QED
    BY <2>5, UnderIff
<1>3. ASSUME NEW p \in Path, NEW d \in Path, IsUnder(p, d)
      PROVE  /\ Len(d) <= Len(p)
             /\ p # d => Len(d) < Len(p) /\ ~IsUnder(d, p)
  <2>1. Len(d) <= Len(p) /\ Len(p) \in Nat /\ Len(d) \in Nat
    BY <1>3, UnderIff
  <2>2. p # d => Len(d) # Len(p)
    BY <1>3, SamePath
  <2>3. IsUnder(d, p) => Len(p) <= Len(d)
    BY UnderIff
  <2> QED
    BY <2>1, <2>2, <2>3
<1> QED
  BY <1>1, <1>2, <1>3

\* A path and the one it is directly in.
LEMMA Parent ==
  ASSUME NEW p \in Path, p # <<>>
  PROVE  /\ Front(p) \in Path /\ Front(p) # p /\ IsUnder(p, Front(p))
         /\ Len(p) \in Nat /\ Len(Front(p)) = Len(p) - 1
         /\ ~IsUnder(Front(p), p)
         /\ \A d \in Path : IsUnder(p, d) /\ p # d => IsUnder(Front(p), d)
<1>1. /\ Front(p) \in Path /\ Len(p) \in Nat /\ Len(p) > 0
      /\ Len(Front(p)) = Len(p) - 1
      /\ \A i \in 1..Len(Front(p)) : Front(p)[i] = p[i]
  BY FrontAt
<1>2. IsUnder(p, Front(p))
  BY <1>1, UnderIff
<1>3. ASSUME NEW d \in Path, IsUnder(p, d), p # d
      PROVE  IsUnder(Front(p), d)
  <2>1. Len(d) < Len(p) /\ Len(d) \in Nat
    BY <1>3, Order, Sequences
  <2>2. \A i \in 1..Len(d) : p[i] = d[i] /\ i \in 1..Len(Front(p))
    BY <1>1, <1>3, <2>1, UnderIff
  <2> QED
    BY <1>1, <2>1, <2>2, UnderIff
<1>4. ~IsUnder(Front(p), p)
  BY <1>1, UnderIff
<1> QED
  BY <1>1, <1>2, <1>3, <1>4

\* What two paths have below them is apart, unless one is below the other.
LEMMA Branches ==
  ASSUME NEW q \in Path, NEW c \in Path, NEW d \in Path,
         IsUnder(q, c), IsUnder(q, d), Len(c) <= Len(d)
  PROVE  IsUnder(d, c)
<1>1. /\ Len(c) \in Nat /\ Len(d) \in Nat
      /\ \A i \in 1..Len(c) : q[i] = c[i]
      /\ \A i \in 1..Len(d) : q[i] = d[i]
  BY UnderIff
<1>2. \A i \in 1..Len(c) : i \in 1..Len(d)
  BY <1>1
<1> QED
  BY <1>1, <1>2, UnderIff

\* ... so siblings have nothing in common.
LEMMA Siblings ==
  ASSUME NEW q \in Path, NEW c \in Path, NEW d \in Path, c # <<>>, d # <<>>,
         Front(c) = Front(d), IsUnder(q, c), IsUnder(q, d)
  PROVE  c = d
<1>1. Len(c) = Len(d) /\ Len(c) \in Nat
  BY FrontAt
<1>2. IsUnder(d, c)
  BY <1>1, Branches
<1> QED
  BY <1>1, <1>2, SamePath

\* The child of d that q is below.
LEMMA ChildAbove ==
  ASSUME NEW S, S \subseteq Path, \A p \in S \ {<<>>} : Front(p) \in S,
         NEW q \in S, NEW d \in Path, IsUnder(q, d), q # d
  PROVE  d \in S /\ \E c \in S : c # <<>> /\ Front(c) = d /\ IsUnder(q, c)
<1> DEFINE T == {x \in S : IsUnder(q, x) /\ IsUnder(x, d) /\ x # d}
           L == {Len(x) : x \in T}
<1>1. q \in T
  BY Order
<1>2. L \subseteq Nat /\ L # {}
  BY <1>1, Sequences
<1>3. PICK c \in T : \A x \in T : Len(c) <= Len(x)
  <2> HIDE DEF L
  <2>1. PICK n \in L : \A m \in L : n <= m
    BY <1>2, LeastOf
  <2> USE DEF L
  <2> QED
    BY <2>1
<1>4. c \in Path /\ c # <<>>
  BY <1>3, RootAlone, Sequences
<1>5. Front(c) \in S /\ IsUnder(c, Front(c)) /\ Len(Front(c)) < Len(c) /\ IsUnder(Front(c), d)
  BY <1>3, <1>4, Parent
<1>6. IsUnder(q, Front(c)) /\ Front(c) \in Path
  BY <1>3, <1>4, <1>5, Order, Parent
<1>7. Len(c) \in Nat /\ Len(Front(c)) \in Nat
  BY <1>4, <1>6, Sequences
<1>8. Front(c) = d
  BY <1>3, <1>5, <1>6, <1>7
<1> QED
  BY <1>3, <1>4, <1>5, <1>8

-----------------------------------------------------------------------------
(* Sums of totals.                                                         *)

\* The totals that the table t has for the directories in S, unit by unit, and
\* their sum.
Units(t, S) == UNION {{p} \X (1..t[p].total) : p \in S}
SumOf(t, S) == Cardinality(Units(t, S))

Totalled(t, S) == IsFiniteSet(S) /\ \A p \in S : t[p].total \in Nat

\* A directory has as many units as its total says.
LEMMA UnitsOfOne ==
  ASSUME NEW p, NEW n \in Nat
  PROVE  IsFiniteSet({p} \X (1..n)) /\ Cardinality({p} \X (1..n)) = n
<1>1. IsFiniteSet(1..n) /\ Cardinality(1..n) = n
  BY FS_Interval
<1>2. IsFiniteSet({p}) /\ Cardinality({p}) = 1
  BY FS_Singleton
<1>3. IsFiniteSet({p} \X (1..n)) /\ Cardinality({p} \X (1..n)) = 1 * n
  BY <1>1, <1>2, FS_Product, ZenonT(30)
<1> QED
  BY <1>3

\* A sum of totals is a natural number.
LEMMA SumType ==
  ASSUME NEW t, NEW S, Totalled(t, S)
  PROVE  IsFiniteSet(Units(t, S)) /\ SumOf(t, S) \in Nat
<1> DEFINE T == {{p} \X (1..t[p].total) : p \in S}
           f == [p \in S |-> {p} \X (1..t[p].total)]
<1>1. f \in Surjection(S, T)
  BY DEF Surjection
<1>2. IsFiniteSet(S) /\ \A x \in T : IsFiniteSet(x)
  <2>1. \A p \in S : IsFiniteSet({p} \X (1..t[p].total))
    BY UnitsOfOne DEF Totalled
  <2> QED
    BY <2>1 DEF Totalled
<1>3. Units(t, S) = UNION T
  BY DEF Units
<1> HIDE DEF T, f
<1>4. IsFiniteSet(T)
  BY <1>1, <1>2, FS_Surjection
<1> QED
  BY <1>2, <1>3, <1>4, FS_UNION, FS_CardinalityType DEF SumOf

\* Nothing adds up to nothing.
LEMMA SumEmpty ==
  ASSUME NEW t
  PROVE  SumOf(t, {}) = 0
<1>1. Units(t, {}) = {}
  BY DEF Units
<1> QED
  BY <1>1, FS_EmptySet DEF SumOf

\* A directory that is added to a set adds its total to the sum.
LEMMA SumAdd ==
  ASSUME NEW t, NEW S, NEW p, Totalled(t, S), p \notin S, t[p].total \in Nat
  PROVE  SumOf(t, S \cup {p}) = SumOf(t, S) + t[p].total
<1> DEFINE A == Units(t, S)
           B == {p} \X (1..t[p].total)
<1>1. Units(t, S \cup {p}) = A \cup B
  BY DEF Units
<1>2. A \cap B = {}
  BY DEF Units
<1>3. IsFiniteSet(A) /\ Cardinality(A) \in Nat /\ IsFiniteSet(B) /\ Cardinality(B) = t[p].total
  BY SumType, UnitsOfOne DEF SumOf
<1> HIDE DEF A, B
<1>4. Cardinality(A \cup B) = Cardinality(A) + Cardinality(B) - Cardinality(A \cap B)
  BY <1>3, FS_Union
<1>5. Cardinality(A \cap B) = 0
  BY <1>2, FS_EmptySet
<1>6. Cardinality(A \cup B) = Cardinality(A) + t[p].total
  BY <1>3, <1>4, <1>5
<1> QED
  BY <1>1, <1>6 DEF SumOf, A

\* The sum depends on the totals alone.
LEMMA SumSame ==
  ASSUME NEW t, NEW u, NEW S, \A p \in S : u[p].total = t[p].total
  PROVE  SumOf(u, S) = SumOf(t, S)
<1>1. Units(u, S) = Units(t, S)
  BY DEF Units
<1> QED
  BY <1>1 DEF SumOf

\* One total changes.
LEMMA SumChange ==
  ASSUME NEW t, NEW u, NEW S, NEW p \in S, Totalled(t, S), u[p].total \in Nat,
         \A q \in S \ {p} : u[q].total = t[q].total
  PROVE  SumOf(u, S) = SumOf(t, S) + u[p].total - t[p].total
<1> DEFINE R == S \ {p}
<1>1. IsFiniteSet(R) /\ R \cup {p} = S /\ p \notin R /\ Totalled(t, R) /\ Totalled(u, R)
  BY FS_RemoveElement DEF Totalled
<1>2. SumOf(u, R) = SumOf(t, R) /\ SumOf(t, R) \in Nat /\ t[p].total \in Nat
  BY <1>1, SumSame, SumType DEF Totalled
<1> HIDE DEF R
<1>3. SumOf(t, S) = SumOf(t, R) + t[p].total
  BY <1>1, <1>2, SumAdd
<1>4. SumOf(u, S) = SumOf(t, R) + u[p].total
  <2>1. SumOf(u, R \cup {p}) = SumOf(u, R) + u[p].total
    BY ONLY <1>1, SumAdd, u[p].total \in Nat
  <2> QED
    BY <1>1, <1>2, <2>1
<1> QED
  BY <1>2, <1>3, <1>4

\* The totals of a table of rows can be added up.
LEMMA TableTotals ==
  ASSUME NEW t, NEW S, S \subseteq Path, \A p \in S : t[p] \in Row
  PROVE  Totalled(t, S)
BY PathAssumption, FS_Subset DEF Totalled, Row

-----------------------------------------------------------------------------
(* The sizes on the disk.                                                  *)

\* Every directory is in one that exists.
TreeInv == \A p \in Dirs \ {<<>>} : Front(p) \in Dirs

Below(d) == {u \in Dirs \X (1..MaxSize) : IsUnder(u[1], d) /\ u[2] <= own[u[1]]}
AllBelow(S) == UNION {Below(c) : c \in S}
TrueRows == [p \in Dirs |-> [total |-> TrueSize(p)]]

\* TrueSize counts the units of what is below a directory.
LEMMA BelowType ==
  ASSUME TypeDisk, NEW d
  PROVE  IsFiniteSet(Below(d)) /\ TrueSize(d) = Cardinality(Below(d)) /\ TrueSize(d) \in Nat
<1>1. IsFiniteSet(Dirs \X (1..MaxSize))
  <2>1. IsFiniteSet(Dirs)
    BY PathAssumption, FS_Subset DEF TypeDisk
  <2>2. IsFiniteSet(1..MaxSize)
    BY BoundAssumption, FS_Interval
  <2> QED
    BY <2>1, <2>2, FS_Product
<1>2. Below(d) \in SUBSET (Dirs \X (1..MaxSize))
  BY DEF Below
<1>3. IsFiniteSet(Below(d))
  BY <1>1, <1>2, FS_Subset
<1>4. TrueSize(d) = Cardinality(Below(d))
  BY DEF TrueSize, Below
<1> QED
  BY <1>3, <1>4, FS_CardinalityType

\* Siblings have no units in common, so their true sizes add up.
LEMMA BelowOfSiblings ==
  ASSUME TypeDisk, NEW d \in Path, NEW S \in SUBSET Children(d)
  PROVE  IsFiniteSet(AllBelow(S)) /\ Cardinality(AllBelow(S)) = SumOf(TrueRows, S)
<1>1. /\ Children(d) \subseteq Dirs /\ Dirs \subseteq Path
      /\ \A c \in Children(d) : c # <<>> /\ Front(c) = d
  BY DEF Children, TypeDisk
<1>2. IsFiniteSet(Children(d))
  BY <1>1, PathAssumption, FS_Subset
<1>3. \A p \in Dirs : TrueRows[p].total = TrueSize(p) /\ TrueSize(p) \in Nat
  BY BelowType DEF TrueRows
<1> DEFINE Wrong == {R \in SUBSET Children(d) :
                       ~(/\ IsFiniteSet(AllBelow(R))
                         /\ Cardinality(AllBelow(R)) = SumOf(TrueRows, R))}
           L == {Cardinality(R) : R \in Wrong}
<1>4. Wrong = {}
  <2>1. SUFFICES ASSUME Wrong # {} PROVE FALSE
    OBVIOUS
  <2>2. \A R \in Wrong : IsFiniteSet(R) /\ Cardinality(R) \in Nat
    BY <1>2, FS_Subset, FS_CardinalityType
  <2>3. PICK R \in Wrong : \A Q \in Wrong : Cardinality(R) <= Cardinality(Q)
    <3>1. L \subseteq Nat /\ L # {}
      BY <2>1, <2>2
    <3> HIDE DEF L
    <3>2. PICK n \in L : \A m \in L : n <= m
      BY <3>1, LeastOf
    <3> USE DEF L
    <3> QED
      BY <3>2
  <2>4. R # {}
    <3>1. AllBelow({}) = {}
      BY DEF AllBelow
    <3> QED
      BY <3>1, FS_EmptySet, SumEmpty
  <2>5. PICK c \in R : TRUE
    BY <2>4
  <2> DEFINE Q == R \ {c}
  <2>6. /\ Q \in SUBSET Children(d) /\ Q \cup {c} = R /\ c \notin Q /\ c \in Children(d)
        /\ IsFiniteSet(Q) /\ Cardinality(Q) < Cardinality(R)
    BY <2>2, <2>5, FS_RemoveElement, FS_CardinalityType
  <2>7. IsFiniteSet(AllBelow(Q)) /\ Cardinality(AllBelow(Q)) = SumOf(TrueRows, Q)
    <3>1. Q \notin Wrong
      BY <2>2, <2>3, <2>6
    <3> QED
      BY <2>6, <3>1
  <2>8. AllBelow(Q \cup {c}) = AllBelow(Q) \cup Below(c)
    BY DEF AllBelow
  <2>9. AllBelow(Q) \cap Below(c) = {}
    <3>1. SUFFICES ASSUME NEW x \in Q, NEW u \in Below(x), u \in Below(c) PROVE FALSE
      BY DEF AllBelow
    <3>2. u[1] \in Path /\ IsUnder(u[1], x) /\ IsUnder(u[1], c)
      BY <1>1, <3>1 DEF Below
    <3>3. /\ x \in Path /\ c \in Path /\ x # <<>> /\ c # <<>> /\ Front(x) = Front(c)
          /\ x # c
      BY <1>1, <2>6, <3>1
    <3> QED
      BY <3>2, <3>3, Siblings
  <2>10. IsFiniteSet(Below(c)) /\ Cardinality(Below(c)) = TrueRows[c].total
         /\ TrueRows[c].total \in Nat
    BY <1>1, <1>3, <2>6, BelowType
  <2>11. /\ IsFiniteSet(AllBelow(R))
         /\ Cardinality(AllBelow(R)) = SumOf(TrueRows, Q) + TrueRows[c].total
    <3>1. Cardinality({}) = 0
      BY FS_EmptySet
    <3>2. SumOf(TrueRows, Q) \in Nat
      BY <2>7, FS_CardinalityType
    <3>3. /\ IsFiniteSet(AllBelow(Q) \cup Below(c))
          /\ Cardinality(AllBelow(Q) \cup Below(c))
               = Cardinality(AllBelow(Q)) + Cardinality(Below(c)) - Cardinality({})
      BY <2>7, <2>9, <2>10, FS_Union, ZenonT(60)
    <3>4. AllBelow(R) = AllBelow(Q) \cup Below(c)
      BY <2>6, <2>8
    <3> HIDE DEF Q
    <3> QED
      BY <2>7, <2>10, <3>1, <3>2, <3>3, <3>4
  <2>12. SumOf(TrueRows, R) = SumOf(TrueRows, Q) + TrueRows[c].total
    <3>1. Totalled(TrueRows, Q)
      BY <1>1, <1>3, <2>6 DEF Totalled
    <3> HIDE DEF Q
    <3> QED
      BY <2>6, <2>10, <3>1, SumAdd
  <2> QED
    BY <2>11, <2>12
<1> QED
  BY <1>4

\* What is below a directory is its own and what is below its children.
LEMMA TrueSizeSum ==
  ASSUME TypeDisk, TreeInv, NEW d \in Dirs
  PROVE  TrueSize(d) = own[d] + SumOf(TrueRows, Children(d))
<1>1. /\ Dirs \subseteq Path /\ own[d] \in 0..MaxSize /\ MaxSize \in Nat
      /\ \A p \in Dirs \ {<<>>} : Front(p) \in Dirs
      /\ \A p \in Dirs : own[p] \in 0..MaxSize
  BY BoundAssumption DEF TypeDisk, TreeInv
<1> DEFINE A == {d} \X (1..own[d])
           B == AllBelow(Children(d))
<1>2. Below(d) \subseteq A \cup B
  <2>1. SUFFICES ASSUME NEW u \in Below(d) PROVE u \in A \cup B
    OBVIOUS
  <2>2. /\ u \in Dirs \X (1..MaxSize) /\ u[1] \in Dirs /\ IsUnder(u[1], d) /\ u[2] <= own[u[1]]
        /\ u[2] \in 1..MaxSize
    BY <2>1 DEF Below
  <2>3. CASE u[1] = d
    BY <1>1, <2>2, <2>3
  <2>4. CASE u[1] # d
    <3>1. PICK c \in Dirs : c # <<>> /\ Front(c) = d /\ IsUnder(u[1], c)
      BY <1>1, <2>2, <2>4, ChildAbove
    <3>2. c \in Children(d) /\ u \in Below(c)
      BY <2>2, <3>1 DEF Children, Below
    <3> QED
      BY <3>2 DEF AllBelow
  <2> QED
    BY <2>3, <2>4
<1>3. A \subseteq Below(d)
  <2>1. IsUnder(d, d)
    BY <1>1, Order
  <2> QED
    BY <1>1, <2>1 DEF Below
<1>4. B \subseteq Below(d)
  <2>1. SUFFICES ASSUME NEW c \in Children(d), NEW u \in Below(c) PROVE u \in Below(d)
    BY DEF AllBelow
  <2>2. c \in Path /\ c # <<>> /\ Front(c) = d
    BY <1>1 DEF Children
  <2>3. IsUnder(c, d)
    BY <2>2, Parent
  <2>4. u[1] \in Path /\ IsUnder(u[1], c)
    BY <1>1 DEF Below
  <2>5. IsUnder(u[1], d)
    BY <1>1, <2>2, <2>3, <2>4, Order
  <2> QED
    BY <2>5 DEF Below
<1>5. A \cap B = {}
  <2>1. SUFFICES ASSUME NEW c \in Children(d), NEW u \in Below(c), u[1] = d PROVE FALSE
    BY DEF AllBelow
  <2>2. c \in Path /\ c # <<>> /\ Front(c) = d /\ IsUnder(d, c)
    BY <1>1, <2>1 DEF Children, Below
  <2> QED
    BY <2>2, Parent
<1>6. IsFiniteSet(A) /\ Cardinality(A) = own[d] /\ own[d] \in Nat
  <2>1. own[d] \in Nat
    BY <1>1
  <2> QED
    BY <2>1, UnitsOfOne
<1>7. IsFiniteSet(B) /\ Cardinality(B) = SumOf(TrueRows, Children(d))
  BY <1>1, BelowOfSiblings
<1>8. Below(d) = A \cup B
  BY <1>2, <1>3, <1>4
<1> HIDE DEF A, B
<1>9. Cardinality(A \cup B) = Cardinality(A) + Cardinality(B) - Cardinality(A \cap B)
  BY <1>6, <1>7, FS_Union
<1>10. Cardinality(A \cap B) = 0 /\ Cardinality(B) \in Nat
  BY <1>5, <1>7, FS_EmptySet, FS_CardinalityType
<1>11. TrueSize(d) = Cardinality(A \cup B)
  BY <1>8, BelowType
<1> QED
  BY <1>6, <1>7, <1>9, <1>10, <1>11

-----------------------------------------------------------------------------
(* The books.                                                              *)

\* The table u written over the table t, and t without what is outside S.
Over(t, u) ==
  [p \in DOMAIN t \cup DOMAIN u |-> IF p \in DOMAIN u THEN u[p] ELSE t[p]]
Only(t, S) == [p \in S |-> t[p]]

\* The directories that t has directly in d.
Kids(t, d) == {p \in DOMAIN t : p # <<>> /\ Front(p) = d}

\* In t, d has its children and no others, and its own size and theirs for its
\* total, once delta is added.
Balanced(t, d, delta) ==
  /\ Kids(t, d) = Children(d)
  /\ t[d].total + delta = own[d] + SumOf(t, Children(d))

Anchored(t, d) == \A q \in Path : IsUnder(d, q) => q \in DOMAIN t
DepthOK(t) == \A p \in DOMAIN t : t[p].depth = Len(p)

\* A directory that is not there, but the one it would be in is.
Missing(p) == p # <<>> /\ p \notin Dirs /\ Front(p) \in Dirs

\* The directory that RescanOne is about to write the row of, and the one that
\* PropagateAncestorDeltas is about to add its difference to.
Held(d) == job.at \in {"open", "list", "purge"} /\ job.dir = d
Raised == IF job.at \in {"raise", "apply"} THEN {job.dir} ELSE {}
Delta(d) == IF d \in Raised THEN job.delta ELSE 0

\* Rows that stand for a directory below a missing one have the row of that too,
\* so that its rescan drops them ...
NoGap(S) == \A d \in S, e \in Path : IsUnder(d, e) /\ Missing(e) => e \in Known

\* ... and that rescan is on its way.
Noticed(S) == \A e \in S : Missing(e) => Front(e) \in OnItsWay \/ Held(Front(e))

BookKept ==
  \A d \in Dirs \cap Known :
    Anchored(rows, d) /\ d \notin OnItsWay /\ ~Held(d) => Balanced(rows, d, Delta(d))

Main == DepthOK(rows) /\ BookKept /\ NoGap(Known) /\ Noticed(Known)

-----------------------------------------------------------------------------
(* The scheduler's work in progress.                                       *)

JobShape ==
  /\ job.at \in {"open", "list", "purge"} =>
       job.old = Find(job.dir) /\ job.depth = job.old.depth
  /\ job.at = "apply" => job.row = Find(job.dir)
  /\ job.at = "list" => \A x \in job.live : x # <<>> /\ Front(x) = job.dir
  /\ job.at = "purge" => \A x \in job.doomed : IsUnder(x, job.dir) /\ x # job.dir
  /\ stack # <<>> => job.at \in {"list", "root"}
  /\ stack = <<>> => out = <<>>

Bottom == stack[Len(stack)].dir
Depths == 1..Len(stack)

FramesChained ==
  /\ \A i \in Depths :
       /\ \A x \in stack[i].todo : x # <<>> /\ Front(x) = stack[i].dir
       /\ ~stack[i].found => stack[i].todo = {} /\ stack[i].sum = 0
  /\ \A i \in Depths : i + 1 \in Depths =>
       /\ stack[i].dir # <<>> /\ Front(stack[i].dir) = stack[i + 1].dir
       /\ stack[i].dir \notin stack[i + 1].todo
       /\ stack[i + 1].found
  /\ \A i, j \in Depths :
       i < j => IsUnder(stack[i].dir, stack[j].dir) /\ stack[i].dir # stack[j].dir

OutShape ==
  stack # <<>> =>
    /\ \A p \in DOMAIN out : IsUnder(p, Bottom) /\ p # Bottom /\ ~out[p].old
    /\ job.at = "root" => Bottom = <<>>
    /\ job.at = "list" => Bottom \in job.live \ job.todo /\ Bottom \notin Known

Shape == JobShape /\ FramesChained /\ OutShape

\* What a listing has added up so far.
Counted == job.live \ (job.todo \cup (IF stack = <<>> THEN {} ELSE {Bottom}))
ListClaim ==
  job.at = "list" /\ job.dir \in Dirs /\ job.dir \notin OnItsWay =>
    /\ job.live = Children(job.dir)
    /\ Counted \subseteq Known
    /\ job.sum = own[job.dir] + SumOf(rows, Counted)
PurgeClaim ==
  job.at = "purge" /\ job.depth = Len(job.dir) =>
    /\ \A x \in job.doomed : Front(x) = job.dir
    /\ job.dir \in Dirs /\ job.dir \notin OnItsWay =>
         /\ Kids(rows, job.dir) \ job.doomed = Children(job.dir)
         /\ job.sum = own[job.dir] + SumOf(rows, Children(job.dir))

\* The rows that a scan has written, and those it has not written yet.
Fresh == IF job.at \in {"root", "sweep"} THEN {p \in Known : ~rows[p].old} ELSE Known
New == Over(Only(rows, Fresh), out)

FoundDirs == {stack[i].dir : i \in {i \in Depths : stack[i].found}}
InNew == DOMAIN New \cup FoundDirs
Visited(q) ==
  \A i \in Depths : q # stack[i].dir /\ \A x \in stack[i].todo : ~IsUnder(q, x)

\* What the frame i has added up so far.
Added(i) ==
  Children(stack[i].dir)
    \ (stack[i].todo \cup (IF i = 1 THEN {} ELSE {stack[i - 1].dir}))
FrameClaim(i) ==
  /\ stack[i].found /\ stack[i].dir \in Dirs /\ stack[i].dir \notin OnItsWay =>
       /\ stack[i].todo \subseteq Children(stack[i].dir)
       /\ Added(i) \subseteq DOMAIN New
       /\ stack[i].sum = own[stack[i].dir] + SumOf(New, Added(i))
  /\ ~stack[i].found => stack[i].dir \notin Dirs

ScanDepth == (\A i \in Depths : stack[i].depth = Len(stack[i].dir)) /\ DepthOK(New)
Complete == stack # <<>> /\ \A i \in Depths : stack[i].complete

FramesKept == \A i \in Depths : FrameClaim(i)
NewKept ==
  \A q \in Dirs \cap DOMAIN New :
    IsUnder(q, Bottom) /\ Visited(q) /\ q \notin OnItsWay => Balanced(New, q, 0)
RootKept ==
  job.at = "root" => \A q \in InNew, e \in Path : IsUnder(q, e) => e \in InNew

SweepClaim ==
  job.at = "sweep" =>
    /\ <<>> \in Fresh
    /\ \A q \in Fresh, e \in Path : IsUnder(q, e) => e \in Fresh
    /\ \A q \in Dirs \cap Fresh : q \notin OnItsWay => Balanced(New, q, 0)

-----------------------------------------------------------------------------

InScan == job.at \in {"root", "sweep"}
Untouched == job.at = "root" /\ \A p \in Known : rows[p].old

\* What holds while trust is full ...
FullInv ==
  /\ <<>> \in Known
  /\ ~InScan \/ Untouched => Main
  /\ stack # <<>> /\ job.at = "list" => job.depth = Len(job.dir)
  /\ ~InScan => NoGap(DOMAIN out \cup FoundDirs \cup Raised)
  /\ ListClaim /\ PurgeClaim

\* ... and what a scan is on its way to, which is what wins trust back.
NewInv ==
  /\ ScanDepth
  /\ Noticed(InNew)
  /\ Complete => FramesKept /\ NewKept /\ RootKept
  /\ SweepClaim

\* Without renames, the watch thread only collects directories to be rescanned.
NoRenames ==
  /\ \A i \in 1..Len(events) : events[i].kind = "changed"
  /\ watch \in {Reading, [at |-> "batch"]}

BookInv ==
  /\ NoRenames /\ TreeInv /\ Shape
  /\ trust = "healing" => InScan
  /\ trust = "full" => FullInv
  /\ trust \in {"full", "healing"} => NewInv

-----------------------------------------------------------------------------
(* What the types give.                                                    *)

LEMMA DiskFacts ==
  ASSUME TypeInv
  PROVE  /\ Dirs \subseteq Path /\ <<>> \in Dirs
         /\ \A d \in Dirs : own[d] \in Nat
         /\ \A d : Children(d) \subseteq Dirs /\ \A c \in Children(d) : c # <<>> /\ Front(c) = d
BY BoundAssumption DEF TypeInv, TypeDisk, Children

\* What the types say of the rows, stored and measured,
LEMMA RowFacts ==
  ASSUME TypeInv
  PROVE  /\ Known \subseteq Path /\ Known = DOMAIN rows
         /\ \A p \in Known : /\ rows[p] \in Row /\ rows[p].total \in Nat
                             /\ rows[p].depth \in Int /\ rows[p].old \in BOOLEAN
         /\ DOMAIN out \subseteq Path
         /\ \A p \in DOMAIN out : /\ out[p] \in Row /\ out[p].total \in Nat
                                  /\ out[p].depth \in Int /\ out[p].old \in BOOLEAN
BY DEF TypeInv, TypeRows, TypeScan, Known, Row

\* of the frames of a scan,
LEMMA FrameFacts ==
  ASSUME TypeInv
  PROVE  /\ stack \in Seq(FrameType) /\ Len(stack) \in Nat
         /\ \A i \in Depths : /\ stack[i] \in FrameType
                              /\ stack[i].dir \in Path /\ stack[i].todo \subseteq Path
                              /\ stack[i].sum \in Nat /\ stack[i].depth \in Int
                              /\ stack[i].found \in BOOLEAN /\ stack[i].complete \in BOOLEAN
         /\ stack # <<>> => /\ Len(stack) \in Depths /\ 1 \in Depths /\ Top = stack[1]
                            /\ Bottom \in Path
<1>1. stack \in Seq(FrameType) /\ Len(stack) \in Nat
  BY LenProperties DEF TypeInv, TypeScan
<1>2. \A i \in Depths : stack[i] \in FrameType
  BY <1>1, ElementOfSeq DEF Depths
<1>3. stack # <<>> => Len(stack) > 0 /\ Top = stack[1]
  BY <1>1, EmptySeq, HeadTailProperties DEF Top
<1>4. \A i \in Depths : /\ stack[i].dir \in Path /\ stack[i].todo \subseteq Path
                        /\ stack[i].sum \in Nat /\ stack[i].depth \in Int
                        /\ stack[i].found \in BOOLEAN /\ stack[i].complete \in BOOLEAN
  BY <1>2 DEF FrameType
<1>5. stack # <<>> => Len(stack) \in Depths /\ 1 \in Depths
  BY <1>1, <1>3 DEF Depths
<1> QED
  BY <1>1, <1>2, <1>3, <1>4, <1>5 DEF Bottom

\* and what a table written over another has.
LEMMA OverIs ==
  ASSUME NEW t, NEW u
  PROVE  /\ DOMAIN Over(t, u) = DOMAIN t \cup DOMAIN u
         /\ \A p \in DOMAIN u : Over(t, u)[p] = u[p]
         /\ \A p \in DOMAIN t \ DOMAIN u : Over(t, u)[p] = t[p]
BY DEF Over

\* The rows as a scan would leave them.
LEMMA NewFacts ==
  ASSUME TypeInv
  PROVE  /\ DOMAIN New = Fresh \cup DOMAIN out /\ DOMAIN New \subseteq Path /\ Fresh \subseteq Known
         /\ \A p \in DOMAIN New : /\ New[p] = IF p \in DOMAIN out THEN out[p] ELSE rows[p]
                                  /\ New[p] \in Row /\ New[p].total \in Nat
<1>1. Fresh \subseteq Known
  BY DEF Fresh
<1>2. DOMAIN Only(rows, Fresh) = Fresh /\ \A p \in Fresh : Only(rows, Fresh)[p] = rows[p]
  BY DEF Only
<1>3. DOMAIN New = Fresh \cup DOMAIN out
  BY <1>2, OverIs DEF New
<1>4. ASSUME NEW p \in DOMAIN New
      PROVE  New[p] = IF p \in DOMAIN out THEN out[p] ELSE rows[p]
  <2>1. p \in DOMAIN out => New[p] = out[p]
    <3>1. \A q \in DOMAIN out : Over(Only(rows, Fresh), out)[q] = out[q]
      BY OverIs, ZenonT(30)
    <3> QED
      BY <3>1 DEF New
  <2>2. p \notin DOMAIN out => p \in Fresh /\ New[p] = Only(rows, Fresh)[p]
    BY <1>2, <1>3, <1>4, OverIs, ZenonT(30) DEF New
  <2> QED
    BY <1>2, <2>1, <2>2
<1>5. /\ Known \subseteq Path /\ DOMAIN out \subseteq Path
      /\ \A p \in Known : rows[p] \in Row /\ rows[p].total \in Nat
      /\ \A p \in DOMAIN out : out[p] \in Row /\ out[p].total \in Nat
  BY RowFacts
<1> QED
  BY <1>1, <1>3, <1>4, <1>5

\* A directory is not below one that does not exist.
LEMMA DirAbove ==
  ASSUME TypeInv, TreeInv, NEW q \in Dirs, NEW d \in Path, IsUnder(q, d)
  PROVE  /\ d \in Dirs
         /\ q # d => \E c \in Children(d) : IsUnder(q, c)
<1>1. Dirs \subseteq Path /\ \A p \in Dirs \ {<<>>} : Front(p) \in Dirs
  BY DiskFacts DEF TreeInv
<1>2. CASE q = d
  BY <1>2
<1>3. CASE q # d
  <2>1. d \in Dirs /\ \E c \in Dirs : c # <<>> /\ Front(c) = d /\ IsUnder(q, c)
    BY <1>1, <1>3, ChildAbove
  <2> QED
    BY <2>1 DEF Children
<1> QED
  BY <1>2, <1>3

-----------------------------------------------------------------------------
(* The disk.                                                               *)

\* A change of the disk that is noted for d.
Effect(d, followed) ==
  /\ d \in Path
  /\ events' = Append(events, Changed(d))
  /\ trust' = IF followed /\ trust = "full" THEN "full" ELSE "lost"
  /\ UNCHANGED <<affected, watch, rows, queue, job, scan>>
  /\ TreeInv'
  /\ \A p \in Dirs \cap Dirs' : p # d => Children(p)' = Children(p) /\ own'[p] = own[p]
  /\ followed =>
       /\ \A p \in Dirs' \ Dirs : \A q \in Known \cup InHand : ~IsUnder(q, p)
       /\ \A e \in Path : Missing(e)' =>
            \/ Missing(e)
            \/ e \in Known /\ Front(e) = d
            \/ \A q \in Known \cup InHand : ~IsUnder(q, e)

\* A write changes the size of one directory and its notification names it.
LEMMA WriteEffect ==
  ASSUME TypeInv, TreeInv, NEW d \in Path, Write(d)
  PROVE  Effect(d, TRUE)
<1>1. PICK n \in 0..MaxSize \ {own[d]} : own' = [own EXCEPT ![d] = n]
  BY DEF Write
<1>2. Dirs' = Dirs
  BY <1>1 DEF Dirs
<1>3. \A p : Children(p)' = Children(p)
  BY <1>2 DEF Children
<1>4. \A p \in Dirs : p # d => own'[p] = own[p]
  BY <1>1 DEF Dirs
<1>5. TreeInv' /\ \A e : Missing(e)' => Missing(e)
  BY <1>2 DEF TreeInv, Missing
<1>6. DiskChanges("write", Changed(d), TRUE)
  BY DEF Write
<1> QED
  BY <1>2, <1>3, <1>4, <1>5, <1>6 DEF Effect, DiskChanges

\* A directory that appears has nothing below it, and the one it is in is notified.
LEMMA AppearEffect ==
  ASSUME TypeInv, TreeInv, NEW p \in Path, NEW n, NEW op, Appear(p, n),
         DiskChanges(op, Changed(Front(p)), Forgotten(p))
  PROVE  Effect(Front(p), Forgotten(p))
<1>1. /\ p \notin Dirs /\ p # <<>> /\ Front(p) \in Dirs
      /\ own' = [d \in Dirs \cup {p} |-> IF d = p THEN n ELSE own[d]]
  BY DEF Appear
<1>2. Dirs' = Dirs \cup {p}
  BY <1>1 DEF Dirs
<1>3. \A d \in Dirs : own'[d] = own[d]
  BY <1>1
<1>4. \A d \in Dirs : d # Front(p) => Children(d)' = Children(d)
  BY <1>2 DEF Children
<1>5. TreeInv'
  BY <1>1, <1>2 DEF TreeInv
<1>6. ASSUME Forgotten(p)
      PROVE  /\ \A d \in Dirs' \ Dirs : \A q \in Known \cup InHand : ~IsUnder(q, d)
             /\ \A e \in Path : Missing(e)' =>
                  Missing(e) \/ \A q \in Known \cup InHand : ~IsUnder(q, e)
  <2>1. \A q \in Known \cup InHand : ~IsUnder(q, p)
    BY <1>6 DEF Forgotten
  <2>2. ASSUME NEW e \in Path, Missing(e)', ~Missing(e), NEW q \in Known \cup InHand,
               IsUnder(q, e)
        PROVE  FALSE
    <3>1. e # <<>> /\ Front(e) = p
      BY <1>1, <1>2, <2>2 DEF Missing
    <3>2. IsUnder(e, p)
      BY <3>1, Parent
    <3>3. q \in Path
      <4>1. Known \subseteq Path /\ DOMAIN out \subseteq Path
        BY RowFacts
      <4>2. \A i \in 1..Len(stack) : stack[i].dir \in Path
        BY FrameFacts DEF Depths
      <4>3. job.at \in {"open", "list", "purge", "raise", "apply"} => job.dir \in Path
        BY DEF TypeInv, TypeJob, Job, Idle, Listing
      <4> QED
        BY <4>1, <4>2, <4>3 DEF InHand
    <3> QED
      BY <2>1, <2>2, <3>2, <3>3, Order
  <2> QED
    BY <1>2, <2>1, <2>2
<1> QED
  BY <1>1, <1>2, <1>3, <1>4, <1>5, <1>6, DiskFacts DEF Effect, DiskChanges

\* Of a directory that vanishes nothing is left, and the one it is in is notified.
LEMMA VanishEffect ==
  ASSUME TypeInv, TreeInv, NEW p \in Dirs \ {<<>>}, NEW op,
         own' = Without(own, {q \in Dirs : IsUnder(q, p)}),
         DiskChanges(op, Changed(Front(p)), p \in Known)
  PROVE  Effect(Front(p), p \in Known)
<1>1. Dirs \subseteq Path /\ Front(p) \in Path /\ p \in Path /\ p # <<>>
  BY DiskFacts, Parent
<1>2. Dirs' = {q \in Dirs : ~IsUnder(q, p)}
  BY DEF Dirs, Without
<1>3. \A d \in Dirs' : own'[d] = own[d]
  BY <1>2 DEF Without, Dirs
<1>4. ASSUME NEW q \in Dirs, q # <<>>
      PROVE  /\ IsUnder(Front(q), p) => IsUnder(q, p)
             /\ IsUnder(q, p) /\ q # p => IsUnder(Front(q), p)
  <2>1. q \in Path /\ Front(q) \in Path /\ IsUnder(q, Front(q))
    BY <1>1, <1>4, Parent
  <2> QED
    BY <1>1, <1>4, <2>1, Order, Parent
<1>5. TreeInv'
  BY <1>2, <1>4 DEF TreeInv
<1>6. ASSUME NEW d \in Dirs', d # Front(p)
      PROVE  Children(d)' = Children(d)
  <2>1. \A c \in Children(d) : ~IsUnder(c, p)
    BY <1>2, <1>4, <1>6 DEF Children
  <2> QED
    BY <1>2, <2>1 DEF Children
<1>7. ASSUME NEW e \in Path, Missing(e)', ~Missing(e)
      PROVE  e = p
  <2>1. e # <<>> /\ Front(e) \in Dirs /\ ~IsUnder(Front(e), p) /\ e \in Dirs /\ IsUnder(e, p)
    BY <1>2, <1>7 DEF Missing
  <2> QED
    BY <1>4, <2>1
<1>8. (p \in Known) => \A e \in Path : Missing(e)' => Missing(e) \/ (e \in Known /\ Front(e) = Front(p))
  BY <1>7
<1>9. Dirs' \ Dirs = {}
  BY <1>2
<1> QED
  BY <1>1, <1>3, <1>5, <1>6, <1>8, <1>9 DEF Effect, DiskChanges

\* Every change of the disk but a rename is one of these.
LEMMA DiskEffect ==
  ASSUME TypeInv, TreeInv, Disk, "rename" \notin Ops
  PROVE  \E d \in Path, followed \in BOOLEAN : Effect(d, followed)
<1>1. Dirs \subseteq Path
  BY DiskFacts
<1>2. PICK p \in Path : \/ Write(p) \/ Make(p) \/ MoveIn(p) \/ Delete(p) \/ MoveOut(p)
                        \/ \E q \in Path : Rename(p, q)
  BY DEF Disk
<1>3. CASE Write(p)
  BY <1>3, WriteEffect
<1>4. CASE Make(p)
  <2>1. /\ Appear(p, 0) /\ Forgotten(p) \in BOOLEAN
        /\ DiskChanges("make", Changed(Front(p)), Forgotten(p))
    BY <1>4 DEF Make, Forgotten
  <2>2. Effect(Front(p), Forgotten(p))
    BY <2>1, AppearEffect
  <2> QED
    BY <2>1, <2>2 DEF Effect
<1>5. CASE MoveIn(p)
  <2>1. PICK n \in 0..MaxSize : Appear(p, n)
    BY <1>5 DEF MoveIn
  <2>2. /\ Forgotten(p) \in BOOLEAN
        /\ DiskChanges("moveIn", Changed(Front(p)), Forgotten(p))
    BY <1>5 DEF MoveIn, Forgotten
  <2>3. Effect(Front(p), Forgotten(p))
    BY <2>1, <2>2, AppearEffect
  <2> QED
    BY <2>2, <2>3 DEF Effect
<1>6. CASE Delete(p)
  <2>1. /\ p \in Dirs \ {<<>>} /\ Children(p) = {} /\ own' = Without(own, {p})
        /\ DiskChanges("remove", Changed(Front(p)), p \in Known)
    BY <1>6 DEF Delete
  <2>2. {q \in Dirs : IsUnder(q, p)} = {p}
    <3>1. \A q \in Dirs : IsUnder(q, p) => q = p
      BY <1>1, <2>1, DirAbove
    <3> QED
      BY <2>1, <3>1, Order
  <2>3. own' = Without(own, {q \in Dirs : IsUnder(q, p)})
    BY <2>1, <2>2
  <2>4. Effect(Front(p), p \in Known)
    BY <2>1, <2>3, VanishEffect
  <2>5. (p \in Known) \in BOOLEAN
    OBVIOUS
  <2> QED
    BY <2>4, <2>5 DEF Effect
<1>7. CASE MoveOut(p)
  <2>1. /\ p \in Dirs \ {<<>>} /\ own' = Without(own, {q \in Dirs : IsUnder(q, p)})
        /\ DiskChanges("moveOut", Changed(Front(p)), p \in Known)
        /\ (p \in Known) \in BOOLEAN
    BY <1>7 DEF MoveOut
  <2>2. Effect(Front(p), p \in Known)
    BY <2>1, VanishEffect
  <2> QED
    BY <2>1, <2>2 DEF Effect
<1>8. CASE \E q \in Path : Rename(p, q)
  BY <1>8 DEF Rename, DiskChanges
<1> QED
  BY <1>2, <1>3, <1>4, <1>5, <1>6, <1>7, <1>8

\* What depends on the table and the scheduler's work alone.
LEMMA SameWork ==
  ASSUME rows' = rows, job' = job, stack' = stack, out' = out
  PROVE  /\ Known' = Known /\ Fresh' = Fresh /\ New' = New
         /\ Depths' = Depths /\ Bottom' = Bottom /\ FoundDirs' = FoundDirs /\ InNew' = InNew
         /\ Raised' = Raised /\ \A d : Held(d)' = Held(d) /\ Delta(d)' = Delta(d)
         /\ Counted' = Counted /\ InScan' = InScan /\ Untouched' = Untouched
         /\ Complete' = Complete /\ ScanDepth' = ScanDepth
         /\ \A q : Visited(q)' = Visited(q)
         /\ Shape' = Shape
<1>1. Known' = Known /\ Depths' = Depths
  BY DEF Known, Depths
<1>2. Fresh' = Fresh
  BY <1>1 DEF Fresh
<1>3. New' = New
  BY <1>2 DEF New
<1>4. Bottom' = Bottom /\ FoundDirs' = FoundDirs
  BY <1>1 DEF Bottom, FoundDirs
<1>5. InNew' = InNew
  BY <1>3, <1>4 DEF InNew
<1>6. Raised' = Raised /\ \A d : Held(d)' = Held(d)
  BY DEF Raised, Held
<1>7. \A d : Delta(d)' = Delta(d)
  BY <1>6 DEF Delta
<1>8. Counted' = Counted /\ InScan' = InScan /\ Untouched' = Untouched
  BY <1>1, <1>4 DEF Counted, InScan, Untouched
<1>9. Complete' = Complete /\ ScanDepth' = ScanDepth /\ \A q : Visited(q)' = Visited(q)
  BY <1>1, <1>3 DEF Complete, ScanDepth, Visited
<1>10. JobShape' = JobShape
  BY <1>1 DEF JobShape, Find
<1>11. FramesChained' = FramesChained
  BY <1>1 DEF FramesChained
<1>12. OutShape' = OutShape
  BY <1>1, <1>4 DEF OutShape
<1> QED
  BY <1>1, <1>2, <1>3, <1>4, <1>5, <1>6, <1>7, <1>8, <1>9, <1>10, <1>11, <1>12 DEF Shape

\* The directory a change is noted for is due for its rescan.
LEMMA EffectDue ==
  ASSUME TypeInv, NEW d, NEW followed, Effect(d, followed), NoRenames
  PROVE  OnItsWay' = OnItsWay \cup {d} /\ NoRenames'
<1>1. /\ events \in Seq(Event) /\ Len(events) \in Nat
      /\ events' = Append(events, Changed(d)) /\ UNCHANGED <<affected, watch, queue>>
      /\ Changed(d) \in Event
  BY LenProperties, ChangedType DEF TypeInv, TypeWatch, Effect
<1>2. /\ Len(events') = Len(events) + 1
      /\ \A i \in 1..Len(events) : events'[i] = events[i]
      /\ events'[Len(events) + 1] = Changed(d)
  BY <1>1, AppendProperties
<1>3. DOMAIN events = 1..Len(events) /\ DOMAIN events' = 1..Len(events')
  BY <1>1, AppendProperties, LenProperties
<1>4. Range(events') = Range(events) \cup {Changed(d)}
  <2>1. \A e \in Range(events') : e \in Range(events) \cup {Changed(d)}
    BY <1>1, <1>2, <1>3 DEF Range
  <2>2. \A e \in Range(events) : e \in Range(events')
    BY <1>1, <1>2, <1>3 DEF Range
  <2>3. Changed(d) \in Range(events')
    BY <1>1, <1>2, <1>3 DEF Range
  <2> QED
    BY <2>1, <2>2, <2>3
<1>5. Changed(d).kind = "changed" /\ Changed(d).dir = d
  BY DEF Changed
<1>6. OnItsWay' = OnItsWay \cup {d}
  BY <1>1, <1>4, <1>5 DEF OnItsWay
<1>7. NoRenames'
  BY <1>1, <1>2, <1>5 DEF NoRenames
<1> QED
  BY <1>6, <1>7

\* What a scan in progress holds is in the scheduler's hand.
LEMMA InHandCovers ==
  /\ FoundDirs \cup DOMAIN out \cup Raised \subseteq InHand
  /\ InNew \subseteq Known \cup InHand
  /\ \A i \in Depths : stack[i].dir \in InHand
<1>1. FoundDirs \cup DOMAIN out \cup Raised \subseteq InHand
  BY DEF InHand, FoundDirs, Raised, Depths
<1>2. DOMAIN New \subseteq Known \cup DOMAIN out
  <2>1. DOMAIN Only(rows, Fresh) = Fresh /\ Fresh \subseteq Known
    BY DEF Only, Fresh
  <2> QED
    BY <2>1, OverIs DEF New
<1>3. \A i \in Depths : stack[i].dir \in InHand
  BY DEF InHand, Depths
<1> QED
  BY <1>1, <1>2, <1>3 DEF InNew

\* A change unbalances only the books of the directory that is now due.
LEMMA EffectBooks ==
  ASSUME TypeInv, BookInv, NEW d, Effect(d, TRUE), trust = "full"
  PROVE  FullInv' /\ NewInv'
<1> USE DEF Effect
<1>1. /\ rows' = rows /\ job' = job /\ stack' = stack /\ out' = out
      /\ OnItsWay' = OnItsWay \cup {d} /\ d \in Path
  BY EffectDue DEF BookInv, scan
<1>2. FullInv /\ NewInv /\ Shape
  BY DEF BookInv
<1>3. \A p \in Dirs' \ Dirs : \A q \in Known \cup InHand : ~IsUnder(q, p)
  OBVIOUS
<1>4. \A e \in Path : Missing(e)' =>
            \/ Missing(e)
            \/ e \in Known /\ Front(e) = d
            \/ \A q \in Known \cup InHand : ~IsUnder(q, e)
  OBVIOUS
<1>5. \A p \in Dirs \cap Dirs' : p # d => Children(p)' = Children(p) /\ own'[p] = own[p]
  OBVIOUS
<1> USE DEF Effect
<1>6. ASSUME NEW p \in Dirs \cap Dirs', p # d, NEW t, NEW delta, Balanced(t, p, delta)
      PROVE  Kids(t, p) = Children(p)' /\ t[p].total + delta = own'[p] + SumOf(t, Children(p)')
  BY <1>5, <1>6 DEF Balanced
<1>7. \A p \in (Known \cup InHand) \cap Path : IsUnder(p, p)
  BY Order
<1>8. ASSUME NEW p \in Dirs' \cap Path, p \in Known \cup InHand
      PROVE  p \in Dirs
  BY <1>3, <1>7, <1>8
<1>9. /\ FoundDirs \cup DOMAIN out \cup Raised \subseteq InHand
      /\ InNew \subseteq Known \cup InHand
      /\ \A i \in Depths : stack[i].dir \in InHand
  BY InHandCovers
<1>10. /\ Known' = Known /\ Fresh' = Fresh /\ New' = New
       /\ Depths' = Depths /\ Bottom' = Bottom /\ FoundDirs' = FoundDirs /\ InNew' = InNew
       /\ Raised' = Raised /\ (\A p : Held(p)' = Held(p) /\ Delta(p)' = Delta(p))
       /\ Counted' = Counted /\ InScan' = InScan /\ Untouched' = Untouched
       /\ Complete' = Complete /\ ScanDepth' = ScanDepth
       /\ \A q : Visited(q)' = Visited(q)
  BY <1>1, SameWork
<1>11. /\ Known \subseteq Path /\ Dirs \subseteq Path /\ DOMAIN New \subseteq Path
       /\ InNew \subseteq Path /\ \A i \in Depths : stack[i].dir \in Path
  BY DiskFacts, RowFacts, NewFacts, FrameFacts DEF InNew, FoundDirs
<1>12. ASSUME NEW S, S \subseteq Known \cup InHand, S \subseteq Path,
              \A p \in S, e \in Path : IsUnder(p, e) /\ Missing(e) => e \in Known
       PROVE  \A p \in S, e \in Path : IsUnder(p, e) /\ Missing(e)' => e \in Known
  BY <1>4, <1>12
<1>13. ASSUME NEW S, S \subseteq Known \cup InHand, S \subseteq Path, Noticed(S)
       PROVE  \A e \in S : Missing(e)' => Front(e) \in OnItsWay' \/ Held(Front(e))'
  BY <1>1, <1>4, <1>10, <1>13, Order DEF Noticed
<1>14. ASSUME Main PROVE Main'
  <2>1. DepthOK(rows)'
    BY <1>1, <1>14 DEF Main, DepthOK
  <2>2. NoGap(Known)'
    <3>1. NoGap(Known)
      BY <1>14 DEF Main
    <3>2. \A p \in Known, e \in Path : IsUnder(p, e) /\ Missing(e)' => e \in Known
      BY <1>11, <1>12, <3>1 DEF NoGap
    <3> QED
      BY <1>10, <3>2 DEF NoGap
  <2>3. Noticed(Known)'
    <3>1. \A e \in Known : Missing(e)' => Front(e) \in OnItsWay' \/ Held(Front(e))'
      BY <1>11, <1>13, <1>14 DEF Main
    <3> QED
      BY <1>10, <3>1 DEF Noticed
  <2>4. ASSUME NEW p \in Dirs' \cap Known', Anchored(rows', p), p \notin OnItsWay', ~Held(p)'
        PROVE  Kids(rows', p) = Children(p)'
               /\ rows'[p].total + Delta(p)' = own'[p] + SumOf(rows', Children(p)')
    <3>1. p \in Dirs \cap Known /\ p # d /\ p \notin OnItsWay /\ ~Held(p) /\ Anchored(rows, p)
      BY <1>1, <1>8, <1>10, <1>11, <2>4
    <3>2. Balanced(rows, p, Delta(p))
      BY <1>14, <3>1 DEF Main, BookKept
    <3> QED
      BY <1>1, <1>6, <1>10, <2>4, <3>1, <3>2
  <2>5. BookKept'
    BY <2>4 DEF BookKept, Balanced
  <2> QED
    BY <2>1, <2>2, <2>3, <2>5 DEF Main
<1>15. ListClaim'
  <2>1. SUFFICES ASSUME job.at = "list", job.dir \in Dirs', job.dir \notin OnItsWay'
                 PROVE  /\ job.live = Children(job.dir)'
                        /\ Counted \subseteq Known
                        /\ job.sum = own'[job.dir] + SumOf(rows, Counted)
    BY <1>1, <1>10 DEF ListClaim
  <2>2. job.dir \in Path /\ job.dir \in InHand
    BY <2>1 DEF InHand, TypeInv, TypeJob, Job, Listing, Idle
  <2>3. job.dir \in Dirs \cap Dirs' /\ job.dir # d /\ job.dir \notin OnItsWay
    BY <1>1, <1>8, <2>1, <2>2
  <2> QED
    BY <1>2, <1>5, <2>1, <2>3 DEF FullInv, ListClaim
<1>16. PurgeClaim'
  <2>1. SUFFICES ASSUME job.at = "purge", job.depth = Len(job.dir)
                 PROVE  /\ \A x \in job.doomed : Front(x) = job.dir
                        /\ job.dir \in Dirs' /\ job.dir \notin OnItsWay' =>
                             /\ Kids(rows, job.dir) \ job.doomed = Children(job.dir)'
                             /\ job.sum = own'[job.dir] + SumOf(rows, Children(job.dir)')
    BY <1>1 DEF PurgeClaim
  <2>2. job.dir \in Path /\ job.dir \in InHand
    BY <2>1 DEF InHand, TypeInv, TypeJob, Job, Listing, Idle
  <2>3. job.dir \in Dirs' /\ job.dir \notin OnItsWay' =>
          job.dir \in Dirs \cap Dirs' /\ job.dir # d /\ job.dir \notin OnItsWay
    BY <1>1, <1>8, <2>2
  <2> QED
    BY <1>2, <1>5, <2>1, <2>3 DEF FullInv, PurgeClaim
<1>17. FullInv'
  <2>1. ~InScan' => NoGap(DOMAIN out \cup FoundDirs \cup Raised)'
    <3>1. SUFFICES ASSUME ~InScan
                   PROVE  \A p \in DOMAIN out \cup FoundDirs \cup Raised, e \in Path :
                            IsUnder(p, e) /\ Missing(e)' => e \in Known
      BY <1>1, <1>10 DEF NoGap
    <3>2. DOMAIN out \cup FoundDirs \cup Raised \subseteq Path
      BY RowFacts, FrameFacts DEF FoundDirs, Raised, TypeInv, TypeJob, Job, Idle, Listing
    <3> QED
      BY <1>2, <1>9, <1>12, <3>1, <3>2 DEF FullInv, NoGap
  <2> QED
    BY <1>1, <1>2, <1>10, <1>14, <1>15, <1>16, <2>1 DEF FullInv
<1>18. Noticed(InNew)'
  <2>1. \A e \in InNew : Missing(e)' => Front(e) \in OnItsWay' \/ Held(Front(e))'
    BY <1>2, <1>9, <1>11, <1>13 DEF NewInv
  <2> QED
    BY <1>10, <2>1 DEF Noticed
<1>19. ASSUME Complete PROVE FramesKept' /\ NewKept' /\ RootKept'
  <2>1. FramesKept /\ NewKept /\ RootKept
    BY <1>2, <1>19 DEF NewInv
  <2>2. FramesKept'
    <3>1. SUFFICES ASSUME NEW i \in Depths PROVE FrameClaim(i)'
      BY <1>10 DEF FramesKept
    <3>2. stack[i].dir \in Path /\ stack[i].dir \in Known \cup InHand /\ FrameClaim(i)
      BY <1>9, <1>11, <2>1 DEF FramesKept
    <3>3. stack[i].dir \in Dirs' => stack[i].dir \in Dirs
      BY <1>8, <3>2
    <3>4. ASSUME stack[i].found, stack[i].dir \in Dirs', stack[i].dir \notin OnItsWay'
          PROVE  /\ stack[i].todo \subseteq Children(stack[i].dir)'
                 /\ Added(i)' \subseteq DOMAIN New
                 /\ stack[i].sum = own'[stack[i].dir] + SumOf(New, Added(i)')
      <4>1. stack[i].dir \in Dirs \cap Dirs' /\ stack[i].dir # d /\ stack[i].dir \notin OnItsWay
        BY <1>1, <3>3, <3>4
      <4>2. Children(stack[i].dir)' = Children(stack[i].dir)
            /\ own'[stack[i].dir] = own[stack[i].dir]
        BY <1>1, <1>5, <4>1
      <4>3. Added(i)' = Added(i)
        BY <1>1, <4>2 DEF Added
      <4> QED
        BY <3>2, <3>4, <4>1, <4>2, <4>3 DEF FrameClaim
    <3>5. ~stack[i].found => stack[i].dir \notin Dirs'
      BY <3>2, <3>3 DEF FrameClaim
    <3> QED
      BY <1>1, <1>10, <3>4, <3>5 DEF FrameClaim
  <2>3. NewKept'
    <3>1. SUFFICES ASSUME NEW q \in Dirs' \cap DOMAIN New, IsUnder(q, Bottom), Visited(q),
                          q \notin OnItsWay'
                   PROVE  Kids(New, q) = Children(q)'
                          /\ New[q].total + 0 = own'[q] + SumOf(New, Children(q)')
      BY <1>10 DEF NewKept, Balanced
    <3>2. q \in Known \cup InHand
      BY <1>9 DEF InNew
    <3>3. q \in Dirs \cap Dirs' /\ q # d /\ q \notin OnItsWay
      BY <1>1, <1>8, <1>11, <3>1, <3>2
    <3>4. Balanced(New, q, 0)
      BY <2>1, <3>1, <3>3 DEF NewKept
    <3> QED
      BY <1>6, <3>3, <3>4
  <2>4. RootKept'
    BY <1>1, <1>10, <2>1 DEF RootKept
  <2> QED
    BY <2>2, <2>3, <2>4
<1>20. SweepClaim'
  <2>1. SUFFICES ASSUME job.at = "sweep"
                 PROVE  /\ <<>> \in Fresh
                        /\ \A q \in Fresh, e \in Path : IsUnder(q, e) => e \in Fresh
                        /\ \A q \in Dirs' \cap Fresh : q \notin OnItsWay' =>
                             Kids(New, q) = Children(q)'
                             /\ New[q].total + 0 = own'[q] + SumOf(New, Children(q)')
    BY <1>1, <1>10 DEF SweepClaim, Balanced
  <2>2. ASSUME NEW q \in Dirs' \cap Fresh, q \notin OnItsWay'
        PROVE  Kids(New, q) = Children(q)'
               /\ New[q].total + 0 = own'[q] + SumOf(New, Children(q)')
    <3>1. q \in Known /\ q \in Path
      BY <1>11, <2>2, NewFacts
    <3>2. q \in Dirs \cap Dirs' /\ q # d /\ q \notin OnItsWay
      BY <1>1, <1>8, <2>2, <3>1
    <3>3. Balanced(New, q, 0)
      BY <1>2, <2>1, <2>2, <3>2 DEF NewInv, SweepClaim
    <3> QED
      BY <1>6, <3>2, <3>3
  <2> QED
    BY <1>2, <2>1, <2>2 DEF NewInv, SweepClaim
<1> QED
  BY <1>2, <1>10, <1>17, <1>18, <1>19, <1>20 DEF NewInv

\* Changes of the disk keep the books.
LEMMA DiskStep ==
  ASSUME TypeInv, BookInv, Disk, "rename" \notin Ops
  PROVE  BookInv'
<1>1. PICK d \in Path, followed \in BOOLEAN : Effect(d, followed)
  BY DiskEffect DEF BookInv
<1>2. NoRenames'
  BY <1>1, EffectDue DEF BookInv
<1>3. TreeInv' /\ Shape'
  BY <1>1, SameWork DEF Effect, BookInv, scan
<1>4. trust' \in {"full", "lost"} /\ (trust' = "full" => followed = TRUE /\ trust = "full")
  BY <1>1 DEF Effect
<1>5. trust' = "full" => FullInv' /\ NewInv'
  BY <1>1, <1>4, EffectBooks
<1> QED
  BY <1>2, <1>3, <1>4, <1>5 DEF BookInv

-----------------------------------------------------------------------------
(* The watch thread.                                                       *)

LEMMA SameDisk ==
  ASSUME own' = own
  PROVE  /\ Dirs' = Dirs /\ TreeInv' = TreeInv
         /\ \A p : Missing(p)' = Missing(p) /\ Children(p)' = Children(p)
         /\ \A t, p, delta : Balanced(t, p, delta)' = Balanced(t, p, delta)
<1>1. Dirs' = Dirs
  BY DEF Dirs
<1>2. \A p : Missing(p)' = Missing(p) /\ Children(p)' = Children(p)
  BY <1>1 DEF Missing, Children
<1>3. \A t, p, delta : Balanced(t, p, delta)' = Balanced(t, p, delta)
  BY <1>2 DEF Balanced
<1> QED
  BY <1>1, <1>2, <1>3 DEF TreeInv

\* The books while disk, rows and scheduler stay as they are.
LEMMA SameBooks ==
  ASSUME BookInv, UNCHANGED <<own, rows, job, scan, trust>>, OnItsWay' = OnItsWay, NoRenames'
  PROVE  BookInv'
<1>1. rows' = rows /\ job' = job /\ stack' = stack /\ out' = out /\ own' = own
  BY DEF scan
<1>2. /\ Known' = Known /\ Fresh' = Fresh /\ New' = New
      /\ Depths' = Depths /\ Bottom' = Bottom /\ FoundDirs' = FoundDirs /\ InNew' = InNew
      /\ Raised' = Raised /\ (\A d : Held(d)' = Held(d) /\ Delta(d)' = Delta(d))
      /\ Counted' = Counted /\ InScan' = InScan /\ Untouched' = Untouched
      /\ Complete' = Complete /\ ScanDepth' = ScanDepth
      /\ (\A q : Visited(q)' = Visited(q))
      /\ Shape' = Shape
  BY <1>1, SameWork
<1>3. /\ Dirs' = Dirs /\ TreeInv' = TreeInv
      /\ \A p : Missing(p)' = Missing(p) /\ Children(p)' = Children(p)
      /\ \A t, p, delta : Balanced(t, p, delta)' = Balanced(t, p, delta)
  BY <1>1, SameDisk
<1>4. BookKept' = BookKept
  <2>1. ASSUME NEW d PROVE Balanced(rows, d, Delta(d))' = Balanced(rows, d, Delta(d))
    BY <1>1, <1>2, <1>3
  <2> QED
    BY <1>1, <1>2, <1>3, <2>1 DEF BookKept
<1>5. /\ NoGap(Known)' = NoGap(Known) /\ Noticed(Known)' = Noticed(Known)
      /\ Noticed(InNew)' = Noticed(InNew)
      /\ NoGap(DOMAIN out \cup FoundDirs \cup Raised)' = NoGap(DOMAIN out \cup FoundDirs \cup Raised)
  BY <1>1, <1>2, <1>3 DEF NoGap, Noticed
<1>6. Main' = Main
  BY <1>1, <1>4, <1>5 DEF Main
<1>7. ListClaim' = ListClaim /\ PurgeClaim' = PurgeClaim
  BY <1>1, <1>2, <1>3 DEF ListClaim, PurgeClaim
<1>8. FullInv' = FullInv
  BY <1>1, <1>2, <1>5, <1>6, <1>7 DEF FullInv
<1>9. FramesKept' = FramesKept
  <2>1. ASSUME NEW i \in Depths PROVE FrameClaim(i)' = FrameClaim(i)
    <3>1. Added(i)' = Added(i) /\ Children(stack[i].dir)' = Children(stack[i].dir)
      BY <1>1, <1>3 DEF Added
    <3> QED
      BY <1>1, <1>2, <1>3, <3>1 DEF FrameClaim
  <2> QED
    BY <1>2, <2>1 DEF FramesKept
<1>10. NewKept' = NewKept /\ RootKept' = RootKept /\ SweepClaim' = SweepClaim
  <2>1. ASSUME NEW q PROVE Balanced(New, q, 0)' = Balanced(New, q, 0)
    BY <1>2, <1>3
  <2> QED
    BY <1>1, <1>2, <1>3, <2>1 DEF NewKept, RootKept, SweepClaim
<1>11. NewInv' = NewInv
  BY <1>2, <1>5, <1>9, <1>10 DEF NewInv
<1> QED
  BY <1>1, <1>2, <1>3, <1>8, <1>11 DEF BookInv

\* The watch thread moves what is due from one place to the next.
LEMMA WatcherStep ==
  ASSUME TypeInv, BookInv, Watcher
  PROVE  BookInv'
<1>1. NoRenames /\ events \in Seq(Event)
  BY DEF BookInv, TypeInv, TypeWatch
<1>2. CASE HandleChange
  <2>1. /\ events # <<>> /\ Head(events).kind = "changed"
        /\ affected' = affected \cup {Head(events).dir} /\ events' = Tail(events)
        /\ UNCHANGED <<disk, watch, rows, queue, job, scan, trust>>
    BY <1>2 DEF HandleChange
  <2>2. /\ Len(events) \in Nat /\ Len(events) > 0 /\ Head(events) = events[1]
        /\ Len(Tail(events)) = Len(events) - 1 /\ Tail(events) \in Seq(Event)
        /\ \A i \in 1..Len(Tail(events)) : Tail(events)[i] = events[i + 1]
    BY <1>1, <2>1, EmptySeq, HeadTailProperties, LenProperties
  <2>3. DOMAIN events = 1..Len(events) /\ DOMAIN Tail(events) = 1..Len(Tail(events))
    BY <1>1, <2>2, LenProperties
  <2>4. Range(events) = Range(Tail(events)) \cup {Head(events)}
    <3>1. \A e \in Range(events) : e \in Range(Tail(events)) \cup {Head(events)}
      <4>1. ASSUME NEW i \in 1..Len(events), i # 1
            PROVE  events[i] \in Range(Tail(events))
        <5>1. i - 1 \in 1..Len(Tail(events)) /\ events[i] = Tail(events)[i - 1]
          BY <2>2, <4>1
        <5> QED
          BY <2>3, <5>1 DEF Range
      <4>2. ASSUME NEW i \in 1..Len(events)
            PROVE  events[i] \in Range(Tail(events)) \cup {Head(events)}
        BY <2>2, <4>1
      <4> QED
        BY <2>3, <4>2 DEF Range
    <3>2. \A e \in Range(Tail(events)) : e \in Range(events)
      <4>1. SUFFICES ASSUME NEW i \in 1..Len(Tail(events))
                     PROVE  \E j \in 1..Len(events) : Tail(events)[i] = events[j]
        BY <2>2, <2>3 DEF Range
      <4>2. i + 1 \in 1..Len(events)
        BY <2>2
      <4> QED
        BY <2>2, <4>2
    <3>3. Head(events) \in Range(events)
      BY <2>2, <2>3 DEF Range
    <3> QED
      BY <3>1, <3>2, <3>3
  <2>5. OnItsWay' = OnItsWay
    BY <2>1, <2>4 DEF OnItsWay
  <2>6. NoRenames'
    BY <1>1, <2>1, <2>2 DEF NoRenames
  <2> QED
    BY <2>1, <2>5, <2>6, SameBooks DEF disk
<1>3. CASE EndBatch
  <2>1. /\ watch' = [at |-> "batch"]
        /\ UNCHANGED <<disk, events, affected, rows, queue, job, scan, trust>>
    BY <1>3 DEF EndBatch
  <2>2. OnItsWay' = OnItsWay /\ NoRenames'
    BY <1>1, <2>1 DEF OnItsWay, NoRenames
  <2> QED
    BY <2>1, <2>2, SameBooks DEF disk
<1>4. CASE \E d \in Path : QueueAffected(d)
  <2>1. PICK d \in Path : QueueAffected(d)
    BY <1>4
  <2>2. /\ d \in affected /\ queue' = queue \cup {d} /\ affected' = affected \ {d}
        /\ watch' \in {Reading, watch}
        /\ UNCHANGED <<disk, events, rows, job, scan, trust>>
    BY <2>1 DEF QueueAffected
  <2>3. OnItsWay' = OnItsWay /\ NoRenames'
    BY <1>1, <2>2 DEF OnItsWay, NoRenames
  <2> QED
    BY <2>2, <2>3, SameBooks DEF disk
<1>5. ~(HandleRename \/ RenameLookup \/ ParentLookup \/ RenameApply \/ RenameDone)
  <2>1. watch.at \in {"read", "batch"}
    BY <1>1 DEF NoRenames, Reading
  <2>2. events # <<>> => Head(events).kind = "changed"
    BY <1>1, EmptySeq, HeadTailProperties, LenProperties DEF NoRenames
  <2> QED
    BY <2>1, <2>2 DEF HandleRename, RenameLookup, ParentLookup, RenameApply, RenameDone
<1> QED
  BY <1>2, <1>3, <1>4, <1>5 DEF Watcher

-----------------------------------------------------------------------------
(* RescanOne.                                                              *)

LEMMA OutEmpty ==
  ASSUME out' = <<>>, stack' = <<>>
  PROVE  /\ DOMAIN out' = {} /\ Depths' = {} /\ FoundDirs' = {}
         /\ FramesChained' /\ OutShape' /\ ~Complete'
<1>1. Len(stack') = 0 /\ DOMAIN out' = {}
  BY EmptySeq
<1>2. Depths' = {}
  BY <1>1 DEF Depths
<1> QED
  BY <1>1, <1>2 DEF FoundDirs, FramesChained, OutShape, Complete

\* No scan is under way.
LEMMA RestShape ==
  ASSUME stack' = <<>>, out' = <<>>, JobShape'
  PROVE  Shape'
BY OutEmpty DEF Shape

\* When no scan is under way, the claims about one follow.
LEMMA RestBooks ==
  ASSUME TypeInv', stack' = <<>>, out' = <<>>, ~InScan', <<>> \in Known', Main',
         ListClaim', PurgeClaim', NoGap(Raised)'
  PROVE  FullInv' /\ NewInv'
<1>1. DOMAIN out' = {} /\ Depths' = {} /\ FoundDirs' = {} /\ ~Complete'
  BY OutEmpty
<1>2. Fresh' = Known'
  BY DEF Fresh, InScan
<1>3. /\ DOMAIN New' = Known' /\ \A p \in Known' : New'[p] = rows'[p]
  <2>1. /\ DOMAIN Only(rows', Known') = Known'
        /\ \A p \in Known' : Only(rows', Known')[p] = rows'[p]
    BY DEF Only
  <2>2. New' = Over(Only(rows', Known'), out')
    BY <1>2 DEF New
  <2> DEFINE t == Only(rows', Known')
             u == out'
  <2>3. /\ DOMAIN Over(t, u) = DOMAIN t \cup DOMAIN u
        /\ \A p \in DOMAIN t \ DOMAIN u : Over(t, u)[p] = t[p]
    BY OverIs
  <2> QED
    BY <1>1, <2>1, <2>2, <2>3
<1>4. InNew' = Known'
  BY <1>1, <1>3 DEF InNew
<1>5. ScanDepth'
  BY <1>1, <1>3 DEF ScanDepth, Main, DepthOK, Known
<1>6. Noticed(InNew)'
  BY <1>4 DEF Main, Noticed
<1>7. SweepClaim'
  BY DEF SweepClaim, InScan
<1>8. NoGap(DOMAIN out \cup FoundDirs \cup Raised)'
  BY <1>1 DEF NoGap
<1> QED
  BY <1>1, <1>5, <1>6, <1>7, <1>8 DEF FullInv, NewInv

\* The books while the table stays as it is.
LEMMA SameTable ==
  ASSUME Main, own' = own, rows' = rows,
         \A d : d \in OnItsWay \/ Held(d) => d \in OnItsWay' \/ Held(d)',
         \A d \in Dirs \cap Known :
           Anchored(rows, d) /\ d \notin OnItsWay' /\ ~Held(d)' => Delta(d)' = Delta(d)
  PROVE  Main'
<1>1. /\ Dirs' = Dirs
      /\ \A p : Missing(p)' = Missing(p) /\ Children(p)' = Children(p)
  BY SameDisk
<1>2. Known' = Known
  BY DEF Known
<1>3. DepthOK(rows)' /\ NoGap(Known)' /\ Noticed(Known)'
  BY <1>1, <1>2 DEF Main, DepthOK, NoGap, Noticed
<1>4. ASSUME NEW d \in Dirs \cap Known, Anchored(rows, d), d \notin OnItsWay', ~Held(d)'
      PROVE  Kids(rows, d) = Children(d)'
             /\ rows[d].total + Delta(d)' = own[d] + SumOf(rows, Children(d)')
  BY <1>1, <1>4 DEF Main, BookKept, Balanced
<1>5. BookKept'
  BY <1>1, <1>2, <1>4 DEF BookKept, Balanced
<1> QED
  BY <1>3, <1>5 DEF Main

\* What a job of the scheduler leaves alone.
LEMMA SameOutside ==
  ASSUME BookInv, UNCHANGED <<disk, watcher>>
  PROVE  own' = own /\ NoRenames' /\ TreeInv'
BY DEF BookInv, disk, watcher, NoRenames, TreeInv, Dirs

\* RescanOne takes a directory from the queue: it is held instead of due.
LEMMA BeginStep ==
  ASSUME TypeInv, TypeInv', BookInv, NEW d \in Path, Begin(d)
  PROVE  BookInv'
<1>1. /\ job = Idle /\ d \in queue /\ queue' = queue \ {d}
      /\ job' = [at |-> "open", dir |-> d, old |-> Find(d), depth |-> Find(d).depth]
      /\ UNCHANGED <<disk, watcher, rows, scan, trust>>
  BY DEF Begin
<1>2. own' = own /\ NoRenames' /\ TreeInv' /\ rows' = rows /\ Known' = Known
  BY <1>1, SameOutside DEF Known
<1>3. job.at = "idle" /\ job'.at = "open" /\ job'.dir = d
  BY <1>1 DEF Idle
<1>4. stack = <<>> /\ out = <<>> /\ stack' = <<>> /\ out' = <<>>
  BY <1>1, <1>3 DEF BookInv, Shape, JobShape, scan
<1>5. JobShape'
  BY <1>1, <1>2, <1>3, <1>4 DEF JobShape, Find
<1>6. ASSUME trust = "full" PROVE FullInv' /\ NewInv'
  <2>1. Main /\ <<>> \in Known
    BY <1>3, <1>6 DEF BookInv, FullInv, InScan
  <2>2. OnItsWay \subseteq OnItsWay' \cup {d}
    BY <1>1 DEF OnItsWay, watcher
  <2>3. \A p : ~Held(p) /\ (Held(p)' <=> p = d) /\ Delta(p) = 0 /\ Delta(p)' = 0
    BY <1>3 DEF Held, Delta, Raised
  <2>4. Main'
    BY <1>2, <2>1, <2>2, <2>3, SameTable
  <2>5. ~InScan' /\ ListClaim' /\ PurgeClaim' /\ NoGap(Raised)'
    BY <1>3 DEF InScan, ListClaim, PurgeClaim, NoGap, Raised
  <2> QED
    BY <1>2, <1>4, <2>1, <2>4, <2>5, RestBooks
<1>7. trust # "healing"
  BY <1>3 DEF BookInv, InScan
<1> QED
  BY <1>1, <1>2, <1>4, <1>5, <1>6, <1>7, RestShape DEF BookInv

\* The listing has opened its directory and knows its size and its children.
LEMMA OpenStep ==
  ASSUME TypeInv, TypeInv', BookInv, Open
  PROVE  BookInv'
<1>1. /\ job.at = "open" /\ job.dir \in Dirs
      /\ job' = [at |-> "list", dir |-> job.dir, old |-> job.old,
                 depth |-> job.depth, sum |-> own[job.dir],
                 todo |-> Children(job.dir), live |-> Children(job.dir)]
      /\ UNCHANGED <<disk, watcher, rows, queue, scan, trust>>
  BY DEF Open
<1>2. own' = own /\ NoRenames' /\ TreeInv' /\ rows' = rows /\ Known' = Known
  BY <1>1, SameOutside DEF Known
<1>3. stack = <<>> /\ out = <<>> /\ stack' = <<>> /\ out' = <<>>
  BY <1>1 DEF BookInv, Shape, JobShape, scan
<1>4. /\ job'.at = "list" /\ job'.dir = job.dir /\ job'.old = job.old /\ job'.depth = job.depth
      /\ job'.sum = own[job.dir] /\ job'.todo = Children(job.dir)
      /\ job'.live = Children(job.dir)
  BY <1>1
<1>5. JobShape'
  BY <1>1, <1>2, <1>3, <1>4, DiskFacts DEF BookInv, Shape, JobShape, Find
<1>6. ASSUME trust = "full" PROVE FullInv' /\ NewInv'
  <2>1. Main /\ <<>> \in Known
    BY <1>1, <1>6 DEF BookInv, FullInv, InScan
  <2>2. OnItsWay' = OnItsWay
    BY <1>1 DEF OnItsWay, watcher
  <2>3. \A p : Held(p)' = Held(p) /\ Delta(p) = 0 /\ Delta(p)' = 0
    BY <1>1, <1>4 DEF Held, Delta, Raised
  <2>4. Main'
    BY <1>2, <2>1, <2>2, <2>3, SameTable
  <2>5. ListClaim'
    <3>1. Counted' = {} /\ Children(job.dir)' = Children(job.dir)
      BY <1>2, <1>3, <1>4, SameDisk DEF Counted
    <3>2. SumOf(rows', Counted') = 0
      BY <3>1, SumEmpty
    <3>3. own[job.dir] \in Nat /\ own[job.dir] = own[job.dir] + 0
      BY <1>1, DiskFacts
    <3> QED
      BY <1>2, <1>4, <3>1, <3>2, <3>3 DEF ListClaim
  <2>6. ~InScan' /\ PurgeClaim' /\ NoGap(Raised)'
    BY <1>4 DEF InScan, PurgeClaim, NoGap, Raised
  <2> QED
    BY <1>2, <1>3, <2>1, <2>4, <2>5, <2>6, RestBooks
<1>7. trust # "healing"
  BY <1>1 DEF BookInv, InScan
<1> QED
  BY <1>1, <1>2, <1>3, <1>5, <1>6, <1>7, RestShape DEF BookInv

\* The directory cannot be opened: trust is lost.
LEMMA OpenFailsStep ==
  ASSUME TypeInv, BookInv, OpenFails
  PROVE  BookInv'
<1>1. /\ job.at = "open" /\ job' = Idle /\ trust' = "lost"
      /\ UNCHANGED <<disk, watcher, rows, queue, scan>>
  BY DEF OpenFails
<1>2. NoRenames' /\ TreeInv'
  BY <1>1, SameOutside
<1>3. stack' = <<>> /\ out' = <<>>
  BY <1>1 DEF BookInv, Shape, JobShape, scan
<1>4. JobShape'
  BY <1>1, <1>3 DEF JobShape, Idle
<1> QED
  BY <1>1, <1>2, <1>3, <1>4, RestShape DEF BookInv

\* What the types say of the scheduler's job.
LEMMA JobFacts ==
  ASSUME TypeInv
  PROVE  /\ job.at \in {"open", "list", "purge", "raise", "apply"} => job.dir \in Path
         /\ job.at \in {"open", "list", "purge"} => job.old \in MaybeRow /\ job.depth \in Int
         /\ job.at = "list" =>
              job.sum \in Nat /\ job.todo \subseteq job.live /\ job.live \subseteq Path
         /\ job.at = "purge" => job.sum \in Nat /\ job.doomed \subseteq Path
         /\ job.at \in {"raise", "apply"} => job.delta \in Int
         /\ job.at = "apply" => job.row \in MaybeRow
BY DEF TypeInv, TypeJob, Job, Idle, Listing

\* The rows at and below c are dropped.
LEMMA Dropped ==
  ASSUME TypeInv, own' = own, NEW c \in Path, c # <<>>, RemoveByPrefix(c)
  PROVE  /\ Known' = {p \in Known : ~IsUnder(p, c)}
         /\ \A p \in Known' : rows'[p] = rows[p]
         /\ <<>> \in Known => <<>> \in Known'
         /\ DepthOK(rows) => DepthOK(rows)'
         /\ NoGap(Known) => NoGap(Known)'
         /\ \A x : Anchored(rows', x) => Anchored(rows, x)
         /\ \A x \in Known' : \A delta :
              Balanced(rows, x, delta) /\ (c \in Known => Front(c) # x)
                => Kids(rows', x) = Kids(rows, x) /\ Balanced(rows', x, delta)
<1>1. rows' = Without(rows, {p \in Known : IsUnder(p, c)})
  BY DEF RemoveByPrefix
<1>2. Known' = {p \in Known : ~IsUnder(p, c)} /\ DOMAIN rows' = Known' /\ DOMAIN rows = Known
  BY <1>1 DEF Known, Without
<1>3. \A p \in Known' : rows'[p] = rows[p]
  BY <1>1, <1>2 DEF Without
<1>4. <<>> \in Known => <<>> \in Known'
  BY <1>2, RootAlone
<1>5. DepthOK(rows) => DepthOK(rows)'
  BY <1>2, <1>3 DEF DepthOK
<1>6. NoGap(Known) => NoGap(Known)'
  <2>1. SUFFICES ASSUME NoGap(Known), NEW d \in Known', NEW e \in Path, IsUnder(d, e), Missing(e)
                 PROVE  e \in Known'
    BY SameDisk DEF NoGap
  <2>2. d \in Path /\ d \in Known /\ e \in Known /\ ~IsUnder(d, c)
    BY <1>2, <2>1, RowFacts DEF NoGap
  <2>3. ~IsUnder(e, c)
    BY <2>1, <2>2, Order
  <2> QED
    BY <1>2, <2>2, <2>3
<1>7. \A x : Anchored(rows', x) => Anchored(rows, x)
  BY <1>2 DEF Anchored
<1>8. ASSUME NEW x \in Known', NEW delta, Balanced(rows, x, delta), c \in Known => Front(c) # x
      PROVE  Kids(rows', x) = Kids(rows, x) /\ Balanced(rows', x, delta)
  <2>1. x \in Path /\ ~IsUnder(x, c) /\ x \in Known
    BY <1>2, RowFacts
  <2>2. ASSUME NEW p \in Kids(rows, x) PROVE p \in Known'
    <3>1. p \in Known /\ p # <<>> /\ Front(p) = x /\ p \in Path
      BY <1>2, RowFacts DEF Kids
    <3>2. IsUnder(p, c) => p = c
      BY <2>1, <3>1, Parent
    <3> QED
      BY <1>2, <1>8, <3>1, <3>2
  <2>3. Kids(rows', x) = Kids(rows, x)
    BY <1>2, <2>2 DEF Kids
  <2>4. Kids(rows, x) = Children(x) /\ rows[x].total + delta = own[x] + SumOf(rows, Children(x))
    BY <1>8 DEF Balanced
  <2>5. \A p \in Children(x) : rows'[p].total = rows[p].total
    BY <1>3, <2>2, <2>4
  <2>6. SumOf(rows', Children(x)) = SumOf(rows, Children(x))
    BY <2>5, SumSame
  <2> QED
    BY <1>3, <2>3, <2>4, <2>6 DEF Balanced
<1> QED
  BY <1>2, <1>3, <1>4, <1>5, <1>6, <1>7, <1>8

\* What RescanOne leaves when it has written its row: a difference to carry up,
\* or nothing.
LEMMA RaiseIs ==
  ASSUME NEW d, NEW old, NEW total, Raise(d, old, total)
  PROVE  /\ ~InScan' /\ job'.at \in {"raise", "idle"}
         /\ \A p : ~Held(p)'
         /\ ListClaim' /\ PurgeClaim'
         /\ stack' = <<>> /\ out' = <<>> => JobShape'
         /\ Raised' \in {{}, {Front(d)}}
         /\ Raised' # {} => old # NoRow /\ d # <<>>
         /\ old # NoRow /\ d # <<>> /\ old.total \in Nat /\ total \in Nat =>
              \A p : Delta(p)' = IF p = Front(d) THEN total - old.total ELSE 0
         /\ Raised' = {} => \A p : Delta(p)' = 0
         /\ \A p : p # Front(d) => Delta(p)' = 0
<1>1. CASE old # NoRow /\ total # old.total /\ d # <<>>
  <2>1. job' = [at |-> "raise", dir |-> Front(d), delta |-> total - old.total]
    BY <1>1 DEF Raise
  <2>2. job'.at = "raise" /\ job'.dir = Front(d) /\ job'.delta = total - old.total
    BY <2>1
  <2>3. Raised' = {Front(d)}
    BY <2>2 DEF Raised
  <2>4. \A p : Delta(p)' = IF p = Front(d) THEN total - old.total ELSE 0
    BY <2>2, <2>3 DEF Delta
  <2>5. ~InScan' /\ (\A p : ~Held(p)') /\ ListClaim' /\ PurgeClaim' 
    BY <2>2 DEF InScan, Held, ListClaim, PurgeClaim
  <2>6. stack' = <<>> /\ out' = <<>> => JobShape'
    BY <2>2 DEF JobShape
  <2> QED
    BY <1>1, <2>2, <2>3, <2>4, <2>5, <2>6
<1>2. CASE ~(old # NoRow /\ total # old.total /\ d # <<>>)
  <2>1. job' = Idle
    BY <1>2 DEF Raise
  <2>2. job'.at = "idle"
    BY <2>1 DEF Idle
  <2>3. Raised' = {}
    BY <2>2 DEF Raised
  <2>4. \A p : Delta(p)' = 0
    BY <2>3 DEF Delta
  <2>5. ~InScan' /\ (\A p : ~Held(p)') /\ ListClaim' /\ PurgeClaim'
    BY <2>2 DEF InScan, Held, ListClaim, PurgeClaim
  <2>6. stack' = <<>> /\ out' = <<>> => JobShape'
    BY <2>2 DEF JobShape
  <2>7. old # NoRow /\ d # <<>> /\ old.total \in Nat /\ total \in Nat => total - old.total = 0
    BY <1>2
  <2> QED
    BY <2>2, <2>3, <2>4, <2>5, <2>6, <2>7
<1> QED
  BY <1>1, <1>2

\* What a lookup of a row returns.
LEMMA FindIs ==
  ASSUME TypeInv, NEW p
  PROVE  /\ Find(p) # NoRow <=> p \in Known
         /\ p \in Known => Find(p) = rows[p]
         /\ p \notin Known => Find(p) = NoRow /\ Find(p).depth = 0
<1>1. p \in Known => rows[p].total \in Nat
  BY RowFacts
<1>2. NoRow.total \notin Nat /\ NoRow.depth = 0
  BY DEF NoRow
<1> QED
  BY <1>1, <1>2 DEF Find

\* The directory is not there: its rows go and their total is taken off above.
LEMMA GoneStep ==
  ASSUME TypeInv, TypeInv', BookInv, Gone
  PROVE  BookInv'
<1> DEFINE d == job.dir
<1>1. /\ job.at = "open" /\ d \notin Dirs /\ RemoveByPrefix(d) /\ Raise(d, job.old, 0)
      /\ UNCHANGED <<disk, watcher, queue, scan, trust>>
  BY DEF Gone
<1>2. own' = own /\ NoRenames' /\ TreeInv' /\ OnItsWay' = OnItsWay
  BY <1>1, SameOutside DEF OnItsWay, watcher
<1>3. stack = <<>> /\ out = <<>> /\ stack' = <<>> /\ out' = <<>> /\ job.old = Find(d)
  BY <1>1 DEF BookInv, Shape, JobShape, scan
<1>4. d \in Path /\ d # <<>> /\ Front(d) # d
  BY <1>1, JobFacts, DiskFacts, Parent
<1>5. /\ ~InScan' /\ (\A p : ~Held(p)') /\ ListClaim' /\ PurgeClaim' /\ JobShape'
      /\ Raised' \in {{}, {Front(d)}} /\ (Raised' # {} => job.old # NoRow)
      /\ (Raised' = {} => \A p : Delta(p)' = 0)
      /\ \A p : p # Front(d) => Delta(p)' = 0
  BY <1>1, <1>3, RaiseIs
<1>6. /\ Known' = {p \in Known : ~IsUnder(p, d)}
      /\ \A p \in Known' : rows'[p] = rows[p]
      /\ <<>> \in Known => <<>> \in Known'
      /\ DepthOK(rows) => DepthOK(rows)'
      /\ NoGap(Known) => NoGap(Known)'
      /\ \A x : Anchored(rows', x) => Anchored(rows, x)
      /\ \A x \in Known' : \A delta :
           Balanced(rows, x, delta) /\ (d \in Known => Front(d) # x) => Balanced(rows', x, delta)
  <2> HIDE DEF d
  <2> QED
    BY <1>1, <1>2, <1>4, Dropped
<1>7. d \in Known <=> job.old # NoRow
  BY <1>3, FindIs
<1>8. \A p : (Held(p) <=> p = d) /\ Delta(p) = 0
  BY <1>1 DEF Held, Delta, Raised
<1>9. ASSUME trust = "full" PROVE FullInv' /\ NewInv'
  <2> HIDE DEF d
  <2>1. Main /\ <<>> \in Known
    <3>1. ~InScan
      BY <1>1 DEF InScan
    <3> QED
      BY <1>9, <3>1 DEF BookInv, FullInv
  <2>2. \A p : Missing(p)' = Missing(p) /\ Dirs' = Dirs /\ Children(p)' = Children(p)
    BY <1>2, SameDisk
  <2>3. d \in Known /\ Front(d) \in Dirs => Front(d) \in OnItsWay
    BY <1>1, <1>4, <1>8, <2>1 DEF Main, Noticed, Missing, d
  <2>4. Noticed(Known)'
    <3>1. SUFFICES ASSUME NEW e \in Known', Missing(e) PROVE Front(e) \in OnItsWay
      BY <1>2, <2>2 DEF Noticed
    <3>2. e \in Known /\ Front(e) # d
      BY <1>1, <1>6, <3>1 DEF Missing, d
    <3> QED
      BY <1>8, <2>1, <3>1, <3>2 DEF Main, Noticed
  <2>5. BookKept'
    <3>1. SUFFICES ASSUME NEW x \in Dirs \cap Known', Anchored(rows', x), x \notin OnItsWay
                   PROVE  Balanced(rows', x, Delta(x)')
      BY <1>2, <2>2 DEF BookKept, Balanced
    <3>2. Balanced(rows, x, 0)
      BY <1>1, <1>6, <1>8, <2>1, <3>1 DEF Main, BookKept, d
    <3>3. d \in Known => Front(d) # x
      BY <2>3, <3>1
    <3>4. Delta(x)' = 0
      BY <1>5, <1>7, <3>3
    <3> QED
      BY <1>6, <3>1, <3>2, <3>3, <3>4
  <2>6. NoGap(Raised)'
    <3>1. SUFFICES ASSUME d \in Known, NEW e \in Path, IsUnder(Front(d), e), Missing(e)
                   PROVE  e \in Known'
      BY <1>5, <1>7, <2>2 DEF NoGap
    <3>2. IsUnder(d, e) /\ Front(d) \in Path /\ ~IsUnder(Front(d), d)
      BY <1>4, <3>1, Order, Parent
    <3>3. e \in Known
      BY <2>1, <3>1, <3>2 DEF Main, NoGap
    <3>4. ~IsUnder(e, d)
      BY <1>4, <3>1, <3>2, Order
    <3> QED
      BY <1>6, <3>3, <3>4
  <2>7. Main'
    BY <1>6, <2>1, <2>4, <2>5 DEF Main
  <2> QED
    BY <1>3, <1>5, <1>6, <2>1, <2>6, <2>7, RestBooks
<1>10. trust # "healing"
  BY <1>1 DEF BookInv, InScan
<1> QED
  BY <1>1, <1>2, <1>3, <1>5, <1>9, <1>10, RestShape DEF BookInv

\* A child with a row is added to the sum of the listing.
LEMMA AddKnownStep ==
  ASSUME TypeInv, TypeInv', BookInv, NEW c \in Path, AddKnown(c)
  PROVE  BookInv'
<1>1. /\ job.at = "list" /\ stack = <<>> /\ c \in job.todo /\ c \in Known
      /\ job' = [job EXCEPT !.sum = @ + rows[c].total, !.todo = @ \ {c}]
      /\ UNCHANGED <<disk, watcher, rows, queue, scan, trust>>
  BY DEF AddKnown
<1>2. own' = own /\ NoRenames' /\ TreeInv' /\ rows' = rows /\ Known' = Known
  BY <1>1, SameOutside DEF Known
<1>3. out = <<>> /\ stack' = <<>> /\ out' = <<>>
  BY <1>1 DEF BookInv, Shape, JobShape, scan
<1>4. job \in Listing
  BY <1>1 DEF TypeInv, TypeJob, Job, Idle
<1>5. /\ job'.at = "list" /\ job'.dir = job.dir /\ job'.old = job.old /\ job'.depth = job.depth
      /\ job'.sum = job.sum + rows[c].total /\ job'.todo = job.todo \ {c}
      /\ job'.live = job.live
  BY <1>1, <1>4 DEF Listing
<1>6. JobShape'
  BY <1>1, <1>2, <1>3, <1>5 DEF BookInv, Shape, JobShape, Find
<1>7. ASSUME trust = "full" PROVE FullInv' /\ NewInv'
  <2>1. Main /\ <<>> \in Known /\ ListClaim
    BY <1>1, <1>7 DEF BookInv, FullInv, InScan
  <2>2. OnItsWay' = OnItsWay
    BY <1>1 DEF OnItsWay, watcher
  <2>3. \A p : Held(p)' = Held(p) /\ Delta(p) = 0 /\ Delta(p)' = 0
    BY <1>1, <1>5 DEF Held, Delta, Raised
  <2>4. Main'
    BY <1>2, <2>1, <2>2, <2>3, SameTable
  <2>5. ListClaim'
    <3>1. SUFFICES ASSUME job.dir \in Dirs, job.dir \notin OnItsWay
                   PROVE  /\ job.live = Children(job.dir)
                          /\ Counted' \subseteq Known
                          /\ job'.sum = own[job.dir] + SumOf(rows, Counted')
      <4>1. Dirs' = Dirs /\ Children(job.dir)' = Children(job.dir)
        BY <1>2, <1>5, SameDisk
      <4> QED
        BY <1>2, <1>5, <2>2, <4>1 DEF ListClaim
    <3>2. /\ job.live = Children(job.dir)
          /\ Counted \subseteq Known
          /\ job.sum = own[job.dir] + SumOf(rows, Counted)
      BY <1>1, <2>1, <3>1 DEF ListClaim
    <3>3. Counted = job.live \ job.todo /\ Counted' = job.live \ (job.todo \ {c})
      BY <1>1, <1>3, <1>5 DEF Counted
    <3>4. Counted' = Counted \cup {c} /\ c \notin Counted
      BY <1>1, <3>3, JobFacts
    <3>5. Totalled(rows, Counted) /\ rows[c].total \in Nat
      BY <1>1, <3>2, RowFacts, TableTotals
    <3>6. SumOf(rows, Counted \cup {c}) = SumOf(rows, Counted) + rows[c].total
      BY <3>4, <3>5, SumAdd
    <3>7. SumOf(rows, Counted) \in Nat /\ own[job.dir] \in Nat
      BY <3>1, <3>5, SumType, DiskFacts
    <3>8. job'.sum = own[job.dir] + SumOf(rows, Counted')
      BY <1>5, <3>2, <3>4, <3>5, <3>6, <3>7
    <3> QED
      BY <1>1, <3>2, <3>4, <3>8
  <2>6. ~InScan' /\ PurgeClaim' /\ NoGap(Raised)'
    BY <1>5 DEF InScan, PurgeClaim, NoGap, Raised
  <2> QED
    BY <1>2, <1>3, <2>1, <2>4, <2>5, <2>6, RestBooks
<1>8. trust # "healing"
  BY <1>1 DEF BookInv, InScan
<1> QED
  BY <1>1, <1>2, <1>3, <1>6, <1>7, <1>8, RestShape DEF BookInv

\* The listing is given up, with or without a scan in it.
LEMMA GiveUpStep ==
  ASSUME TypeInv, TypeInv', BookInv, job.at = "list", GiveUp
  PROVE  BookInv'
<1>1. /\ job' = Idle /\ queue' = queue \cup {job.dir} /\ stack' = <<>> /\ out' = <<>>
      /\ UNCHANGED <<disk, watcher, rows, trust>>
  BY DEF GiveUp
<1>2. own' = own /\ NoRenames' /\ TreeInv' /\ rows' = rows /\ Known' = Known
  BY <1>1, SameOutside DEF Known
<1>3. job'.at = "idle"
  BY <1>1 DEF Idle
<1>4. JobShape'
  BY <1>1, <1>3 DEF JobShape
<1>5. ASSUME trust = "full" PROVE FullInv' /\ NewInv'
  <2>1. Main /\ <<>> \in Known
    BY <1>5 DEF BookInv, FullInv, InScan
  <2>2. OnItsWay' = OnItsWay \cup {job.dir}
    BY <1>1 DEF OnItsWay, watcher
  <2>3. \A p : (Held(p) <=> p = job.dir) /\ Delta(p) = 0 /\ Delta(p)' = 0
    BY <1>3 DEF Held, Delta, Raised
  <2>4. Main'
    BY <1>2, <2>1, <2>2, <2>3, SameTable
  <2>5. ~InScan' /\ ListClaim' /\ PurgeClaim' /\ NoGap(Raised)'
    BY <1>3 DEF InScan, ListClaim, PurgeClaim, NoGap, Raised
  <2> QED
    BY <1>1, <1>2, <2>1, <2>4, <2>5, RestBooks
<1>6. trust # "healing"
  BY DEF BookInv, InScan
<1> QED
  BY <1>1, <1>2, <1>4, <1>5, <1>6, RestShape DEF BookInv

\* The listing is through: the rows of children that it has not met are doomed.
LEMMA ReadChildrenStep ==
  ASSUME TypeInv, TypeInv', BookInv, ReadChildren
  PROVE  BookInv'
<1>1. /\ job.at = "list" /\ stack = <<>> /\ job.todo = {}
      /\ job' = [at |-> "purge", dir |-> job.dir, old |-> job.old,
                 depth |-> job.depth, sum |-> job.sum,
                 doomed |-> GetChildDirs(job.dir, job.depth) \ job.live]
      /\ UNCHANGED <<disk, watcher, rows, queue, scan, trust>>
  BY DEF ReadChildren
<1>2. own' = own /\ NoRenames' /\ TreeInv' /\ rows' = rows /\ Known' = Known
  BY <1>1, SameOutside DEF Known
<1>3. out = <<>> /\ stack' = <<>> /\ out' = <<>>
  BY <1>1 DEF BookInv, Shape, JobShape, scan
<1>4. /\ job'.at = "purge" /\ job'.dir = job.dir /\ job'.old = job.old /\ job'.depth = job.depth
      /\ job'.sum = job.sum /\ job'.doomed = GetChildDirs(job.dir, job.depth) \ job.live
  BY <1>1
<1>5. JobShape'
  BY <1>1, <1>2, <1>3, <1>4 DEF BookInv, Shape, JobShape, Find, GetChildDirs
<1>6. ASSUME trust = "full" PROVE FullInv' /\ NewInv'
  <2>1. Main /\ <<>> \in Known /\ ListClaim
    BY <1>1, <1>6 DEF BookInv, FullInv, InScan
  <2>2. OnItsWay' = OnItsWay
    BY <1>1 DEF OnItsWay, watcher
  <2>3. \A p : Held(p)' = Held(p) /\ Delta(p) = 0 /\ Delta(p)' = 0
    BY <1>1, <1>4 DEF Held, Delta, Raised
  <2>4. Main'
    BY <1>2, <2>1, <2>2, <2>3, SameTable
  <2>5. PurgeClaim'
    <3>1. SUFFICES ASSUME job.depth = Len(job.dir)
                   PROVE  /\ \A x \in job'.doomed : Front(x) = job.dir
                          /\ job.dir \in Dirs /\ job.dir \notin OnItsWay =>
                               /\ Kids(rows, job.dir) \ job'.doomed = Children(job.dir)
                               /\ job.sum = own[job.dir] + SumOf(rows, Children(job.dir))
      <4>1. Dirs' = Dirs /\ Children(job.dir)' = Children(job.dir)
        BY <1>2, <1>4, SameDisk
      <4> QED
        BY <1>2, <1>4, <2>2, <4>1 DEF PurgeClaim
    <3>2. GetChildDirs(job.dir, job.depth) = Kids(rows, job.dir)
      <4>1. job.dir \in Path /\ Len(job.dir) \in Nat /\ Known = DOMAIN rows
        BY <1>1, JobFacts, Sequences, RowFacts
      <4>2. ASSUME NEW p \in GetChildDirs(job.dir, job.depth) PROVE p \in Kids(rows, job.dir)
        <5>1. /\ p \in Known /\ p \in Path /\ IsUnder(p, job.dir) /\ p # job.dir
              /\ Len(p) = Len(job.dir) + 1 /\ p # <<>>
          BY <2>1, <3>1, <4>1, <4>2, RowFacts, RootAlone DEF GetChildDirs, Main, DepthOK
        <5>2. Front(p) \in Path /\ IsUnder(Front(p), job.dir) /\ Len(Front(p)) = Len(job.dir)
          BY <4>1, <5>1, Parent
        <5> QED
          BY <4>1, <5>1, <5>2, SamePath DEF Kids
      <4>3. ASSUME NEW p \in Kids(rows, job.dir) PROVE p \in GetChildDirs(job.dir, job.depth)
        <5>1. p \in Known /\ p \in Path /\ p # <<>> /\ Front(p) = job.dir
          BY <4>1, <4>3, RowFacts DEF Kids
        <5>2. /\ IsUnder(p, job.dir) /\ p # job.dir /\ Len(job.dir) = Len(p) - 1
              /\ Len(p) \in Nat
          BY <5>1, Parent
        <5>3. rows[p].depth = job.depth + 1
          BY <2>1, <3>1, <4>1, <5>1, <5>2 DEF Main, DepthOK
        <5> QED
          BY <5>1, <5>2, <5>3 DEF GetChildDirs
      <4> QED
        BY <4>2, <4>3
    <3>3. \A x \in job'.doomed : Front(x) = job.dir
      BY <1>4, <3>2 DEF Kids
    <3>4. ASSUME job.dir \in Dirs, job.dir \notin OnItsWay
          PROVE  /\ Kids(rows, job.dir) \ job'.doomed = Children(job.dir)
                 /\ job.sum = own[job.dir] + SumOf(rows, Children(job.dir))
      <4>1. /\ job.live = Children(job.dir)
            /\ Counted \subseteq Known
            /\ job.sum = own[job.dir] + SumOf(rows, Counted)
        BY <1>1, <2>1, <3>4 DEF ListClaim
      <4>2. Counted = job.live
        BY <1>1 DEF Counted
      <4>3. Children(job.dir) \subseteq Kids(rows, job.dir)
        BY <4>1, <4>2, RowFacts, DiskFacts DEF Kids
      <4> QED
        BY <1>4, <3>2, <4>1, <4>2, <4>3
    <3> QED
      BY <3>3, <3>4
  <2>6. ~InScan' /\ ListClaim' /\ NoGap(Raised)'
    BY <1>4 DEF InScan, ListClaim, NoGap, Raised
  <2> QED
    BY <1>2, <1>3, <2>1, <2>4, <2>5, <2>6, RestBooks
<1>7. trust # "healing"
  BY <1>1 DEF BookInv, InScan
<1> QED
  BY <1>1, <1>2, <1>3, <1>5, <1>6, <1>7, RestShape DEF BookInv

\* One of them goes, with all below it.
LEMMA PurgeStep ==
  ASSUME TypeInv, TypeInv', BookInv, NEW c \in Path, Purge(c)
  PROVE  BookInv'
<1> DEFINE d == job.dir
<1>1. /\ job.at = "purge" /\ c \in job.doomed /\ RemoveByPrefix(c)
      /\ job' = [job EXCEPT !.doomed = @ \ {c}]
      /\ UNCHANGED <<disk, watcher, queue, scan, trust>>
  BY DEF Purge
<1>2. own' = own /\ NoRenames' /\ TreeInv' /\ OnItsWay' = OnItsWay
  BY <1>1, SameOutside DEF OnItsWay, watcher
<1>3. /\ stack = <<>> /\ out = <<>> /\ stack' = <<>> /\ out' = <<>>
      /\ job.old = Find(d) /\ job.depth = job.old.depth
      /\ \A x \in job.doomed : IsUnder(x, d) /\ x # d
  BY <1>1 DEF BookInv, Shape, JobShape, scan
<1>4. /\ job'.at = "purge" /\ job'.dir = d /\ job'.old = job.old /\ job'.depth = job.depth
      /\ job'.sum = job.sum /\ job'.doomed = job.doomed \ {c}
  <2>1. job \in [at : {"purge"}, dir : Path, old : MaybeRow, depth : Int, sum : Nat,
                 doomed : SUBSET Path]
    BY <1>1 DEF TypeInv, TypeJob, Job, Idle, Listing
  <2> QED
    BY <1>1, <2>1
<1>5. d \in Path /\ IsUnder(c, d) /\ c # d /\ c # <<>> /\ ~IsUnder(d, c)
  BY <1>1, <1>3, JobFacts, Order, RootAlone
<1>6. /\ Known' = {p \in Known : ~IsUnder(p, c)}
      /\ \A p \in Known' : rows'[p] = rows[p]
      /\ <<>> \in Known => <<>> \in Known'
      /\ DepthOK(rows) => DepthOK(rows)'
      /\ NoGap(Known) => NoGap(Known)'
      /\ \A x : Anchored(rows', x) => Anchored(rows, x)
      /\ \A x \in Known' : \A delta :
           Balanced(rows, x, delta) /\ (c \in Known => Front(c) # x) => Balanced(rows', x, delta)
  BY <1>1, <1>2, <1>5, Dropped
<1>7. Find(d)' = Find(d)
  BY <1>4, <1>5, <1>6 DEF Find
<1>8. JobShape'
  BY <1>1, <1>3, <1>4, <1>7 DEF JobShape
<1>9. \A p : (Held(p) <=> p = d) /\ (Held(p)' <=> p = d) /\ Delta(p) = 0 /\ Delta(p)' = 0
  BY <1>1, <1>4 DEF Held, Delta, Raised
<1>10. ASSUME trust = "full" PROVE FullInv' /\ NewInv'
  <2> HIDE DEF d
  <2>1. Main /\ <<>> \in Known /\ PurgeClaim
    <3>1. ~InScan
      BY <1>1 DEF InScan
    <3> QED
      BY <1>10, <3>1 DEF BookInv, FullInv
  <2>2. \A p : Missing(p)' = Missing(p) /\ Dirs' = Dirs /\ Children(p)' = Children(p)
    BY <1>2, SameDisk
  <2>3. Noticed(Known)'
    BY <1>2, <1>6, <1>9, <2>1, <2>2 DEF Main, Noticed
  <2>4. BookKept'
    <3>1. SUFFICES ASSUME NEW x \in Dirs \cap Known', Anchored(rows', x), x \notin OnItsWay,
                          x # d
                   PROVE  Balanced(rows', x, 0)
      BY <1>2, <1>9, <2>2 DEF BookKept, Balanced
    <3>2. Balanced(rows, x, 0)
      BY <1>6, <1>9, <2>1, <3>1 DEF Main, BookKept
    <3>3. Front(c) # x
      <4>1. CASE job.depth = Len(d)
        BY <1>1, <2>1, <3>1, <4>1 DEF PurgeClaim, d
      <4>2. CASE job.depth # Len(d)
        <5>1. d \notin Known
          BY <1>3, <2>1, <4>2, FindIs DEF Main, DepthOK, Known
        <5>2. x = Front(c) => IsUnder(x, d)
          BY <1>5, Parent
        <5> QED
          BY <1>5, <1>6, <3>1, <5>1, <5>2, RowFacts DEF Anchored
      <4> QED
        BY <4>1, <4>2
    <3> QED
      BY <1>6, <3>1, <3>2, <3>3
  <2>5. PurgeClaim'
    <3>1. SUFFICES ASSUME job.depth = Len(d)
                   PROVE  /\ \A x \in job'.doomed : Front(x) = d
                          /\ d \in Dirs /\ d \notin OnItsWay =>
                               /\ Kids(rows', d) \ job'.doomed = Children(d)
                               /\ job.sum = own[d] + SumOf(rows', Children(d))
      BY <1>2, <1>4, <2>2 DEF PurgeClaim
    <3>2. \A x \in job.doomed : Front(x) = d
      BY <1>1, <2>1, <3>1 DEF PurgeClaim, d
    <3>3. ASSUME d \in Dirs, d \notin OnItsWay
          PROVE  /\ Kids(rows', d) \ job'.doomed = Children(d)
                 /\ job.sum = own[d] + SumOf(rows', Children(d))
      <4>1. /\ Kids(rows, d) \ job.doomed = Children(d)
            /\ job.sum = own[d] + SumOf(rows, Children(d))
        BY <1>1, <2>1, <3>1, <3>3 DEF PurgeClaim, d
      <4>2. Front(c) = d
        BY <1>1, <3>2
      <4>3. ASSUME NEW p \in Kids(rows, d), p # c PROVE p \in Known'
        <5>1. p \in Known /\ p \in Path /\ p # <<>> /\ Front(p) = d
          BY RowFacts DEF Kids
        <5>2. ~IsUnder(p, c)
          BY <1>5, <4>2, <4>3, <5>1, Siblings, Order
        <5> QED
          BY <1>6, <5>1, <5>2
      <4>4. Kids(rows', d) = Kids(rows, d) \ {c}
        <5>1. DOMAIN rows' = Known' /\ DOMAIN rows = Known
          BY DEF Known
        <5>2. c \notin Known'
          BY <1>5, <1>6, Order
        <5> QED
          BY <1>6, <4>3, <5>1, <5>2 DEF Kids
      <4>5. \A p \in Children(d) : rows'[p].total = rows[p].total
        BY <1>1, <1>6, <4>1, <4>3
      <4>6. SumOf(rows', Children(d)) = SumOf(rows, Children(d))
        BY <4>5, SumSame
      <4> QED
        BY <1>1, <1>4, <4>1, <4>4, <4>6
    <3> QED
      BY <1>4, <3>2, <3>3
  <2>6. ~InScan' /\ ListClaim' /\ NoGap(Raised)'
    BY <1>4 DEF InScan, ListClaim, NoGap, Raised
  <2>7. Main'
    BY <1>6, <2>1, <2>3, <2>4 DEF Main
  <2> QED
    BY <1>3, <1>6, <2>1, <2>5, <2>6, <2>7, RestBooks
<1>11. trust # "healing"
  BY <1>1 DEF BookInv, InScan
<1> QED
  BY <1>1, <1>2, <1>3, <1>8, <1>10, <1>11, RestShape DEF BookInv

\* The row of d is written again.
LEMMA Rewritten ==
  ASSUME TypeInv, own' = own, NEW d \in Known, NEW row \in Row, UpsertEntry(d, row)
  PROVE  /\ Known' = Known /\ rows'[d] = row
         /\ \A p \in Known : p # d => rows'[p] = rows[p]
         /\ DepthOK(rows) /\ row.depth = Len(d) => DepthOK(rows)'
         /\ NoGap(Known) => NoGap(Known)'
         /\ \A x : Anchored(rows', x) => Anchored(rows, x)
         /\ \A x : Kids(rows', x) = Kids(rows, x)
         /\ \A x \in Known : \A delta : x # d /\ (d = <<>> \/ Front(d) # x) /\ Balanced(rows, x, delta)
              => Balanced(rows', x, delta)
         /\ d # <<>> => \A delta \in Int : Front(d) \in Dirs \cap Known /\ Balanced(rows, Front(d), delta)
              => Balanced(rows', Front(d), delta + row.total - rows[d].total)
         /\ Kids(rows, d) = Children(d) => SumOf(rows', Children(d)) = SumOf(rows, Children(d))
<1>1. /\ DOMAIN rows' = DOMAIN rows \cup {d}
      /\ rows'[d] = row /\ \A p \in Known : p # d => rows'[p] = rows[p]
  BY DEF UpsertEntry, Upsert, Known
<1>2. Known' = Known /\ DOMAIN rows' = DOMAIN rows /\ d \in Path
  BY <1>1, RowFacts DEF Known
<1>3. DepthOK(rows) /\ row.depth = Len(d) => DepthOK(rows)'
  BY <1>1, <1>2 DEF DepthOK, Known
<1>4. NoGap(Known) => NoGap(Known)'
  BY <1>2, SameDisk DEF NoGap
<1>5. \A x : Anchored(rows', x) => Anchored(rows, x)
  BY <1>2 DEF Anchored
<1>6. \A x : Kids(rows', x) = Kids(rows, x)
  BY <1>2 DEF Kids
<1>7. ASSUME NEW x, d = <<>> \/ Front(d) # x, Kids(rows, x) = Children(x)
      PROVE  SumOf(rows', Children(x)) = SumOf(rows, Children(x))
  <2>1. \A p \in Children(x) : p \in Known /\ p # d
    BY <1>7, RowFacts, DiskFacts DEF Kids
  <2> QED
    BY <1>1, <2>1, SumSame
<1>8. ASSUME NEW x \in Known, NEW delta, x # d, d = <<>> \/ Front(d) # x, Balanced(rows, x, delta)
      PROVE  Balanced(rows', x, delta)
  <2>1. Kids(rows, x) = Children(x) /\ rows[x].total + delta = own[x] + SumOf(rows, Children(x))
    BY <1>8 DEF Balanced
  <2>2. rows'[x] = rows[x]
    BY <1>1, <1>8
  <2> QED
    BY <1>6, <1>7, <1>8, <2>1, <2>2 DEF Balanced
<1>9. ASSUME d # <<>>, NEW delta \in Int, Front(d) \in Dirs \cap Known, Balanced(rows, Front(d), delta)
      PROVE  Balanced(rows', Front(d), delta + row.total - rows[d].total)
  <2> DEFINE x == Front(d)
  <2>1. Kids(rows, x) = Children(x) /\ rows[x].total + delta = own[x] + SumOf(rows, Children(x))
    BY <1>9 DEF Balanced
  <2>2. x # d /\ x \in Known /\ x \in Dirs
    BY <1>2, <1>9, Parent
  <2>3. d \in Children(x)
    BY <1>9, <2>1, RowFacts DEF Kids
  <2>4. Children(x) \subseteq Known
    BY <2>1, RowFacts DEF Kids
  <2> HIDE DEF x
  <2>5. Totalled(rows, Children(x)) /\ row.total \in Nat /\ rows[d].total \in Nat
    BY <2>4, RowFacts, TableTotals DEF Row
  <2>6. SumOf(rows', Children(x)) = SumOf(rows, Children(x)) + row.total - rows[d].total
    BY <1>1, <2>3, <2>4, <2>5, SumChange
  <2>7. rows'[x] = rows[x] /\ rows[x].total \in Nat /\ own[x] \in Nat /\ SumOf(rows, Children(x)) \in Nat
    BY <1>1, <2>2, <2>5, SumType, RowFacts, DiskFacts
  <2>8. rows'[x].total + (delta + row.total - rows[d].total) = own[x] + SumOf(rows', Children(x))
    <3> DEFINE a == rows[x].total
               b == own[x]
               k == SumOf(rows, Children(x))
               l == SumOf(rows', Children(x))
               m == row.total
               n == rows[d].total
               e == rows'[x].total
    <3>1. /\ a \in Nat /\ b \in Nat /\ k \in Nat /\ m \in Nat /\ n \in Nat /\ delta \in Int
          /\ a + delta = b + k /\ l = k + m - n /\ e = a
      BY <1>9, <2>1, <2>5, <2>6, <2>7
    <3> HIDE DEF a, b, k, l, m, n, e
    <3>2. e + (delta + m - n) = b + l
      BY ONLY <3>1
    <3> QED
      BY <3>2 DEF a, b, k, l, m, n, e
  <2> QED
    BY <1>6, <2>1, <2>8 DEF Balanced, x
<1>10. Kids(rows, d) = Children(d) => SumOf(rows', Children(d)) = SumOf(rows, Children(d))
  BY <1>2, <1>7, Parent
<1> QED
  BY <1>1, <1>2, <1>3, <1>4, <1>5, <1>6, <1>8, <1>9, <1>10

\* RescanOne writes the row: the books of its directory balance, and those of the
\* one above do but for the difference it now carries.
LEMMA WriteRowStep ==
  ASSUME TypeInv, TypeInv', BookInv, WriteRow
  PROVE  BookInv'
<1> DEFINE d == job.dir
           row == NewRow(job.sum, job.depth)
<1>1. /\ job.at = "purge" /\ job.doomed = {} /\ UpsertEntry(d, row) /\ Raise(d, job.old, job.sum)
      /\ queue' = IF job.old = NoRow /\ d # <<>> THEN queue \cup {Front(d)} ELSE queue
      /\ trust' = IF job.depth = Len(d) THEN trust ELSE "lost"
      /\ UNCHANGED <<disk, watcher, scan>>
  BY DEF WriteRow
<1>2. own' = own /\ NoRenames' /\ TreeInv'
  BY <1>1, SameOutside
<1>3. stack = <<>> /\ out = <<>> /\ stack' = <<>> /\ out' = <<>> /\ job.old = Find(d)
      /\ job.depth = job.old.depth
  BY <1>1 DEF BookInv, Shape, JobShape, scan
<1>4. /\ d \in Path /\ job.sum \in Nat /\ row \in Row /\ row.total = job.sum
      /\ row.depth = job.depth
  <2>1. d \in Path /\ job.sum \in Nat /\ job.depth \in Int
    BY <1>1, JobFacts
  <2> QED
    BY <2>1, NewRowType DEF NewRow
<1>5. /\ ~InScan' /\ (\A p : ~Held(p)') /\ ListClaim' /\ PurgeClaim' /\ JobShape'
      /\ Raised' \in {{}, {Front(d)}} /\ (Raised' # {} => d # <<>>)
      /\ (job.old # NoRow /\ d # <<>> /\ job.old.total \in Nat /\ job.sum \in Nat =>
            \A p : Delta(p)' = IF p = Front(d) THEN job.sum - job.old.total ELSE 0)
      /\ (Raised' = {} => \A p : Delta(p)' = 0)
  BY <1>1, <1>3, RaiseIs
<1>6. \A p : (Held(p) <=> p = d) /\ Delta(p) = 0
  BY <1>1 DEF Held, Delta, Raised
<1>7. trust # "healing"
  BY <1>1 DEF BookInv, InScan
<1>8. ASSUME trust' = "full" PROVE FullInv' /\ NewInv'
  <2> HIDE DEF d, row
  <2>1. trust = "full" /\ job.depth = Len(d)
    BY <1>1, <1>8
  <2>2. Main /\ <<>> \in Known /\ PurgeClaim
    <3>1. ~InScan
      BY <1>1 DEF InScan
    <3> QED
      BY <2>1, <3>1 DEF BookInv, FullInv
  <2>3. d \in Known /\ job.old = rows[d] /\ job.old # NoRow
    <3>1. d \notin Known => Len(d) = 0
      BY <1>3, <2>1, FindIs
    <3>2. Len(d) = 0 => d = <<>>
      BY <1>4, Sequences, EmptySeq
    <3> QED
      BY <1>3, <2>2, <3>1, <3>2, FindIs
  <2>4. /\ Known' = Known /\ rows'[d] = row
        /\ DepthOK(rows)' /\ NoGap(Known)'
        /\ \A x : Anchored(rows', x) => Anchored(rows, x)
        /\ \A x : Kids(rows', x) = Kids(rows, x)
        /\ \A x \in Known : \A delta : x # d /\ (d = <<>> \/ Front(d) # x) /\ Balanced(rows, x, delta)
             => Balanced(rows', x, delta)
        /\ d # <<>> => \A delta \in Int : Front(d) \in Dirs \cap Known /\ Balanced(rows, Front(d), delta)
             => Balanced(rows', Front(d), delta + row.total - rows[d].total)
        /\ Kids(rows, d) = Children(d) => SumOf(rows', Children(d)) = SumOf(rows, Children(d))
    BY <1>1, <1>2, <1>4, <2>1, <2>2, <2>3, Rewritten DEF Main
  <2>5. \A p : Missing(p)' = Missing(p) /\ Dirs' = Dirs /\ Children(p)' = Children(p)
    BY <1>2, SameDisk
  <2>6. OnItsWay' = OnItsWay
    BY <1>1, <2>3 DEF OnItsWay, watcher
  <2>7. d \in Dirs /\ d \notin OnItsWay =>
          /\ Kids(rows, d) = Children(d)
          /\ job.sum = own[d] + SumOf(rows, Children(d))
    BY <1>1, <2>1, <2>2 DEF PurgeClaim, d
  <2>8. Noticed(Known)'
    <3>1. SUFFICES ASSUME NEW e \in Known, Missing(e) PROVE Front(e) \in OnItsWay
      BY <2>4, <2>5, <2>6 DEF Noticed
    <3>2. Front(e) # d \/ d \in OnItsWay
      BY <2>7, <3>1, RowFacts, DiskFacts DEF Missing, Kids
    <3> QED
      BY <1>6, <2>2, <3>1, <3>2 DEF Main, Noticed
  <2>9. job.old.total \in Nat
    BY <2>3, RowFacts
  <2>10. BookKept'
    <3>1. SUFFICES ASSUME NEW x \in Dirs \cap Known, Anchored(rows', x), x \notin OnItsWay
                   PROVE  Balanced(rows', x, Delta(x)')
      BY <1>2, <2>4, <2>5, <2>6 DEF BookKept, Balanced
    <3>2. x # d => Balanced(rows, x, 0)
      BY <1>6, <2>2, <2>4, <3>1 DEF Main, BookKept
    <3>3. CASE x = d
      <4>1. Front(d) # d \/ d = <<>>
        BY <1>4, Parent
      <4>2. Delta(x)' = 0
        <5>1. CASE d = <<>>
          <6>1. Raised' = {}
            BY <1>5, <5>1
          <6> QED
            BY <1>5, <6>1
        <5>2. CASE d # <<>>
          BY <1>4, <1>5, <2>3, <2>9, <3>3, <4>1, <5>2
        <5> QED
          BY <5>1, <5>2
      <4>3. row.total + 0 = own[d] + SumOf(rows', Children(d))
        BY <1>4, <2>4, <2>7, <3>1, <3>3
      <4>4. Kids(rows', d) = Children(d)
        BY <2>4, <2>7, <3>1, <3>3
      <4>5. Balanced(rows', d, 0)
        BY <2>4, <4>3, <4>4 DEF Balanced
      <4> QED
        BY <3>3, <4>2, <4>5
    <3>4. CASE x # d /\ d # <<>> /\ x = Front(d)
      <4>1. Delta(x)' = job.sum - job.old.total
        BY <1>4, <1>5, <2>3, <2>9, <3>4
      <4>2. Balanced(rows', x, 0 + row.total - rows[d].total)
        BY <2>4, <3>1, <3>2, <3>4
      <4>3. 0 + row.total - rows[d].total = job.sum - job.old.total
        BY <1>4, <2>3, <2>9
      <4> QED
        BY <4>1, <4>2, <4>3
    <3>5. CASE x # d /\ (d = <<>> \/ x # Front(d))
      <4>1. Delta(x)' = 0
        BY <1>4, <1>5, <2>3, <2>9, <3>5
      <4> QED
        BY <2>4, <3>2, <3>5, <4>1
    <3> QED
      BY <3>3, <3>4, <3>5
  <2>11. NoGap(Raised)'
    <3>1. SUFFICES ASSUME d # <<>>, NEW e \in Path, IsUnder(Front(d), e), Missing(e)
                   PROVE  e \in Known
      BY <1>5, <2>4, <2>5 DEF NoGap
    <3>2. IsUnder(d, e)
      BY <1>4, <3>1, Order, Parent
    <3> QED
      BY <2>2, <2>3, <3>1, <3>2 DEF Main, NoGap
  <2>12. Main'
    BY <2>4, <2>8, <2>10 DEF Main
  <2> QED
    BY <1>3, <1>5, <2>2, <2>4, <2>11, <2>12, RestBooks
<1>9. trust' # "healing"
  BY <1>1, <1>7
<1> QED
  BY <1>2, <1>3, <1>5, <1>8, <1>9, RestShape DEF BookInv

\* PropagateAncestorDeltas reads the row it will add to.
LEMMA ReadAboveStep ==
  ASSUME TypeInv, TypeInv', BookInv, ReadAbove
  PROVE  BookInv'
<1>1. /\ job.at = "raise"
      /\ job' = [at |-> "apply", dir |-> job.dir, delta |-> job.delta, row |-> Find(job.dir)]
      /\ UNCHANGED <<disk, watcher, rows, queue, scan, trust>>
  BY DEF ReadAbove
<1>2. own' = own /\ NoRenames' /\ TreeInv' /\ rows' = rows /\ Known' = Known
  BY <1>1, SameOutside DEF Known
<1>3. stack = <<>> /\ out = <<>> /\ stack' = <<>> /\ out' = <<>>
  BY <1>1 DEF BookInv, Shape, JobShape, scan
<1>4. job'.at = "apply" /\ job'.dir = job.dir /\ job'.delta = job.delta /\ job'.row = Find(job.dir)
  BY <1>1
<1>5. JobShape'
  BY <1>2, <1>3, <1>4 DEF JobShape, Find
<1>6. ASSUME trust = "full" PROVE FullInv' /\ NewInv'
  <2>1. Main /\ <<>> \in Known /\ NoGap(DOMAIN out \cup FoundDirs \cup Raised)
    <3>1. ~InScan
      BY <1>1 DEF InScan
    <3> QED
      BY <1>6, <3>1 DEF BookInv, FullInv
  <2>2. OnItsWay' = OnItsWay
    BY <1>1 DEF OnItsWay, watcher
  <2>3. Raised' = Raised /\ \A p : Held(p)' = Held(p)
    BY <1>1, <1>4 DEF Held, Raised
  <2>4. \A p : Delta(p)' = Delta(p)
    BY <1>4, <2>3 DEF Delta
  <2>5. Main'
    BY <1>2, <2>1, <2>2, <2>3, <2>4, SameTable
  <2>6. NoGap(Raised)'
    BY <1>2, <2>1, <2>3, SameDisk DEF NoGap
  <2>7. ~InScan' /\ ListClaim' /\ PurgeClaim'
    BY <1>4 DEF InScan, ListClaim, PurgeClaim
  <2> QED
    BY <1>2, <1>3, <2>1, <2>5, <2>6, <2>7, RestBooks
<1>7. trust # "healing"
  BY <1>1 DEF BookInv, InScan
<1> QED
  BY <1>1, <1>2, <1>3, <1>5, <1>6, <1>7, RestShape DEF BookInv

\* It adds the difference: the books below are settled, the difference goes on up.
LEMMA ApplyAboveStep ==
  ASSUME TypeInv, TypeInv', BookInv, ApplyAbove
  PROVE  BookInv'
<1> DEFINE d == job.dir
           row == [job.row EXCEPT !.total = Clamped(@ + job.delta)]
<1>1. /\ job.at = "apply"
      /\ job.row = NoRow => rows' = rows
      /\ job.row # NoRow => UpsertEntry(d, row)
      /\ job' = IF d = <<>> THEN Idle ELSE [at |-> "raise", dir |-> Front(d), delta |-> job.delta]
      /\ trust' = IF job.row # NoRow /\ job.row.total + job.delta < 0 THEN "lost" ELSE trust
      /\ UNCHANGED <<disk, watcher, queue, scan>>
  BY DEF ApplyAbove
<1>2. own' = own /\ NoRenames' /\ TreeInv' /\ OnItsWay' = OnItsWay
  BY <1>1, SameOutside DEF OnItsWay, watcher
<1>3. stack = <<>> /\ out = <<>> /\ stack' = <<>> /\ out' = <<>> /\ job.row = Find(d)
  BY <1>1 DEF BookInv, Shape, JobShape, scan
<1>4. d \in Path /\ job.delta \in Int /\ (d # <<>> => Front(d) # d /\ Front(d) \in Path)
  BY <1>1, JobFacts, Parent
<1>5. /\ job'.at \in {"raise", "idle"} /\ ~InScan' /\ (\A p : ~Held(p)') /\ ListClaim' /\ PurgeClaim'
      /\ JobShape'
      /\ (d = <<>> => Raised' = {})
      /\ d # <<>> => job'.dir = Front(d) /\ job'.delta = job.delta /\ Raised' = {Front(d)}
  <2>1. CASE d = <<>>
    <3>1. job'.at = "idle"
      BY <1>1, <2>1 DEF Idle
    <3> QED
      BY <1>3, <2>1, <3>1 DEF InScan, Held, ListClaim, PurgeClaim, JobShape, Raised
  <2>2. CASE d # <<>>
    <3>1. job'.at = "raise" /\ job'.dir = Front(d) /\ job'.delta = job.delta
      BY <1>1, <2>2
    <3> HIDE DEF d
    <3> QED
      BY <1>3, <2>2, <3>1 DEF InScan, Held, ListClaim, PurgeClaim, JobShape, Raised
  <2> QED
    BY <2>1, <2>2
<1>6. /\ \A p : ~Held(p) /\ Delta(p) = IF p = d THEN job.delta ELSE 0
      /\ \A p : Delta(p)' = IF d # <<>> /\ p = Front(d) THEN job.delta ELSE 0
  <2>1. Raised = {d} /\ \A p : ~Held(p)
    BY <1>1 DEF Raised, Held
  <2>2. \A p : Delta(p) = IF p = d THEN job.delta ELSE 0
    BY <2>1 DEF Delta
  <2> HIDE DEF d
  <2>3. \A p : Delta(p)' = IF d # <<>> /\ p = Front(d) THEN job.delta ELSE 0
    BY <1>5 DEF Delta
  <2> QED
    BY <2>1, <2>2, <2>3
<1>7. trust # "healing"
  BY <1>1 DEF BookInv, InScan
<1>8. ASSUME trust' = "full" PROVE FullInv' /\ NewInv'
  <2>1. trust = "full" /\ (job.row # NoRow => ~(job.row.total + job.delta < 0))
    BY <1>1, <1>8
  <2> HIDE DEF d, row
  <2>2. Main /\ <<>> \in Known /\ NoGap(DOMAIN out \cup FoundDirs \cup Raised)
    <3>1. ~InScan
      BY <1>1 DEF InScan
    <3> QED
      BY <2>1, <3>1 DEF BookInv, FullInv
  <2>3. \A p : Missing(p)' = Missing(p) /\ Dirs' = Dirs /\ Children(p)' = Children(p)
    BY <1>2, SameDisk
  <2>4. \A e \in Path : IsUnder(d, e) /\ Missing(e) => e \in Known
    <3>1. d \in Raised
      BY <1>1 DEF Raised, d
    <3> QED
      BY <2>2, <3>1 DEF NoGap
  <2>5. CASE d \notin Known
    <3>1. rows' = rows /\ Known' = Known
      BY <1>1, <1>3, <2>5, FindIs DEF Known
    <3>2. ASSUME NEW x \in Dirs \cap Known, Anchored(rows, x), x \notin OnItsWay
          PROVE  Delta(x)' = Delta(x)
      <4>1. x # d
        BY <2>5, <3>2
      <4>2. ASSUME d # <<>>, x = Front(d) PROVE FALSE
        <5>1. Balanced(rows, x, 0)
          BY <1>6, <2>2, <3>2, <4>1 DEF Main, BookKept
        <5>2. d \notin Dirs
          BY <2>5, <4>2, <5>1, RowFacts DEF Balanced, Kids, Children
        <5>3. Missing(d) /\ IsUnder(d, d)
          BY <1>4, <3>2, <4>2, <5>2, Order DEF Missing
        <5> QED
          BY <1>4, <2>4, <2>5, <5>3
      <4> QED
        BY <1>6, <4>1, <4>2
    <3>3. Main'
      BY <1>2, <1>5, <1>6, <2>2, <3>1, <3>2, SameTable
    <3>4. NoGap(Raised)'
      <4>1. SUFFICES ASSUME d # <<>>, NEW e \in Path, IsUnder(Front(d), e), Missing(e)
                     PROVE  e \in Known
        BY <1>5, <2>3, <3>1 DEF NoGap
      <4>2. IsUnder(d, e)
        BY <1>4, <4>1, Order, Parent
      <4> QED
        BY <2>4, <4>1, <4>2
    <3> QED
      BY <1>3, <1>5, <2>2, <3>1, <3>3, <3>4, RestBooks
  <2>6. CASE d \in Known
    <3>1. /\ job.row = rows[d] /\ job.row # NoRow /\ rows[d].total \in Nat
          /\ rows[d].total + job.delta \in Nat /\ rows[d] \in Row
      BY <1>3, <1>4, <2>1, <2>6, FindIs, RowFacts
    <3>2. row \in Row /\ row.total = rows[d].total + job.delta /\ row.depth = rows[d].depth
      <4>1. Clamped(rows[d].total + job.delta) = rows[d].total + job.delta
        BY <3>1 DEF Clamped
      <4> QED
        BY <3>1, <4>1 DEF row, Row
    <3>3. rows[d].depth = Len(d)
      BY <2>2, <2>6 DEF Main, DepthOK, Known
    <3>4. /\ Known' = Known /\ rows'[d] = row
          /\ DepthOK(rows)' /\ NoGap(Known)'
          /\ \A x : Anchored(rows', x) => Anchored(rows, x)
          /\ \A x : Kids(rows', x) = Kids(rows, x)
          /\ \A x \in Known : \A delta : x # d /\ (d = <<>> \/ Front(d) # x) /\ Balanced(rows, x, delta)
               => Balanced(rows', x, delta)
          /\ d # <<>> => \A delta \in Int : Front(d) \in Dirs \cap Known /\ Balanced(rows, Front(d), delta)
               => Balanced(rows', Front(d), delta + row.total - rows[d].total)
          /\ Kids(rows, d) = Children(d) => SumOf(rows', Children(d)) = SumOf(rows, Children(d))
      BY <1>1, <1>2, <2>2, <2>6, <3>1, <3>2, <3>3, Rewritten DEF Main
    <3>5. Noticed(Known)'
      BY <1>2, <1>6, <2>2, <2>3, <3>4 DEF Main, Noticed
    <3>6. BookKept'
      <4>1. SUFFICES ASSUME NEW x \in Dirs \cap Known, Anchored(rows', x), x \notin OnItsWay
                     PROVE  Balanced(rows', x, Delta(x)')
        BY <1>2, <2>3, <3>4 DEF BookKept, Balanced
      <4>2. Balanced(rows, x, Delta(x))
        BY <1>6, <2>2, <3>4, <4>1 DEF Main, BookKept
      <4>3. CASE x = d
        <5>1. Delta(x) = job.delta /\ Delta(x)' = 0
          BY <1>4, <1>6, <4>3
        <5>2. /\ Kids(rows, d) = Children(d)
              /\ rows[d].total + job.delta = own[d] + SumOf(rows, Children(d))
          BY <4>2, <4>3, <5>1 DEF Balanced
        <5>3. row.total + 0 = own[d] + SumOf(rows', Children(d))
          BY <3>1, <3>2, <3>4, <5>2
        <5> QED
          BY <3>4, <4>3, <5>1, <5>2, <5>3 DEF Balanced
      <4>4. CASE x # d /\ d # <<>> /\ x = Front(d)
        <5>1. Delta(x) = 0 /\ Delta(x)' = job.delta
          BY <1>6, <4>4
        <5>2. Balanced(rows', x, 0 + row.total - rows[d].total)
          BY <3>4, <4>1, <4>2, <4>4, <5>1
        <5>3. 0 + row.total - rows[d].total = job.delta
          BY <1>4, <3>1, <3>2
        <5> QED
          BY <5>1, <5>2, <5>3
      <4>5. CASE x # d /\ (d = <<>> \/ x # Front(d))
        <5>1. Delta(x) = 0 /\ Delta(x)' = 0
          BY <1>6, <4>5
        <5> QED
          BY <3>4, <4>2, <4>5, <5>1
      <4> QED
        BY <4>3, <4>4, <4>5
    <3>7. NoGap(Raised)'
      <4>1. SUFFICES ASSUME d # <<>>, NEW e \in Path, IsUnder(Front(d), e), Missing(e)
                     PROVE  e \in Known
        BY <1>5, <2>3, <3>4 DEF NoGap
      <4>2. IsUnder(d, e)
        BY <1>4, <4>1, Order, Parent
      <4> QED
        BY <2>4, <4>1, <4>2
    <3>8. Main'
      BY <3>4, <3>5, <3>6 DEF Main
    <3> QED
      BY <1>3, <1>5, <2>2, <3>4, <3>7, <3>8, RestBooks
  <2> QED
    BY <2>5, <2>6
<1>9. trust' # "healing"
  BY <1>1, <1>7
<1> QED
  BY <1>2, <1>3, <1>5, <1>8, <1>9, RestShape DEF BookInv

-----------------------------------------------------------------------------
(* ScanDirectory.                                                          *)

LEMMA NewNext ==
  /\ DOMAIN New' = Fresh' \cup DOMAIN out'
  /\ \A p \in DOMAIN out' : New'[p] = out'[p]
  /\ \A p \in Fresh' \ DOMAIN out' : New'[p] = rows'[p]
<1> DEFINE t == Only(rows', Fresh')
           u == out'
<1>1. DOMAIN t = Fresh' /\ \A p \in Fresh' : t[p] = rows'[p]
  BY DEF Only
<1>2. New' = Over(t, u)
  BY DEF New
<1> HIDE DEF t
<1>3. /\ DOMAIN Over(t, u) = DOMAIN t \cup DOMAIN u
      /\ \A p \in DOMAIN u : Over(t, u)[p] = u[p]
      /\ \A p \in DOMAIN t \ DOMAIN u : Over(t, u)[p] = t[p]
  BY OverIs
<1> QED
  BY <1>1, <1>2, <1>3

\* What the first look at a directory finds.
LEMMA FrameIs ==
  ASSUME NEW c, NEW depth, NEW frame \in Frame(c, depth)
  PROVE  /\ frame.dir = c /\ frame.depth = depth /\ frame.found \in BOOLEAN
         /\ frame.found => c \in Dirs /\ frame.todo = Children(c) /\ frame.sum = own[c]
         /\ ~frame.found => frame.todo = {} /\ frame.sum = 0
         /\ ~frame.found /\ frame.complete => c \notin Dirs
<1> DEFINE here == [dir |-> c, depth |-> depth, sum |-> own[c], todo |-> Children(c),
                    found |-> TRUE, complete |-> TRUE]
           gone == [dir |-> c, depth |-> depth, sum |-> 0, todo |-> {},
                    found |-> FALSE, complete |-> TRUE]
           broken == [dir |-> c, depth |-> depth, sum |-> 0, todo |-> {},
                      found |-> FALSE, complete |-> FALSE]
<1>1. \/ frame = here /\ c \in Dirs
      \/ frame = gone /\ c \notin Dirs
      \/ frame = broken
  BY DEF Frame
<1>2. CASE frame = here /\ c \in Dirs
  BY <1>2
<1>3. CASE frame = gone /\ c \notin Dirs
  BY <1>3
<1>4. CASE frame = broken
  BY <1>4
<1> QED
  BY <1>1, <1>2, <1>3, <1>4

\* A scan with one frame has added up nothing but the size of its directory.
LEMMA ScanBegins ==
  ASSUME TypeInv, TreeInv, own' = own, NEW c \in Path, NEW depth, NEW frame \in Frame(c, depth),
         stack' = <<frame>>
  PROVE  /\ Depths' = {1} /\ stack'[1] = frame /\ Bottom' = c /\ stack' # <<>>
         /\ FramesChained'
         /\ FoundDirs' \subseteq {c} \cap Dirs
         /\ Complete' => (c \in Dirs => c \in FoundDirs') /\ FramesKept' /\ NewKept'
         /\ depth = Len(c) => \A i \in Depths' : stack'[i].depth = Len(stack'[i].dir)
<1>1. /\ frame.dir = c /\ frame.depth = depth /\ frame.found \in BOOLEAN
      /\ frame.found => c \in Dirs /\ frame.todo = Children(c) /\ frame.sum = own[c]
      /\ ~frame.found => frame.todo = {} /\ frame.sum = 0
      /\ ~frame.found /\ frame.complete => c \notin Dirs
  BY FrameIs
<1>2. Len(stack') = 1 /\ stack'[1] = frame /\ stack' # <<>>
  OBVIOUS
<1>3. Depths' = {1}
  BY <1>2 DEF Depths
<1>4. Bottom' = c
  BY <1>1, <1>2 DEF Bottom
<1>5. FramesChained'
  BY <1>1, <1>2, <1>3, DiskFacts DEF FramesChained
<1>6. FoundDirs' \subseteq {c} \cap Dirs
  BY <1>1, <1>2, <1>3 DEF FoundDirs
<1>7. ASSUME Complete'
      PROVE  (c \in Dirs => c \in FoundDirs') /\ FramesKept' /\ NewKept'
  <2>1. frame.complete /\ (frame.found <=> c \in Dirs)
    BY <1>1, <1>2, <1>3, <1>7 DEF Complete
  <2>2. c \in Dirs => c \in FoundDirs'
    BY <1>1, <1>2, <1>3, <2>1 DEF FoundDirs
  <2>3. FramesKept'
    <3>1. /\ Dirs' = Dirs /\ \A p : Children(p)' = Children(p)
      BY SameDisk
    <3>2. frame.found => Added(1)' = {}
      BY <1>1, <1>2, <3>1 DEF Added
    <3>3. SumOf(New', {}) = 0
      BY SumEmpty
    <3>4. c \in Dirs => own[c] \in Nat /\ own[c] = own[c] + 0
      BY DiskFacts
    <3>5. FrameClaim(1)'
      BY <1>1, <1>2, <2>1, <3>1, <3>2, <3>3, <3>4 DEF FrameClaim
    <3> QED
      BY <1>3, <3>5 DEF FramesKept
  <2>4. NewKept'
    <3>1. Dirs' = Dirs
      BY SameDisk
    <3>2. ASSUME NEW q \in Dirs, IsUnder(q, c), Visited(q)' PROVE FALSE
      <4>1. q # c /\ \A x \in frame.todo : ~IsUnder(q, x)
        BY <1>1, <1>2, <1>3, <3>2 DEF Visited
      <4>2. c \in Dirs /\ \E x \in Children(c) : IsUnder(q, x)
        BY <3>2, <4>1, DirAbove
      <4> QED
        BY <1>1, <2>1, <4>1, <4>2
    <3> QED
      BY <1>4, <3>1, <3>2 DEF NewKept
  <2> QED
    BY <2>2, <2>3, <2>4
<1> QED
  BY <1>1, <1>2, <1>3, <1>4, <1>5, <1>6, <1>7

\* A child without a row is scanned in depth (ScanDirectory).
LEMMA AddUnknownStep ==
  ASSUME TypeInv, TypeInv', BookInv, NEW c \in Path, AddUnknown(c)
  PROVE  BookInv'
<1>1. /\ job.at = "list" /\ stack = <<>> /\ c \in job.todo /\ c \notin Known
      /\ job' = [job EXCEPT !.todo = @ \ {c}]
      /\ \E frame \in Frame(c, job.depth + 1) : stack' = <<frame>>
      /\ trust' = IF job.depth = Len(job.dir) THEN trust ELSE "lost"
      /\ UNCHANGED <<disk, watcher, rows, queue, out>>
  BY DEF AddUnknown
<1>2. own' = own /\ NoRenames' /\ TreeInv' /\ rows' = rows /\ Known' = Known
  BY <1>1, SameOutside DEF Known
<1>3. out = <<>> /\ out' = <<>> /\ TreeInv
  BY <1>1 DEF BookInv, Shape, JobShape
<1>4. job \in Listing
  BY <1>1 DEF TypeInv, TypeJob, Job, Idle
<1>5. /\ job'.at = "list" /\ job'.dir = job.dir /\ job'.old = job.old /\ job'.depth = job.depth
      /\ job'.sum = job.sum /\ job'.todo = job.todo \ {c} /\ job'.live = job.live
  BY <1>1, <1>4 DEF Listing
<1>6. PICK frame \in Frame(c, job.depth + 1) : stack' = <<frame>>
  BY <1>1
<1>7. /\ Depths' = {1} /\ stack'[1] = frame /\ Bottom' = c /\ stack' # <<>>
      /\ FramesChained'
      /\ FoundDirs' \subseteq {c} \cap Dirs
      /\ Complete' => FramesKept' /\ NewKept'
      /\ job.depth + 1 = Len(c) => \A i \in Depths' : stack'[i].depth = Len(stack'[i].dir)
  BY <1>2, <1>3, <1>6, ScanBegins
<1>8. DOMAIN out' = {}
  BY <1>3, EmptySeq
<1>9. c \in job.live /\ c # <<>> /\ Front(c) = job.dir /\ c \notin job'.todo
  BY <1>1, <1>5, JobFacts DEF BookInv, Shape, JobShape
<1>10. JobShape'
  BY <1>1, <1>2, <1>3, <1>5, <1>7 DEF BookInv, Shape, JobShape, Find
<1>11. OutShape'
  BY <1>1, <1>2, <1>5, <1>7, <1>8, <1>9 DEF OutShape
<1>12. trust # "healing"
  BY <1>1 DEF BookInv, InScan
<1>13. ASSUME trust' = "full" PROVE FullInv' /\ NewInv'
  <2>1. trust = "full" /\ job.depth = Len(job.dir)
    BY <1>1, <1>13
  <2>2. Main /\ <<>> \in Known /\ ListClaim
    <3>1. ~InScan
      BY <1>1 DEF InScan
    <3> QED
      BY <2>1, <3>1 DEF BookInv, FullInv
  <2>3. OnItsWay' = OnItsWay
    BY <1>1 DEF OnItsWay, watcher
  <2>4. \A p : Held(p)' = Held(p) /\ Delta(p) = 0 /\ Delta(p)' = 0
    BY <1>1, <1>5 DEF Held, Delta, Raised
  <2>5. Main'
    BY <1>2, <2>2, <2>3, <2>4, SameTable
  <2>6. ~InScan' /\ PurgeClaim' /\ Raised' = {} /\ Fresh' = Known /\ SweepClaim' /\ RootKept'
    BY <1>2, <1>5 DEF InScan, PurgeClaim, Raised, Fresh, SweepClaim, RootKept
  <2>7. Dirs' = Dirs /\ \A p : Missing(p)' = Missing(p) /\ Children(p)' = Children(p)
    BY <1>2, SameDisk
  <2>8. ListClaim'
    <3>1. Counted' = Counted
      BY <1>1, <1>5, <1>7, <1>9 DEF Counted
    <3>2. Children(job.dir)' = Children(job.dir)
      BY <1>5, <2>7
    <3> QED
      BY <1>1, <1>2, <1>5, <2>2, <2>3, <2>7, <3>1, <3>2 DEF ListClaim
  <2>9. ASSUME NEW p \in FoundDirs', NEW e \in Path, IsUnder(p, e) PROVE ~Missing(e)
    BY <1>3, <1>7, <2>9, DirAbove DEF Missing
  <2>10. NoGap(DOMAIN out \cup FoundDirs \cup Raised)'
    BY <1>8, <2>6, <2>7, <2>9 DEF NoGap
  <2>11. FullInv'
    BY <1>2, <1>5, <2>1, <2>2, <2>5, <2>6, <2>8, <2>10 DEF FullInv
  <2>12. DOMAIN New' = Known /\ \A p \in Known : New'[p] = rows[p]
    BY <1>2, <1>8, <2>6, NewNext
  <2>13. ScanDepth'
    <3>1. DepthOK(New)'
      BY <2>2, <2>12 DEF Main, DepthOK, Known
    <3>2. Len(c) = job.depth + 1
      BY <1>9, <2>1, Parent
    <3> QED
      BY <1>7, <3>1, <3>2 DEF ScanDepth
  <2>14. Noticed(InNew)'
    <3>1. \A p \in FoundDirs' : ~Missing(p)
      BY <1>7, <2>9, Order, DiskFacts
    <3> QED
      BY <1>2, <2>5, <2>7, <2>12, <3>1 DEF InNew, Main, Noticed
  <2> QED
    BY <1>7, <2>6, <2>11, <2>13, <2>14 DEF NewInv
<1> QED
  BY <1>1, <1>2, <1>7, <1>10, <1>11, <1>12, <1>13 DEF BookInv, Shape

\* A frame is put on the stack, and the one below it gives up one of its children.
LEMMA Pushed ==
  ASSUME TypeInv, stack # <<>>, NEW frame \in FrameType, NEW above \in FrameType,
         stack' = <<frame, above>> \o Tail(stack)
  PROVE  /\ Len(stack') = Len(stack) + 1 /\ stack' # <<>>
         /\ stack'[1] = frame /\ stack'[2] = above
         /\ \A i \in Depths' : i \in Nat /\ i > 0 /\ (i > 2 => i - 1 \in Depths /\ i - 1 > 1 /\ stack'[i] = stack[i - 1])
         /\ \A i \in Depths : i > 1 => i + 1 \in Depths' /\ stack'[i + 1] = stack[i]
         /\ 1 \in Depths' /\ 2 \in Depths'
         /\ above.dir = Top.dir => Bottom' = Bottom
<1>1. /\ stack \in Seq(FrameType) /\ Len(stack) \in Nat /\ Len(stack) > 0
      /\ Tail(stack) \in Seq(FrameType) /\ Len(Tail(stack)) = Len(stack) - 1
      /\ \A i \in 1..Len(Tail(stack)) : Tail(stack)[i] = stack[i + 1]
      /\ Top = stack[1]
  BY FrameFacts, EmptySeq, HeadTailProperties DEF Top
<1> DEFINE s == <<frame, above>>
           t == Tail(stack)
<1>2. s \in Seq(FrameType) /\ Len(s) = 2 /\ s[1] = frame /\ s[2] = above
  OBVIOUS
<1> HIDE DEF s
<1>3. t \in Seq(FrameType) /\ Len(t) = Len(stack) - 1 /\ stack' = s \o t
      /\ \A i \in 1..Len(t) : t[i] = stack[i + 1]
  BY <1>1 DEF s
<1> HIDE DEF t
<1>4. /\ Len(stack') = Len(s) + Len(t)
      /\ \A i \in 1..Len(s) + Len(t) : stack'[i] = IF i <= Len(s) THEN s[i] ELSE t[i - Len(s)]
  BY <1>2, <1>3, ConcatProperties
<1>5. Len(stack') = Len(stack) + 1 /\ stack'[1] = frame /\ stack'[2] = above
  BY <1>1, <1>2, <1>3, <1>4
<1>6. Depths = 1..Len(stack) /\ Depths' = 1..(Len(stack) + 1)
  BY <1>5 DEF Depths
<1>7. ASSUME NEW i \in Depths', i > 2
      PROVE  i - 1 \in Depths /\ i - 1 > 1 /\ stack'[i] = stack[i - 1]
  <2>1. i - 2 \in 1..Len(t) /\ i \in 1..Len(s) + Len(t) /\ ~(i <= Len(s)) /\ (i - 2) + 1 = i - 1
    BY <1>1, <1>2, <1>3, <1>6, <1>7
  <2>2. stack'[i] = t[i - 2] /\ t[i - 2] = stack[(i - 2) + 1]
    BY <1>2, <1>3, <1>4, <2>1
  <2> QED
    BY <1>1, <1>6, <1>7, <2>1, <2>2
<1>8. ASSUME NEW i \in Depths, i > 1
      PROVE  i + 1 \in Depths' /\ stack'[i + 1] = stack[i]
  <2>1. i + 1 \in Depths' /\ i + 1 > 2 /\ (i + 1) - 1 = i
    BY <1>1, <1>6, <1>8
  <2> QED
    BY <1>7, <2>1
<1>9. above.dir = Top.dir => Bottom' = Bottom
  <2>1. CASE Len(stack) = 1
    BY <1>1, <1>5, <2>1 DEF Bottom
  <2>2. CASE Len(stack) # 1
    <3>1. Len(stack) \in Depths /\ Len(stack) > 1
      BY <1>1, <1>6, <2>2
    <3> QED
      BY <1>5, <1>8, <3>1 DEF Bottom
  <2> QED
    BY <2>1, <2>2
<1>10. stack' # <<>>
  BY <1>1, <1>5, EmptySeq
<1> QED
  BY <1>1, <1>5, <1>6, <1>7, <1>8, <1>9, <1>10

\* The innermost frame is taken off, and the one below it takes its result.
LEMMA Popped ==
  ASSUME TypeInv, Len(stack) > 1, NEW above \in FrameType,
         stack' = <<above>> \o Tail(Tail(stack))
  PROVE  /\ Len(stack') = Len(stack) - 1 /\ stack' # <<>> /\ stack # <<>>
         /\ stack'[1] = above
         /\ \A i \in Depths' : i \in Nat /\ i > 0 /\ (i > 1 => i + 1 \in Depths /\ i + 1 > 2 /\ stack'[i] = stack[i + 1])
         /\ \A i \in Depths : i \in Nat /\ i > 0 /\ (i > 2 => i - 1 \in Depths' /\ i - 1 > 1 /\ stack'[i - 1] = stack[i])
         /\ 1 \in Depths /\ 2 \in Depths /\ 1 \in Depths'
         /\ above.dir = stack[2].dir => Bottom' = Bottom
<1>1. stack \in Seq(FrameType) /\ Len(stack) \in Nat /\ stack # <<>> /\ Len(stack) > 1
  BY FrameFacts, EmptySeq
<1>2. /\ Tail(stack) \in Seq(FrameType) /\ Len(Tail(stack)) = Len(stack) - 1
      /\ \A i \in 1..Len(Tail(stack)) : Tail(stack)[i] = stack[i + 1]
  BY <1>1, HeadTailProperties
<1> DEFINE r == Tail(stack)
<1>3. r \in Seq(FrameType) /\ Len(r) = Len(stack) - 1
      /\ \A i \in 1..Len(r) : r[i] = stack[i + 1]
  BY <1>2
<1> HIDE DEF r
<1>4. r # <<>>
  BY <1>1, <1>3, EmptySeq
<1> DEFINE s == <<above>>
           t == Tail(r)
<1>5. s \in Seq(FrameType) /\ Len(s) = 1 /\ s[1] = above
  OBVIOUS
<1> HIDE DEF s
<1>6. t \in Seq(FrameType) /\ Len(t) = Len(stack) - 2 /\ stack' = s \o t
      /\ \A i \in 1..Len(t) : t[i] = stack[i + 2]
  <2>1. /\ t \in Seq(FrameType) /\ Len(t) = Len(r) - 1
        /\ \A i \in 1..Len(t) : t[i] = r[i + 1]
    BY <1>3, <1>4, HeadTailProperties
  <2> HIDE DEF t
  <2>2. ASSUME NEW i \in 1..Len(t) PROVE t[i] = stack[i + 2]
    <3>1. i + 1 \in 1..Len(r) /\ (i + 1) + 1 = i + 2
      BY <1>1, <1>3, <2>1
    <3>2. r[i + 1] = stack[(i + 1) + 1]
      BY <1>3, <3>1
    <3> QED
      BY <2>1, <3>1, <3>2
  <2>3. stack' = s \o t
    BY DEF s, t, r
  <2>4. Len(t) = Len(stack) - 2
    BY ONLY <1>1, <1>3, <2>1
  <2> QED
    BY ONLY <2>1, <2>2, <2>3, <2>4
<1> HIDE DEF t
<1>7. /\ Len(stack') = Len(s) + Len(t)
      /\ \A i \in 1..Len(s) + Len(t) : stack'[i] = IF i <= Len(s) THEN s[i] ELSE t[i - Len(s)]
  BY <1>5, <1>6, ConcatProperties
<1>8. Len(stack') = Len(stack) - 1 /\ stack'[1] = above
  BY <1>1, <1>5, <1>6, <1>7
<1>9. Depths = 1..Len(stack) /\ Depths' = 1..(Len(stack) - 1)
  BY <1>8 DEF Depths
<1>10. ASSUME NEW i \in Depths', i > 1
       PROVE  i + 1 \in Depths /\ i + 1 > 2 /\ stack'[i] = stack[i + 1]
  <2>1. i - 1 \in 1..Len(t) /\ i \in 1..Len(s) + Len(t) /\ ~(i <= Len(s)) /\ (i - 1) + 2 = i + 1
    BY <1>1, <1>5, <1>6, <1>9, <1>10
  <2>2. stack'[i] = t[i - 1] /\ t[i - 1] = stack[(i - 1) + 2]
    BY <1>5, <1>6, <1>7, <2>1
  <2>3. i + 1 \in Depths /\ i + 1 > 2
    BY ONLY <1>1, <1>9, <1>10
  <2> QED
    BY ONLY <2>1, <2>2, <2>3
<1>11. ASSUME NEW i \in Depths, i > 2
       PROVE  i - 1 \in Depths' /\ i - 1 > 1 /\ stack'[i - 1] = stack[i]
  <2>1. i - 1 \in Depths' /\ i - 1 > 1 /\ (i - 1) + 1 = i
    BY <1>1, <1>9, <1>11
  <2> QED
    BY <1>10, <2>1
<1>12. above.dir = stack[2].dir => Bottom' = Bottom
  <2>1. CASE Len(stack) = 2
    BY <1>1, <1>8, <2>1 DEF Bottom
  <2>2. CASE Len(stack) # 2
    <3>1. Len(stack) \in Depths /\ Len(stack) > 2
      <4>1. Len(stack) > 2
        <5> DEFINE n == Len(stack)
        <5>1. n \in Nat /\ n > 1 /\ n # 2
          BY <1>1, <2>2
        <5> HIDE DEF n
        <5>2. n > 2
          BY ONLY <5>1
        <5> QED
          BY ONLY <5>2 DEF n
      <4>2. Len(stack) \in Depths
        BY ONLY <1>1, <1>9
      <4> QED
        BY <4>1, <4>2
    <3> QED
      BY <1>8, <1>11, <3>1 DEF Bottom
  <2> QED
    BY <2>1, <2>2
<1>13. stack' # <<>>
  BY <1>1, <1>8, EmptySeq
<1> QED
  BY <1>1, <1>8, <1>9, <1>10, <1>11, <1>12, <1>13, SMTT(20)

\* The scan goes down into a child.
LEMMA DescendStep ==
  ASSUME TypeInv, TypeInv', BookInv, NEW c \in Path, Descend(c)
  PROVE  BookInv'
<1> DEFINE above == [Top EXCEPT !.todo = @ \ {c}]
<1>1. /\ stack # <<>> /\ c \in Top.todo
      /\ \E frame \in Frame(c, Top.depth + 1) : stack' = <<frame, above>> \o Tail(stack)
      /\ UNCHANGED <<disk, watcher, rows, queue, job, out, trust>>
  BY DEF Descend
<1>2. own' = own /\ NoRenames' /\ TreeInv' /\ rows' = rows /\ Known' = Known /\ job' = job
      /\ out' = out /\ trust' = trust /\ OnItsWay' = OnItsWay
  BY <1>1, SameOutside DEF Known, OnItsWay, watcher
<1>3. JobShape /\ FramesChained /\ OutShape /\ TreeInv
  BY DEF BookInv, Shape
<1>4. PICK frame \in Frame(c, Top.depth + 1) : stack' = <<frame, above>> \o Tail(stack)
  BY <1>1
<1>5. /\ frame.dir = c /\ frame.depth = Top.depth + 1 /\ frame.found \in BOOLEAN
      /\ frame.found => c \in Dirs /\ frame.todo = Children(c) /\ frame.sum = own[c]
      /\ ~frame.found => frame.todo = {} /\ frame.sum = 0
      /\ ~frame.found /\ frame.complete => c \notin Dirs
  BY FrameIs
<1>6. /\ Top \in FrameType /\ Top = stack[1] /\ 1 \in Depths
      /\ above.dir = Top.dir /\ above.todo = Top.todo \ {c} /\ above.sum = Top.sum
      /\ above.depth = Top.depth /\ above.found = Top.found /\ above.complete = Top.complete
      /\ above \in FrameType /\ frame \in FrameType
  <2>1. Top \in FrameType /\ Top = stack[1] /\ 1 \in Depths
    BY <1>1, FrameFacts
  <2>2. Top.depth + 1 \in Int /\ Top.todo \ {c} \in SUBSET Path
    BY <2>1 DEF FrameType
  <2>3. frame \in FrameType
    BY <2>2, FrameIsTyped DEF TypeInv
  <2> QED
    BY <2>1, <2>2, <2>3 DEF FrameType
<1>7. /\ stack' # <<>>
      /\ stack'[1] = frame /\ stack'[2] = above
      /\ \A i \in Depths' : i \in Nat /\ i > 0 /\ (i > 2 => i - 1 \in Depths /\ i - 1 > 1 /\ stack'[i] = stack[i - 1])
      /\ \A i \in Depths : i > 1 => i + 1 \in Depths' /\ stack'[i + 1] = stack[i]
      /\ 1 \in Depths' /\ 2 \in Depths' /\ Bottom' = Bottom
  BY <1>1, <1>4, <1>6, Pushed, ZenonT(60)
<1> HIDE DEF above
<1>8. \A i \in Depths : i \in Nat /\ i > 0
  BY FrameFacts DEF Depths
<1>9. ASSUME NEW i \in Depths
      PROVE  /\ i + 1 \in Depths' /\ stack'[i + 1].dir = stack[i].dir
             /\ stack'[i + 1].depth = stack[i].depth /\ stack'[i + 1].sum = stack[i].sum
             /\ stack'[i + 1].found = stack[i].found /\ stack'[i + 1].complete = stack[i].complete
             /\ stack'[i + 1].todo = IF i = 1 THEN stack[1].todo \ {c} ELSE stack[i].todo
  <2>1. CASE i = 1
    <3>1. i + 1 = 2
      BY <2>1
    <3> QED
      BY <1>6, <1>7, <2>1, <3>1
  <2>2. CASE i # 1
    <3>1. i > 1
      BY <1>8, <2>2
    <3> QED
      BY <1>7, <2>2, <3>1
  <2> QED
    BY <2>1, <2>2
<1>10. ASSUME NEW i \in Depths', i # 1
       PROVE  i - 1 \in Depths /\ i = (i - 1) + 1
  <2>1. i \in Nat /\ i > 0 /\ i = (i - 1) + 1
    BY <1>7
  <2>2. CASE i = 2
    <3>1. i - 1 = 1
      BY <2>2
    <3> QED
      BY <1>6, <2>1, <3>1
  <2>3. CASE i # 2
    <3>1. i > 2
      BY <1>10, <2>1, <2>3
    <3> QED
      BY <1>7, <2>1, <3>1
  <2> QED
    BY <2>2, <2>3
<1>11. Top.found /\ c # <<>> /\ Front(c) = Top.dir /\ Top.dir \in Path
       /\ IsUnder(c, Top.dir) /\ c # Top.dir /\ Len(c) = Len(Top.dir) + 1
       /\ \A d \in Path : IsUnder(c, d) /\ c # d => IsUnder(Top.dir, d)
  <2>1. Top.found /\ c # <<>> /\ Front(c) = Top.dir /\ Top.found \in BOOLEAN
    BY <1>1, <1>3, <1>6 DEF FramesChained, FrameType
  <2> QED
    BY <2>1, Parent
<1>12. FramesChained'
  <2>1. ASSUME NEW i \in Depths'
        PROVE  /\ \A x \in stack'[i].todo : x # <<>> /\ Front(x) = stack'[i].dir
               /\ ~stack'[i].found => stack'[i].todo = {} /\ stack'[i].sum = 0
    <3>1. CASE i = 1
      BY <1>5, <1>7, <3>1, DiskFacts
    <3>2. CASE i # 1
      <4> DEFINE j == i - 1
      <4>1. j \in Depths /\ i = j + 1
        BY <1>10, <3>2
      <4> HIDE DEF j
      <4> QED
        BY <1>3, <1>9, <4>1 DEF FramesChained
    <3> QED
      BY <3>1, <3>2
  <2>2. ASSUME NEW i \in Depths', i + 1 \in Depths'
        PROVE  /\ stack'[i].dir # <<>> /\ Front(stack'[i].dir) = stack'[i + 1].dir
               /\ stack'[i].dir \notin stack'[i + 1].todo
               /\ stack'[i + 1].found
    <3>1. CASE i = 1
      <4>1. i + 1 = 2
        BY <3>1
      <4> QED
        BY <1>5, <1>6, <1>7, <1>11, <3>1, <4>1
    <3>2. CASE i # 1
      <4> DEFINE j == i - 1
      <4>1. j \in Depths /\ i = j + 1 /\ i \in Nat /\ i + 1 # 1 /\ (i + 1) - 1 = i
        BY <1>7, <1>10, <3>2
      <4>2. j + 1 \in Depths
        BY <1>10, <2>2, <4>1
      <4> HIDE DEF j
      <4>3. /\ stack[j].dir # <<>> /\ Front(stack[j].dir) = stack[j + 1].dir
            /\ stack[j].dir \notin stack[j + 1].todo
            /\ stack[j + 1].found
        BY <1>3, <4>1, <4>2 DEF FramesChained
      <4>4. stack'[i].dir = stack[j].dir /\ stack'[i + 1].dir = stack[i].dir
            /\ stack'[i + 1].found = stack[i].found /\ stack'[i + 1].todo \subseteq stack[i].todo
        BY <1>9, <4>1, <4>2
      <4> QED
        BY <4>1, <4>3, <4>4
    <3> QED
      BY <3>1, <3>2
  <2>3. ASSUME NEW i \in Depths', NEW j \in Depths', i < j
        PROVE  IsUnder(stack'[i].dir, stack'[j].dir) /\ stack'[i].dir # stack'[j].dir
    <3> DEFINE k == j - 1
    <3>1. k \in Depths /\ j = k + 1 /\ i \in Nat /\ j \in Nat /\ stack'[j].dir = stack[k].dir
          /\ stack[k].dir \in Path
      <4>1. i \in Nat /\ j \in Nat /\ i > 0 /\ j # 1
        BY <1>7, <2>3
      <4>2. k \in Depths /\ j = k + 1
        BY <1>10, <4>1
      <4> HIDE DEF k
      <4>3. stack'[j].dir = stack[k].dir
        BY <1>9, <4>2
      <4> QED
        BY <4>1, <4>2, <4>3, FrameFacts
    <3> HIDE DEF k
    <3>2. CASE i = 1
      <4>1. IsUnder(Top.dir, stack[k].dir)
        <5>1. CASE k = 1
          BY <1>6, <1>11, <5>1, Order
        <5>2. CASE k # 1
          <6>1. 1 < k
            BY <1>8, <3>1, <5>2
          <6> QED
            BY <1>3, <1>6, <3>1, <6>1 DEF FramesChained
        <5> QED
          BY <5>1, <5>2
      <4>2. IsUnder(c, stack[k].dir) /\ c # stack[k].dir
        BY <1>11, <3>1, <4>1, Order
      <4> QED
        BY <1>5, <1>7, <3>1, <3>2, <4>2
    <3>3. CASE i # 1
      <4> DEFINE h == i - 1
      <4>1. h \in Depths /\ i = h + 1
        BY <1>10, <3>3
      <4> HIDE DEF h
      <4>2. stack'[i].dir = stack[h].dir /\ h < k
        BY <1>8, <1>9, <2>3, <3>1, <4>1
      <4> QED
        BY <1>3, <3>1, <4>1, <4>2 DEF FramesChained
    <3> QED
      BY <3>2, <3>3
  <2> QED
    BY <2>1, <2>2, <2>3 DEF FramesChained
<1>13. JobShape'
  BY <1>1, <1>2, <1>3, <1>7 DEF JobShape, Find
<1>14. OutShape'
  BY <1>1, <1>2, <1>3, <1>7 DEF OutShape
<1>15. /\ FoundDirs \subseteq FoundDirs' /\ FoundDirs' \subseteq FoundDirs \cup ({c} \cap Dirs)
       /\ Top.dir \in FoundDirs
  <2>1. ASSUME NEW i \in Depths, stack[i].found PROVE stack[i].dir \in FoundDirs'
    <3>1. i + 1 \in Depths' /\ stack'[i + 1].dir = stack[i].dir /\ stack'[i + 1].found
      BY <1>9, <2>1
    <3> QED
      BY <3>1 DEF FoundDirs
  <2>2. ASSUME NEW i \in Depths', stack'[i].found
        PROVE  stack'[i].dir \in FoundDirs \cup ({c} \cap Dirs)
    <3>1. CASE i = 1
      BY <1>5, <1>7, <2>2, <3>1
    <3>2. CASE i # 1
      <4> DEFINE j == i - 1
      <4>1. j \in Depths /\ i = j + 1
        BY <1>10, <3>2
      <4> HIDE DEF j
      <4>2. stack'[i].dir = stack[j].dir /\ stack[j].found
        BY <1>9, <2>2, <4>1
      <4> QED
        BY <4>1, <4>2 DEF FoundDirs
    <3> QED
      BY <3>1, <3>2
  <2> QED
    BY <1>6, <1>11, <2>1, <2>2 DEF FoundDirs
<1>16. Fresh' = Fresh /\ New' = New /\ InScan' = InScan /\ Untouched' = Untouched /\ Raised' = Raised
       /\ \A p : Held(p)' = Held(p) /\ Delta(p)' = Delta(p)
  <2>1. Fresh' = Fresh
    BY <1>2 DEF Fresh
  <2>2. Raised' = Raised
    BY <1>2 DEF Raised
  <2> QED
    BY <1>2, <2>1, <2>2 DEF New, InScan, Untouched, Held, Delta
<1>17. Dirs' = Dirs /\ \A p : Missing(p)' = Missing(p) /\ Children(p)' = Children(p)
  BY <1>2, SameDisk
<1>18. ASSUME NEW e \in Path, IsUnder(c, e), c \in Dirs PROVE ~Missing(e)
  BY <1>3, <1>18, DirAbove DEF Missing
<1>19. ASSUME trust = "full" PROVE FullInv'
  <2>1. FullInv
    BY <1>19 DEF BookInv
  <2>2. Main => Main'
    BY <1>2, <1>16, SameTable
  <2>3. ~InScan => NoGap(DOMAIN out \cup FoundDirs \cup Raised)'
    BY <1>2, <1>15, <1>16, <1>17, <1>18, <2>1 DEF FullInv, NoGap
  <2>4. ListClaim'
    <3>1. Counted' = Counted
      BY <1>1, <1>2, <1>7 DEF Counted
    <3>2. Children(job.dir)' = Children(job.dir)
      BY <1>2, <1>17
    <3> QED
      BY <1>2, <1>17, <2>1, <3>1, <3>2 DEF FullInv, ListClaim
  <2>5. PurgeClaim'
    BY <1>1, <1>2, <1>3 DEF JobShape, PurgeClaim
  <2> QED
    BY <1>1, <1>2, <1>16, <2>1, <2>2, <2>3, <2>4, <2>5 DEF FullInv
<1>20. ASSUME trust \in {"full", "healing"} PROVE NewInv'
  <2>1. NewInv
    BY <1>20 DEF BookInv
  <2>2. ScanDepth'
    <3>1. SUFFICES ASSUME NEW i \in Depths' PROVE stack'[i].depth = Len(stack'[i].dir)
      BY <1>16, <2>1 DEF NewInv, ScanDepth, DepthOK
    <3>2. \A j \in Depths : stack[j].depth = Len(stack[j].dir)
      BY <2>1 DEF NewInv, ScanDepth
    <3>3. CASE i = 1
      BY <1>5, <1>6, <1>7, <1>11, <3>2, <3>3
    <3>4. CASE i # 1
      <4> DEFINE j == i - 1
      <4>1. j \in Depths /\ i = j + 1
        BY <1>10, <3>4
      <4> HIDE DEF j
      <4> QED
        BY <1>9, <3>2, <4>1
    <3> QED
      BY <3>3, <3>4
  <2>3. InNew \subseteq InNew' /\ InNew' \subseteq InNew \cup ({c} \cap Dirs)
    BY <1>15, <1>16 DEF InNew
  <2>4. Noticed(InNew)'
    <3>1. c \in Dirs => ~Missing(c)
      BY <1>18, Order
    <3> QED
      BY <1>2, <1>16, <1>17, <2>1, <2>3, <3>1 DEF NewInv, Noticed
  <2>5. SweepClaim'
    BY <1>1, <1>2, <1>3 DEF JobShape, SweepClaim
  <2>6. ASSUME Complete' PROVE FramesKept' /\ NewKept' /\ RootKept'
    <3>1. Complete /\ frame.complete
      <4>1. \A i \in Depths : stack[i].complete
        BY <1>9, <2>6 DEF Complete
      <4> QED
        BY <1>1, <1>7, <2>6, <4>1 DEF Complete
    <3>2. FramesKept /\ NewKept /\ RootKept
      BY <2>1, <3>1 DEF NewInv
    <3>3. frame.found <=> c \in Dirs
      BY <1>5, <3>1
    <3>4. ASSUME NEW i \in Depths' PROVE FrameClaim(i)'
      <4>1. CASE i = 1
        <5>1. frame.found => Added(1)' = {}
          BY <1>5, <1>7, <1>17 DEF Added
        <5>2. SumOf(New', {}) = 0
          BY SumEmpty
        <5>3. c \in Dirs => own[c] \in Nat /\ own[c] = own[c] + 0
          BY DiskFacts
        <5> QED
          BY <1>2, <1>5, <1>7, <1>17, <3>3, <4>1, <5>1, <5>2, <5>3 DEF FrameClaim
      <4>2. CASE i # 1
        <5> DEFINE j == i - 1
        <5>1. j \in Depths /\ i = j + 1
          BY <1>10, <4>2
        <5> HIDE DEF j
        <5>2. /\ stack'[i].dir = stack[j].dir /\ stack'[i].sum = stack[j].sum
              /\ stack'[i].found = stack[j].found
              /\ stack'[i].todo = IF j = 1 THEN stack[1].todo \ {c} ELSE stack[j].todo
          BY <1>9, <5>1
        <5>3. Added(i)' = Added(j)
          <6>1. CASE j = 1
            <7>1. i = 2 /\ i - 1 = 1
              BY <5>1, <6>1
            <7> QED
              BY <1>1, <1>5, <1>6, <1>7, <1>17, <5>2, <6>1, <7>1 DEF Added
          <6>2. CASE j # 1
            <7>1. i - 1 # 1 /\ i - 1 = j /\ j \in Depths /\ j \in Nat /\ i - 1 = (j - 1) + 1
              BY <1>8, <5>1, <6>2
            <7>2. j - 1 \in Depths
              <8>1. j \in Depths /\ 1 <= j - 1 /\ j - 1 <= j
                BY <1>8, <5>1, <6>2
              <8> QED
                BY <8>1, FrameFacts DEF Depths
            <7>3. stack'[i - 1].dir = stack[j - 1].dir
              BY <1>9, <7>1, <7>2
            <7> QED
              BY <1>17, <4>2, <5>2, <6>2, <7>3 DEF Added
          <6> QED
            BY <6>1, <6>2
        <5>4. FrameClaim(j)
          BY <3>2, <5>1 DEF FramesKept
        <5> QED
          BY <1>2, <1>16, <1>17, <5>2, <5>3, <5>4 DEF FrameClaim
      <4> QED
        BY <4>1, <4>2
    <3>5. ASSUME NEW q \in Dirs \cap DOMAIN New, Visited(q)' PROVE Visited(q)
      <4>1. q # c /\ \A x \in frame.todo : ~IsUnder(q, x)
        BY <1>5, <1>7, <3>5 DEF Visited
      <4>2. ~IsUnder(q, c)
        <5>1. SUFFICES ASSUME IsUnder(q, c) PROVE FALSE
          OBVIOUS
        <5>2. c \in Dirs /\ \E x \in Children(c) : IsUnder(q, x)
          BY <1>3, <4>1, <5>1, DirAbove
        <5> QED
          BY <1>5, <3>3, <4>1, <5>2
      <4>3. ASSUME NEW i \in Depths
            PROVE  q # stack[i].dir /\ \A x \in stack[i].todo : ~IsUnder(q, x)
        <5>1. q # stack'[i + 1].dir /\ \A x \in stack'[i + 1].todo : ~IsUnder(q, x)
          BY <1>9, <3>5 DEF Visited
        <5> QED
          BY <1>9, <4>2, <5>1
      <4> QED
        BY <4>3 DEF Visited
    <3>6. NewKept'
      <4>1. SUFFICES ASSUME NEW q \in Dirs \cap DOMAIN New, IsUnder(q, Bottom), Visited(q)',
                            q \notin OnItsWay
                     PROVE  Balanced(New, q, 0)
        BY <1>2, <1>7, <1>16, <1>17 DEF NewKept, Balanced
      <4> QED
        BY <3>2, <3>5, <4>1 DEF NewKept
    <3>7. RootKept'
      <4>1. SUFFICES ASSUME job.at = "root", NEW q \in InNew', NEW e \in Path, IsUnder(q, e)
                     PROVE  e \in InNew'
        BY <1>2 DEF RootKept
      <4>2. CASE q \in InNew
        BY <2>3, <3>2, <4>1, <4>2 DEF RootKept
      <4>3. CASE q \notin InNew
        <5>1. q = c /\ Top.dir \in InNew
          BY <1>15, <2>3, <4>3 DEF InNew
        <5> QED
          BY <1>11, <2>3, <3>2, <4>1, <5>1 DEF RootKept
      <4> QED
        BY <4>2, <4>3
    <3> QED
      BY <3>4, <3>6, <3>7 DEF FramesKept
  <2> QED
    BY <2>2, <2>4, <2>5, <2>6 DEF NewInv
<1>21. trust = "healing" => InScan'
  BY <1>16 DEF BookInv
<1> QED
  BY <1>2, <1>12, <1>13, <1>14, <1>19, <1>20, <1>21 DEF BookInv, Shape

\* A batch of rows is written.
LEMMA Upserted ==
  ASSUME NEW new, Upsert(new)
  PROVE  /\ Known' = Known \cup DOMAIN new
         /\ \A p \in DOMAIN new : rows'[p] = new[p]
         /\ \A p \in Known \ DOMAIN new : rows'[p] = rows[p]
BY DEF Upsert, Known

\* Rows below a directory without a row do not touch the books of any other.
LEMMA NotAnchored ==
  ASSUME TypeInv, TypeInv', own' = own, NEW new, NEW b \in Path, b \notin Known, Upsert(new),
         \A p \in DOMAIN new : p \in Path /\ IsUnder(p, b) /\ p # b
  PROVE  /\ b \notin Known'
         /\ \A d \in Path : ~IsUnder(d, b) =>
              /\ Kids(rows', d) = Kids(rows, d)
              /\ \A p \in Kids(rows, d) : rows'[p] = rows[p]
              /\ d \in Known' => d \in Known /\ rows'[d] = rows[d]
              /\ Anchored(rows', d) => Anchored(rows, d)
              /\ \A delta : d \in Known /\ Balanced(rows, d, delta) => Balanced(rows', d, delta)
         /\ \A d \in Path : IsUnder(d, b) => ~Anchored(rows', d)
<1>1. /\ Known' = Known \cup DOMAIN new /\ b \notin Known'
      /\ \A p \in Known \ DOMAIN new : rows'[p] = rows[p]
      /\ DOMAIN rows' = Known' /\ DOMAIN rows = Known /\ Known \subseteq Path
  BY Upserted, RowFacts DEF Known
<1>2. ASSUME NEW d \in Path, ~IsUnder(d, b), NEW p \in DOMAIN new PROVE p # <<>> => Front(p) # d
  BY <1>2, Parent
<1>3. ASSUME NEW d \in Path, ~IsUnder(d, b)
      PROVE  /\ Kids(rows', d) = Kids(rows, d)
             /\ \A p \in Kids(rows, d) : rows'[p] = rows[p]
             /\ d \in Known' => d \in Known /\ rows'[d] = rows[d]
             /\ Anchored(rows', d) => Anchored(rows, d)
             /\ \A delta : d \in Known /\ Balanced(rows, d, delta) => Balanced(rows', d, delta)
  <2>1. Kids(rows', d) = Kids(rows, d) /\ \A p \in Kids(rows, d) : rows'[p] = rows[p]
    BY <1>1, <1>2, <1>3 DEF Kids
  <2>2. d \in Known' => d \in Known /\ rows'[d] = rows[d]
    BY <1>1, <1>3
  <2>3. Anchored(rows', d) => Anchored(rows, d)
    <3>1. ASSUME NEW q \in DOMAIN new, IsUnder(d, q) PROVE FALSE
      BY <1>3, <3>1, Order
    <3> QED
      BY <1>1, <3>1 DEF Anchored
  <2>4. ASSUME NEW delta, d \in Known, Balanced(rows, d, delta) PROVE Balanced(rows', d, delta)
    <3>1. Kids(rows, d) = Children(d) /\ rows[d].total + delta = own[d] + SumOf(rows, Children(d))
      BY <2>4 DEF Balanced
    <3>2. SumOf(rows', Children(d)) = SumOf(rows, Children(d))
      BY <2>1, <3>1, SumSame
    <3> QED
      BY <1>1, <2>1, <2>2, <2>4, <3>1, <3>2 DEF Balanced
  <2> QED
    BY <2>1, <2>2, <2>3, <2>4
<1>4. \A d \in Path : IsUnder(d, b) => ~Anchored(rows', d)
  BY <1>1 DEF Anchored
<1> QED
  BY <1>1, <1>3, <1>4

\* A full batch is written in the middle of a scan.
LEMMA FlushChunkStep ==
  ASSUME TypeInv, TypeInv', BookInv, FlushChunk
  PROVE  BookInv'
<1>1. /\ stack # <<>> /\ Upsert(out) /\ out' = <<>>
      /\ UNCHANGED <<disk, watcher, queue, job, stack, trust>>
  BY DEF FlushChunk
<1>2. own' = own /\ NoRenames' /\ TreeInv' /\ job' = job /\ stack' = stack
      /\ trust' = trust /\ OnItsWay' = OnItsWay
  BY <1>1, SameOutside DEF OnItsWay, watcher
<1>3. JobShape /\ FramesChained /\ OutShape /\ TreeInv /\ job.at \in {"list", "root"}
  BY <1>1 DEF BookInv, Shape, JobShape
<1>4. /\ Known' = Known \cup DOMAIN out
      /\ \A p \in DOMAIN out : rows'[p] = out[p]
      /\ \A p \in Known \ DOMAIN out : rows'[p] = rows[p]
      /\ DOMAIN out' = {} /\ DOMAIN rows' = Known' /\ DOMAIN rows = Known
      /\ Known \subseteq Path /\ DOMAIN out \subseteq Path
  <2>1. DOMAIN out' = {}
    BY <1>1, EmptySeq
  <2>2. DOMAIN rows' = Known' /\ DOMAIN rows = Known
    BY DEF Known
  <2> QED
    BY <1>1, <2>1, <2>2, Upserted, RowFacts
<1>5. Depths' = Depths /\ Bottom' = Bottom /\ FoundDirs' = FoundDirs /\ Bottom \in Path
  <2>1. Depths' = Depths
    BY <1>2 DEF Depths
  <2> QED
    BY <1>1, <1>2, <2>1, FrameFacts DEF Bottom, FoundDirs
<1>6. \A p \in DOMAIN out : IsUnder(p, Bottom) /\ p # Bottom /\ ~out[p].old
  BY <1>1, <1>3 DEF OutShape
<1>7. Fresh' = Fresh \cup DOMAIN out
  <2>1. CASE job.at = "list"
    BY <1>2, <1>4, <2>1 DEF Fresh
  <2>2. CASE job.at = "root"
    BY <1>2, <1>4, <1>6, <2>2 DEF Fresh
  <2> QED
    BY <1>3, <2>1, <2>2
<1>8. New' = New
  <2>1. DOMAIN New' = Fresh \cup DOMAIN out /\ \A p \in Fresh' : New'[p] = rows'[p]
    BY <1>4, <1>7, NewNext
  <2>2. DOMAIN New = Fresh \cup DOMAIN out /\ Fresh \subseteq Known
        /\ \A p \in DOMAIN New : New[p] = IF p \in DOMAIN out THEN out[p] ELSE rows[p]
    BY NewFacts
  <2>3. \A p \in DOMAIN New : New'[p] = New[p]
    BY <1>4, <1>7, <2>1, <2>2
  <2>4. New' = [p \in DOMAIN New' |-> New'[p]] /\ New = [p \in DOMAIN New |-> New[p]]
    <3>1. \A t, u : Over(t, u) = [p \in DOMAIN Over(t, u) |-> Over(t, u)[p]]
      BY DEF Over
    <3>2. \E t, u : New = Over(t, u)
      BY DEF New
    <3>3. \E t, u : New' = Over(t, u)
      BY DEF New
    <3> QED
      BY <3>1, <3>2, <3>3
  <2> QED
    BY <2>1, <2>2, <2>3, <2>4
<1>9. InNew' = InNew /\ InScan' = InScan /\ Raised' = Raised
      /\ \A p : Held(p)' = Held(p) /\ Delta(p)' = Delta(p)
  <2>1. Raised' = Raised
    BY <1>2 DEF Raised
  <2> QED
    BY <1>2, <1>5, <1>8, <2>1 DEF InNew, InScan, Held, Delta
<1>10. job.at = "list" =>
         /\ job.dir \in Path /\ Bottom # <<>> /\ Front(Bottom) = job.dir /\ Bottom \notin Known
         /\ ~IsUnder(job.dir, Bottom) /\ Bottom \in job.live \ job.todo
  BY <1>1, <1>3, <1>5, JobFacts, Parent DEF OutShape, JobShape
<1>11. job.at = "list" =>
         /\ Bottom \notin Known'
         /\ \A d \in Path : ~IsUnder(d, Bottom) =>
              /\ Kids(rows', d) = Kids(rows, d)
              /\ \A p \in Kids(rows, d) : rows'[p] = rows[p]
              /\ d \in Known' => d \in Known /\ rows'[d] = rows[d]
              /\ Anchored(rows', d) => Anchored(rows, d)
              /\ \A delta : d \in Known /\ Balanced(rows, d, delta) => Balanced(rows', d, delta)
         /\ \A d \in Path : IsUnder(d, Bottom) => ~Anchored(rows', d)
  BY <1>1, <1>2, <1>4, <1>5, <1>6, <1>10, NotAnchored
<1>12. JobShape'
  <2>1. job.at = "list" => Find(job.dir)' = Find(job.dir)
    BY <1>2, <1>4, <1>6, <1>10 DEF Find
  <2> QED
    BY <1>1, <1>2, <1>3, <2>1 DEF JobShape
<1>13. FramesChained' /\ OutShape'
  BY <1>1, <1>2, <1>3, <1>4, <1>5, <1>11 DEF FramesChained, OutShape
<1>14. Dirs' = Dirs /\ \A p : Missing(p)' = Missing(p) /\ Children(p)' = Children(p)
  BY <1>2, SameDisk
<1>15. ASSUME trust = "full" PROVE FullInv'
  <2>1. FullInv /\ NewInv
    BY <1>15 DEF BookInv
  <2>2. ~InScan => NoGap(DOMAIN out \cup FoundDirs \cup Raised)'
    BY <1>4, <1>5, <1>9, <1>14, <2>1 DEF FullInv, NoGap
  <2>3. ASSUME job.at = "list" PROVE Main'
    <3>1. ~InScan /\ Main
      BY <2>1, <2>3 DEF InScan, FullInv
    <3>2. DOMAIN New = Known' /\ \A p \in Known' : rows'[p] = New[p]
      <4>1. Fresh' = Known'
        BY <1>2, <2>3 DEF Fresh
      <4> QED
        BY <1>4, <1>8, <4>1, NewNext
    <3>3. DepthOK(rows)'
      BY <1>4, <2>1, <3>2 DEF NewInv, ScanDepth, DepthOK
    <3>4. NoGap(Known)'
      BY <1>4, <1>14, <2>1, <3>1 DEF FullInv, Main, NoGap
    <3>5. Noticed(Known)'
      BY <1>2, <1>9, <1>14, <2>1, <3>2 DEF NewInv, Noticed, InNew
    <3>6. BookKept'
      <4>1. SUFFICES ASSUME NEW d \in Dirs \cap Known', Anchored(rows', d), d \notin OnItsWay,
                            ~Held(d)
                     PROVE  Balanced(rows', d, Delta(d))
        BY <1>2, <1>9, <1>14 DEF BookKept, Balanced
      <4>2. d \in Path /\ ~IsUnder(d, Bottom)
        BY <1>11, <2>3, <4>1, DiskFacts
      <4>3. d \in Known /\ Anchored(rows, d)
        BY <1>11, <2>3, <4>1, <4>2
      <4>4. Balanced(rows, d, Delta(d))
        BY <3>1, <4>1, <4>3 DEF Main, BookKept
      <4> QED
        BY <1>11, <2>3, <4>2, <4>3, <4>4
    <3> QED
      BY <3>3, <3>4, <3>5, <3>6 DEF Main
  <2>4. ASSUME Untouched' PROVE Main'
    <3>1. job.at = "root" /\ \A p \in Known' : rows'[p].old
      BY <1>2, <2>4 DEF Untouched
    <3>2. DOMAIN out = {}
      BY <1>4, <1>6, <3>1
    <3>3. Known' = Known /\ rows' = rows
      <4>1. Known' = Known /\ \A p \in Known : rows'[p] = rows[p]
        BY <1>4, <3>2
      <4>2. rows \in [Known -> Row] /\ rows' \in [Known' -> Row]
        BY DEF TypeInv, TypeRows
      <4> QED
        BY <4>1, <4>2
    <3>4. Main
      BY <2>1, <3>1, <3>3 DEF FullInv, Untouched
    <3> QED
      BY <1>2, <1>9, <3>3, <3>4, SameTable
  <2>5. ListClaim'
    <3>1. SUFFICES ASSUME job.at = "list", job.dir \in Dirs, job.dir \notin OnItsWay
                   PROVE  /\ job.live = Children(job.dir)
                          /\ Counted' \subseteq Known'
                          /\ job.sum = own[job.dir] + SumOf(rows', Counted')
      <4>1. Children(job.dir)' = Children(job.dir)
        BY <1>2, <1>14
      <4> QED
        BY <1>2, <1>14, <4>1 DEF ListClaim
    <3>2. Counted' = Counted
      BY <1>1, <1>2, <1>5 DEF Counted
    <3>3. /\ job.live = Children(job.dir)
          /\ Counted \subseteq Known
          /\ job.sum = own[job.dir] + SumOf(rows, Counted)
      BY <2>1, <3>1 DEF FullInv, ListClaim
    <3>4. \A p \in Counted : p \in Kids(rows, job.dir)
      BY <1>3, <1>4, <3>1, <3>3 DEF Counted, Kids, JobShape
    <3>5. \A p \in Counted : rows'[p].total = rows[p].total
      BY <1>10, <1>11, <3>1, <3>4
    <3>6. SumOf(rows', Counted) = SumOf(rows, Counted)
      BY <3>5, SumSame
    <3> QED
      BY <1>4, <3>2, <3>3, <3>6
  <2>6. PurgeClaim'
    BY <1>2, <1>3 DEF PurgeClaim
  <2>7. ~InScan' => job.at = "list"
    BY <1>3, <1>9 DEF InScan
  <2> QED
    BY <1>2, <1>4, <1>9, <2>1, <2>2, <2>3, <2>4, <2>5, <2>6, <2>7 DEF FullInv
<1>16. ASSUME trust \in {"full", "healing"} PROVE NewInv'
  <2>1. NewInv
    BY <1>16 DEF BookInv
  <2>2. ScanDepth'
    BY <1>2, <1>5, <1>8, <2>1 DEF NewInv, ScanDepth
  <2>3. Noticed(InNew)'
    BY <1>2, <1>9, <1>14, <2>1 DEF NewInv, Noticed
  <2>4. SweepClaim'
    BY <1>2, <1>3 DEF SweepClaim
  <2>5. ASSUME Complete' PROVE FramesKept' /\ NewKept' /\ RootKept'
    <3>1. FramesKept /\ NewKept /\ RootKept
      BY <1>1, <1>2, <1>5, <2>1, <2>5 DEF NewInv, Complete
    <3>2. ASSUME NEW i \in Depths PROVE FrameClaim(i)'
      <4>1. FrameClaim(i)
        BY <3>1 DEF FramesKept
      <4>2. Added(i)' = Added(i) /\ Children(stack[i].dir)' = Children(stack[i].dir)
        BY <1>2, <1>14 DEF Added
      <4> QED
        BY <1>2, <1>8, <1>14, <4>1, <4>2 DEF FrameClaim
    <3>3. NewKept'
      <4>1. \A q : Visited(q)' = Visited(q)
        BY <1>2, <1>5 DEF Visited
      <4> QED
        BY <1>2, <1>5, <1>8, <1>14, <3>1, <4>1 DEF NewKept, Balanced
    <3>4. RootKept'
      BY <1>2, <1>9, <3>1 DEF RootKept
    <3> QED
      BY <1>5, <3>2, <3>3, <3>4 DEF FramesKept
  <2> QED
    BY <2>2, <2>3, <2>4, <2>5 DEF NewInv
<1>17. trust = "healing" => InScan'
  BY <1>9 DEF BookInv
<1> QED
  BY <1>2, <1>12, <1>13, <1>15, <1>16, <1>17 DEF BookInv, Shape

\* The frames are at and below the bottom, and none is for the directory that
\* the listing is of.
LEMMA AtBottom ==
  ASSUME TypeInv, Shape, NEW i \in Depths
  PROVE  /\ IsUnder(stack[i].dir, Bottom) /\ (i < Len(stack) => stack[i].dir # Bottom)
         /\ ~Held(stack[i].dir)
         /\ \A p \in Path : IsUnder(p, Bottom) => ~Held(p)
<1>1. stack # <<>> /\ i \in Nat /\ i <= Len(stack) /\ Len(stack) \in Depths /\ Len(stack) \in Nat
      /\ stack[i].dir \in Path /\ Bottom \in Path
  <2>1. i \in 1..Len(stack) /\ Len(stack) \in Nat
    BY FrameFacts DEF Depths
  <2>2. stack # <<>>
    BY <2>1, EmptySeq
  <2> QED
    BY <2>1, <2>2, FrameFacts
<1>2. IsUnder(stack[i].dir, Bottom) /\ (i < Len(stack) => stack[i].dir # Bottom)
  <2>1. CASE i = Len(stack)
    BY <1>1, <2>1, Order DEF Bottom
  <2>2. CASE i # Len(stack)
    <3>1. i < Len(stack)
      BY <1>1, <2>2
    <3> QED
      BY <1>1, <3>1 DEF Shape, FramesChained, Bottom
  <2> QED
    BY <2>1, <2>2
<1>3. ASSUME NEW p \in Path, IsUnder(p, Bottom), Held(p) PROVE FALSE
  <2>1. job.at = "list" /\ job.dir = p
    BY <1>1, <1>3 DEF Held, Shape, JobShape
  <2>2. Bottom # <<>> /\ Front(Bottom) = job.dir
    BY <1>1, <2>1 DEF Shape, OutShape, JobShape
  <2> QED
    BY <1>1, <1>3, <2>1, <2>2, Parent
<1> QED
  BY <1>1, <1>2, <1>3

\* The row of the innermost frame is measured if its listing was complete.
LEMMA MeasuredIs ==
  ASSUME NEW complete
  PROVE  /\ complete /\ Top.found =>
              /\ DOMAIN Measured(complete) = DOMAIN out \cup {Top.dir}
              /\ Measured(complete)[Top.dir] = NewRow(Top.sum, Top.depth)
              /\ \A p \in DOMAIN out : p # Top.dir => Measured(complete)[p] = out[p]
         /\ ~(complete /\ Top.found) => Measured(complete) = out
BY DEF Measured

\* What the innermost frame has added up, once its listing is through.
LEMMA TopMeasured ==
  ASSUME TypeInv, TreeInv, Shape, stack # <<>>, Top.todo = {}, FrameClaim(1), Noticed(InNew),
         Top.dir \in Dirs, Top.dir \notin OnItsWay
  PROVE  /\ Top.found /\ Children(Top.dir) \subseteq DOMAIN New
         /\ \A x \in InNew : x # <<>> /\ Front(x) = Top.dir => x \in Children(Top.dir)
         /\ Top.sum = own[Top.dir] + SumOf(New, Children(Top.dir))
<1>1. Top = stack[1] /\ 1 \in Depths /\ Top.dir \in Path /\ Top.found \in BOOLEAN
  BY FrameFacts
<1>2. Top.found
  BY <1>1 DEF FrameClaim
<1>3. Added(1) = Children(Top.dir)
  BY <1>1 DEF Added
<1>4. ASSUME NEW x \in InNew, x # <<>>, Front(x) = Top.dir PROVE x \in Children(Top.dir)
  <2>1. ~Held(Top.dir)
    BY <1>1, AtBottom
  <2>2. ~Missing(x)
    BY <1>4, <2>1 DEF Noticed
  <2> QED
    BY <1>4, <2>2 DEF Missing, Children
<1> QED
  BY <1>1, <1>2, <1>3, <1>4 DEF FrameClaim

\* The scan comes back from a child with its total.
LEMMA AscendStep ==
  ASSUME TypeInv, TypeInv', BookInv, Ascend
  PROVE  BookInv'
<1>1. /\ Len(stack) > 1 /\ Top.todo = {}
      /\ \E complete \in Outcome :
           /\ stack' = <<[stack[2] EXCEPT !.sum = @ + Top.sum, !.complete = @ /\ complete]>>
                         \o Tail(Tail(stack))
           /\ out' = Measured(complete)
      /\ UNCHANGED <<disk, watcher, rows, queue, job, trust>>
  BY DEF Ascend
<1>2. own' = own /\ NoRenames' /\ TreeInv' /\ rows' = rows /\ Known' = Known /\ job' = job
      /\ trust' = trust /\ OnItsWay' = OnItsWay
  BY <1>1, SameOutside DEF Known, OnItsWay, watcher
<1>3. JobShape /\ FramesChained /\ OutShape /\ TreeInv /\ Shape
  BY DEF BookInv, Shape
<1>4. PICK complete \in Outcome :
        /\ stack' = <<[stack[2] EXCEPT !.sum = @ + Top.sum, !.complete = @ /\ complete]>>
                      \o Tail(Tail(stack))
        /\ out' = Measured(complete)
  BY <1>1
<1> DEFINE above == [stack[2] EXCEPT !.sum = @ + Top.sum, !.complete = @ /\ complete]
<1>5. /\ stack # <<>> /\ Len(stack) \in Nat /\ Top = stack[1] /\ 1 \in Depths /\ 2 \in Depths
      /\ stack[1] \in FrameType /\ stack[2] \in FrameType /\ Bottom \in Path
  <2>1. stack # <<>> /\ Len(stack) \in Nat
    BY <1>1, FrameFacts, EmptySeq
  <2>2. 1 \in Depths /\ 2 \in Depths
    BY <1>1, <2>1 DEF Depths
  <2> QED
    BY <2>1, <2>2, FrameFacts
<1>6. /\ Top.found \in BOOLEAN /\ Top.complete \in BOOLEAN /\ Top.sum \in Nat /\ Top.depth \in Int
      /\ Top.dir \in Path /\ complete \in BOOLEAN /\ (complete => Top.complete)
  <2>1. /\ Top.found \in BOOLEAN /\ Top.complete \in BOOLEAN /\ Top.sum \in Nat
        /\ Top.dir \in Path /\ Top.depth \in Int
    BY <1>5 DEF FrameType
  <2> QED
    BY <1>4, <2>1 DEF Outcome
<1>7. /\ above.dir = stack[2].dir /\ above.todo = stack[2].todo /\ above.depth = stack[2].depth
      /\ above.found = stack[2].found /\ above.sum = stack[2].sum + Top.sum
      /\ above.complete = (stack[2].complete /\ complete) /\ above \in FrameType
  <2>1. stack[2].sum + Top.sum \in Nat /\ (stack[2].complete /\ complete) \in BOOLEAN
    BY <1>5, <1>6 DEF FrameType
  <2> QED
    BY <1>5, <2>1 DEF FrameType
<1>8. /\ stack' # <<>> /\ stack'[1] = above
      /\ \A i \in Depths' : i \in Nat /\ i > 0 /\ (i > 1 => i + 1 \in Depths /\ i + 1 > 2 /\ stack'[i] = stack[i + 1])
      /\ \A i \in Depths : i \in Nat /\ i > 0 /\ (i > 2 => i - 1 \in Depths' /\ i - 1 > 1 /\ stack'[i - 1] = stack[i])
      /\ 1 \in Depths' /\ Bottom' = Bottom
  BY <1>1, <1>4, <1>7, Popped
<1> HIDE DEF above
<1>9. ASSUME NEW i \in Depths'
      PROVE  /\ i \in Nat /\ i > 0 /\ i + 1 \in Depths /\ stack'[i].dir = stack[i + 1].dir
             /\ stack'[i].depth = stack[i + 1].depth /\ stack'[i].todo = stack[i + 1].todo
             /\ stack'[i].found = stack[i + 1].found
             /\ stack'[i].sum = IF i = 1 THEN stack[2].sum + Top.sum ELSE stack[i + 1].sum
             /\ stack'[i].complete => stack[i + 1].complete /\ (i = 1 => complete)
  <2>1. i \in Nat /\ i > 0
    BY <1>8
  <2>2. CASE i = 1
    <3>1. i + 1 = 2
      BY <2>2
    <3> QED
      BY <1>5, <1>7, <1>8, <2>1, <2>2, <3>1
  <2>3. CASE i # 1
    <3>1. i > 1
      BY <2>1, <2>3
    <3> QED
      BY <1>8, <2>1, <2>3, <3>1
  <2> QED
    BY <2>2, <2>3
<1>10. ASSUME NEW i \in Depths, i # 1
       PROVE  i - 1 \in Depths' /\ (i - 1) + 1 = i
  <2>1. i \in Nat /\ i > 0 /\ (i - 1) + 1 = i
    BY <1>8
  <2>2. CASE i = 2
    <3>1. i - 1 = 1
      BY <2>2
    <3> QED
      BY <1>8, <2>1, <3>1
  <2>3. CASE i # 2
    <3>1. i > 2
      BY <1>10, <2>1, <2>3
    <3> QED
      BY <1>8, <2>1, <3>1
  <2> QED
    BY <2>2, <2>3
<1> DEFINE t == Top.dir
           above2 == stack[2].dir
<1>11. /\ t # <<>> /\ Front(t) = above2 /\ t \notin stack[2].todo /\ stack[2].found
       /\ above2 \in Path /\ IsUnder(t, Bottom) /\ t # Bottom /\ ~Held(t) /\ ~Held(above2)
  <2>1. 1 + 1 = 2 /\ 1 < Len(stack)
    BY <1>1
  <2>2. t # <<>> /\ Front(t) = above2 /\ t \notin stack[2].todo /\ stack[2].found
    BY <1>3, <1>5, <2>1 DEF FramesChained
  <2> QED
    BY <1>3, <1>5, <2>1, <2>2, AtBottom, FrameFacts
<1>12. FramesChained'
  <2>1. ASSUME NEW i \in Depths'
        PROVE  /\ \A x \in stack'[i].todo : x # <<>> /\ Front(x) = stack'[i].dir
               /\ ~stack'[i].found => stack'[i].todo = {} /\ stack'[i].sum = 0
    <3>1. ~(i = 1 /\ ~stack'[i].found)
      <4>1. 1 + 1 = 2
        OBVIOUS
      <4> QED
        BY <1>9, <1>11, <4>1
    <3> QED
      BY <1>3, <1>9, <3>1 DEF FramesChained
  <2>2. ASSUME NEW i \in Depths', i + 1 \in Depths'
        PROVE  /\ stack'[i].dir # <<>> /\ Front(stack'[i].dir) = stack'[i + 1].dir
               /\ stack'[i].dir \notin stack'[i + 1].todo
               /\ stack'[i + 1].found
    <3> DEFINE k == i + 1
    <3>1. k \in Depths /\ k \in Depths' /\ k + 1 \in Depths
      BY <1>9, <2>2
    <3>2. stack'[i].dir = stack[k].dir /\ stack'[k].dir = stack[k + 1].dir
          /\ stack'[k].todo = stack[k + 1].todo /\ stack'[k].found = stack[k + 1].found
      BY <1>9, <3>1
    <3> HIDE DEF k
    <3>3. /\ stack[k].dir # <<>> /\ Front(stack[k].dir) = stack[k + 1].dir
          /\ stack[k].dir \notin stack[k + 1].todo
          /\ stack[k + 1].found
      BY <1>3, <3>1 DEF FramesChained
    <3> QED
      BY <3>2, <3>3 DEF k
  <2>3. ASSUME NEW i \in Depths', NEW j \in Depths', i < j
        PROVE  IsUnder(stack'[i].dir, stack'[j].dir) /\ stack'[i].dir # stack'[j].dir
    <3>1. i + 1 \in Depths /\ j + 1 \in Depths /\ i + 1 < j + 1
          /\ stack'[i].dir = stack[i + 1].dir /\ stack'[j].dir = stack[j + 1].dir
      BY <1>9, <2>3
    <3> QED
      BY <1>3, <3>1 DEF FramesChained
  <2> QED
    BY <2>1, <2>2, <2>3 DEF FramesChained
<1>13. /\ DOMAIN out' \subseteq DOMAIN out \cup {t} /\ DOMAIN out \subseteq DOMAIN out'
       /\ t \in DOMAIN out' => t \in DOMAIN out \/ Top.found
       /\ \A p \in DOMAIN out : p # t => out'[p] = out[p]
       /\ complete /\ Top.found => t \in DOMAIN out' /\ out'[t] = NewRow(Top.sum, Top.depth)
       /\ ~(complete /\ Top.found) => out' = out
  BY <1>4, <1>6, MeasuredIs
<1>14. JobShape'
  BY <1>1, <1>2, <1>3, <1>5, <1>8 DEF JobShape, Find
<1>15. OutShape'
  <2>1. \A p \in DOMAIN out' : IsUnder(p, Bottom) /\ p # Bottom /\ ~out'[p].old
    <3>1. ~NewRow(Top.sum, Top.depth).old
      BY DEF NewRow
    <3>2. \A p \in DOMAIN out : IsUnder(p, Bottom) /\ p # Bottom /\ ~out[p].old
      BY <1>3, <1>5 DEF OutShape
    <3> HIDE DEF t
    <3> QED
      BY <1>11, <1>13, <3>1, <3>2
  <2> QED
    BY <1>2, <1>3, <1>5, <1>8, <2>1 DEF OutShape
<1>16. /\ FoundDirs' \subseteq FoundDirs
       /\ FoundDirs \subseteq FoundDirs' \cup {t} /\ (t \in FoundDirs \ FoundDirs' => Top.found)
       /\ Top.found => t \in FoundDirs
  <2>1. FoundDirs' \subseteq FoundDirs
    BY <1>9 DEF FoundDirs
  <2>2. ASSUME NEW i \in Depths, stack[i].found
        PROVE  stack[i].dir \in FoundDirs' \/ (i = 1 /\ Top.found)
    <3>1. CASE i = 1
      BY <1>5, <2>2, <3>1
    <3>2. CASE i # 1
      <4> DEFINE j == i - 1
      <4>1. j \in Depths' /\ j + 1 = i
        BY <1>10, <3>2
      <4> HIDE DEF j
      <4>2. stack'[j].dir = stack[i].dir /\ stack'[j].found
        BY <1>9, <2>2, <4>1
      <4> QED
        BY <4>1, <4>2 DEF FoundDirs
    <3> QED
      BY <3>1, <3>2
  <2> QED
    BY <1>5, <2>1, <2>2 DEF FoundDirs
<1>17. Fresh' = Fresh /\ InScan' = InScan /\ Untouched' = Untouched /\ Raised' = Raised
       /\ \A p : Held(p)' = Held(p) /\ Delta(p)' = Delta(p)
  <2>1. Fresh' = Fresh
    BY <1>2 DEF Fresh
  <2>2. Raised' = Raised
    BY <1>2 DEF Raised
  <2> QED
    BY <1>2, <2>1, <2>2 DEF InScan, Untouched, Held, Delta
<1>18. Dirs' = Dirs /\ \A p : Missing(p)' = Missing(p) /\ Children(p)' = Children(p)
  BY <1>2, SameDisk
<1>19. /\ DOMAIN New' = Fresh \cup DOMAIN out' /\ DOMAIN New = Fresh \cup DOMAIN out
       /\ \A p \in DOMAIN New \ {t} : New'[p] = New[p]
       /\ complete /\ Top.found => New'[t].total = Top.sum /\ New'[t].depth = Top.depth
       /\ ~(complete /\ Top.found) => DOMAIN New' = DOMAIN New /\ \A p \in DOMAIN New : New'[p] = New[p]
  <2>1. /\ DOMAIN New' = Fresh \cup DOMAIN out'
        /\ \A p \in DOMAIN out' : New'[p] = out'[p]
        /\ \A p \in Fresh \ DOMAIN out' : New'[p] = rows[p]
    BY <1>2, <1>17, NewNext
  <2>2. /\ DOMAIN New = Fresh \cup DOMAIN out
        /\ \A p \in DOMAIN New : New[p] = IF p \in DOMAIN out THEN out[p] ELSE rows[p]
    BY NewFacts
  <2>3. NewRow(Top.sum, Top.depth).total = Top.sum /\ NewRow(Top.sum, Top.depth).depth = Top.depth
    BY DEF NewRow
  <2> HIDE DEF t
  <2>4. \A p \in DOMAIN New \ {t} : New'[p] = New[p]
    BY <1>13, <2>1, <2>2
  <2> QED
    BY <1>13, <2>1, <2>2, <2>3, <2>4
<1>20. InNew' \subseteq InNew /\ (complete => InNew \subseteq InNew')
  <2> HIDE DEF t
  <2> QED
    BY <1>13, <1>16, <1>19 DEF InNew
<1>21. ASSUME trust = "full" PROVE FullInv'
  <2>1. FullInv
    BY <1>21 DEF BookInv
  <2>2. Main => Main'
    BY <1>2, <1>17, SameTable
  <2>3. ~InScan => NoGap(DOMAIN out \cup FoundDirs \cup Raised)'
    <3>1. DOMAIN out' \cup FoundDirs' \subseteq DOMAIN out \cup FoundDirs
      <4> HIDE DEF t
      <4> QED
        BY <1>13, <1>16
    <3> QED
      BY <1>2, <1>17, <1>18, <2>1, <3>1 DEF FullInv, NoGap
  <2>4. ListClaim'
    <3>1. Counted' = Counted
      BY <1>2, <1>5, <1>8 DEF Counted
    <3>2. Children(job.dir)' = Children(job.dir)
      BY <1>2, <1>18
    <3> QED
      BY <1>2, <1>18, <2>1, <3>1, <3>2 DEF FullInv, ListClaim
  <2>5. PurgeClaim'
    BY <1>2, <1>3, <1>5 DEF JobShape, PurgeClaim
  <2> QED
    BY <1>2, <1>5, <1>17, <2>1, <2>2, <2>3, <2>4, <2>5 DEF FullInv
<1>22. ASSUME trust \in {"full", "healing"} PROVE NewInv'
  <2> HIDE DEF t, above2
  <2>1. NewInv
    BY <1>22 DEF BookInv
  <2>2. ScanDepth'
    <3>1. \A i \in Depths : stack[i].depth = Len(stack[i].dir)
      BY <2>1 DEF NewInv, ScanDepth
    <3>2. \A i \in Depths' : stack'[i].depth = Len(stack'[i].dir)
      BY <1>9, <3>1
    <3>3. Top.depth = Len(t)
      BY <1>5, <3>1 DEF t
    <3>4. DepthOK(New)'
      <4>1. SUFFICES ASSUME NEW p \in DOMAIN New' PROVE New'[p].depth = Len(p)
        BY DEF DepthOK
      <4>2. \A q \in DOMAIN New : New[q].depth = Len(q)
        BY <2>1 DEF NewInv, ScanDepth, DepthOK
      <4> QED
        BY <1>13, <1>19, <3>3, <4>1, <4>2
    <3> QED
      BY <3>2, <3>4 DEF ScanDepth
  <2>3. Noticed(InNew) /\ Noticed(InNew)'
    BY <1>2, <1>17, <1>18, <1>20, <2>1 DEF NewInv, Noticed
  <2>4. SweepClaim'
    BY <1>2, <1>3, <1>5 DEF JobShape, SweepClaim
  <2>5. ASSUME Complete' PROVE FramesKept' /\ NewKept' /\ RootKept'
    <3>1. Complete /\ complete = TRUE
      <4>1. complete = TRUE
        BY <1>6, <1>8, <1>9, <2>5 DEF Complete
      <4>2. ASSUME NEW i \in Depths PROVE stack[i].complete
        <5>1. CASE i = 1
          BY <1>5, <1>6, <4>1, <5>1
        <5>2. CASE i # 1
          BY <1>9, <1>10, <2>5, <5>2 DEF Complete
        <5> QED
          BY <5>1, <5>2
      <4> QED
        BY <1>5, <4>1, <4>2 DEF Complete
    <3>2. FramesKept /\ NewKept /\ RootKept
      BY <2>1, <3>1 DEF NewInv
    <3>3. t \in Dirs => Top.found
      BY <1>5, <1>6, <3>2 DEF FramesKept, FrameClaim, t
    <3>4. t \in Dirs /\ t \notin OnItsWay =>
            /\ Children(t) \subseteq DOMAIN New
            /\ \A x \in InNew : x # <<>> /\ Front(x) = t => x \in Children(t)
            /\ Top.sum = own[t] + SumOf(New, Children(t))
      BY <1>1, <1>3, <1>5, <2>3, <3>2, TopMeasured DEF FramesKept, t
    <3>5. above2 \in Dirs /\ above2 \notin OnItsWay /\ t \notin Dirs => ~Top.found
      <4>1. SUFFICES ASSUME above2 \in Dirs, above2 \notin OnItsWay, t \notin Dirs, Top.found
                     PROVE  FALSE
        OBVIOUS
      <4>2. t \in InNew /\ Missing(t)
        BY <1>11, <1>16, <4>1 DEF InNew, Missing
      <4> QED
        BY <1>11, <2>3, <4>1, <4>2 DEF Noticed
    <3>6. /\ DOMAIN New \subseteq DOMAIN New' /\ DOMAIN New' \subseteq DOMAIN New \cup {t}
          /\ Top.found => t \in DOMAIN New'
      BY <1>13, <1>19, <3>1
    <3>7. ASSUME NEW S, S \subseteq DOMAIN New, t \notin S
          PROVE  SumOf(New', S) = SumOf(New, S)
      <4>1. \A p \in S : New'[p].total = New[p].total
        BY <1>19, <3>7
      <4> QED
        BY <4>1, SumSame
    <3>8. ASSUME NEW i \in Depths' PROVE FrameClaim(i)'
      <4> DEFINE j == i + 1
                 f == stack[j].dir
      <4>1. /\ j \in Depths /\ stack'[i].dir = f /\ stack'[i].todo = stack[j].todo
            /\ stack'[i].found = stack[j].found /\ FrameClaim(j) /\ f \in Path
            /\ i \in Nat /\ i > 0 /\ j = i + 1
            /\ stack'[i].sum = IF i = 1 THEN stack[2].sum + Top.sum ELSE stack[j].sum
        BY <1>9, <3>2, FrameFacts DEF FramesKept
      <4> HIDE DEF j
      <4>2. stack[j].sum \in Nat
        BY <4>1, FrameFacts
      <4> HIDE DEF f
      <4>3. ASSUME stack[j].found, f \in Dirs, f \notin OnItsWay
            PROVE  /\ stack[j].todo \subseteq Children(f)
                   /\ Added(i)' \subseteq DOMAIN New'
                   /\ stack'[i].sum = own[f] + SumOf(New', Added(i)')
        <5>1. /\ stack[j].todo \subseteq Children(f)
              /\ Added(j) \subseteq DOMAIN New
              /\ stack[j].sum = own[f] + SumOf(New, Added(j))
          BY <4>1, <4>3 DEF FrameClaim, f
        <5>2. Totalled(New, Added(j)) /\ SumOf(New, Added(j)) \in Nat /\ own[f] \in Nat
          <6>1. Totalled(New, Added(j))
            BY <5>1, NewFacts, TableTotals
          <6> QED
            BY <4>3, <6>1, SumType, DiskFacts
        <5>3. CASE i = 1
          <6>1. j = 2 /\ f = above2
            BY <4>1, <5>3 DEF f, above2
          <6>2. Added(j) = Children(f) \ (stack[j].todo \cup {t})
            <7>1. j # 1 /\ j - 1 = 1
              BY <6>1
            <7> QED
              BY <1>5, <7>1 DEF Added, t, f
          <6>3. Added(i)' = Children(f) \ stack[j].todo
            BY <1>18, <4>1, <5>3 DEF Added
          <6>4. t \notin Added(j)
            BY <6>2
          <6>5. SumOf(New', Added(j)) = SumOf(New, Added(j))
            BY <3>7, <5>1, <6>4
          <6>6. CASE t \in Dirs
            <7>1. Top.found /\ t \in DOMAIN New' /\ New'[t].total = Top.sum
              BY <1>19, <3>1, <3>3, <3>6, <6>6
            <7>2. Added(i)' = Added(j) \cup {t}
              BY <1>11, <6>1, <6>2, <6>3, <6>6 DEF Children
            <7>3. Totalled(New', Added(j))
              BY <1>19, <3>6, <5>1, <5>2, <6>4 DEF Totalled
            <7>4. SumOf(New', Added(j) \cup {t}) = SumOf(New', Added(j)) + Top.sum
              BY <1>6, <6>4, <7>1, <7>3, SumAdd
            <7>5. stack'[i].sum = stack[j].sum + Top.sum
              BY <4>1, <5>3, <6>1
            <7>6. stack'[i].sum = own[f] + SumOf(New', Added(i)')
              BY <1>6, <5>1, <5>2, <6>5, <7>2, <7>4, <7>5
            <7> QED
              BY <3>6, <5>1, <7>1, <7>2, <7>6
          <6>7. CASE t \notin Dirs
            <7>1. ~Top.found
              BY <3>5, <4>3, <6>1, <6>7
            <7>2. Top.sum = 0
              BY <1>3, <1>5, <7>1 DEF FramesChained
            <7>3. Added(i)' = Added(j)
              BY <6>2, <6>3, <6>7 DEF Children
            <7>4. stack'[i].sum = stack[j].sum
              BY <4>1, <4>2, <5>3, <6>1, <7>2
            <7> QED
              BY <3>6, <5>1, <6>5, <7>3, <7>4
          <6> QED
            BY <6>6, <6>7
        <5>4. CASE i # 1
          <6>1. i - 1 \in Depths' /\ stack'[i - 1].dir = stack[i].dir
            <7>1. i - 1 \in Depths'
              <8>1. i \in Depths' /\ Len(stack') \in Nat /\ Depths' = 1..Len(stack')
                <9>1. stack' \in Seq(FrameType)
                  BY DEF TypeInv, TypeScan
                <9> QED
                  BY <9>1, LenProperties DEF Depths
              <8> QED
                BY <4>1, <5>4, <8>1
            <7>2. (i - 1) + 1 = i
              BY <4>1
            <7> QED
              BY <1>9, <7>1, <7>2
          <6>2. Added(i)' = Added(j)
            <7>1. j # 1 /\ j - 1 = i
              BY <4>1
            <7> QED
              BY <1>18, <4>1, <5>4, <6>1, <7>1 DEF Added, f
          <6>3. t \notin Children(f)
            <7>1. 2 < j
              BY <4>1, <5>4
            <7>2. above2 # f
              BY <1>3, <1>5, <4>1, <7>1 DEF FramesChained, above2, f
            <7> QED
              BY <1>11, <7>2 DEF Children
          <6>4. t \notin Added(j)
            BY <6>3 DEF Added, f
          <6>5. SumOf(New', Added(j)) = SumOf(New, Added(j))
            BY <3>7, <5>1, <6>4
          <6> QED
            BY <3>6, <4>1, <5>1, <5>4, <6>2, <6>5
        <5> QED
          BY <5>3, <5>4
      <4>4. ~stack[j].found => f \notin Dirs
        BY <4>1 DEF FrameClaim, f
      <4> QED
        BY <1>2, <1>18, <4>1, <4>3, <4>4 DEF FrameClaim
    <3>9. NewKept'
      <4>1. SUFFICES ASSUME NEW q \in Dirs \cap DOMAIN New', IsUnder(q, Bottom), Visited(q)',
                            q \notin OnItsWay
                     PROVE  Balanced(New', q, 0)
        BY <1>2, <1>8, <1>18 DEF NewKept, Balanced
      <4>2. CASE q = t
        <5>1. /\ Top.found /\ Children(t) \subseteq DOMAIN New
              /\ \A x \in InNew : x # <<>> /\ Front(x) = t => x \in Children(t)
              /\ Top.sum = own[t] + SumOf(New, Children(t))
          BY <3>3, <3>4, <4>1, <4>2
        <5>2. New'[t].total = Top.sum
          BY <1>19, <3>1, <5>1
        <5>3. Kids(New', t) = Children(t)
          <6>1. \A x \in DOMAIN New' : x \in InNew
            BY <1>20 DEF InNew
          <6>2. \A x \in Children(t) : x \in DOMAIN New' /\ x # <<>> /\ Front(x) = t
            BY <3>6, <5>1, DiskFacts
          <6> QED
            BY <5>1, <6>1, <6>2 DEF Kids
        <5>4. t \notin Children(t)
          BY <1>6, Parent, DiskFacts DEF t
        <5>5. SumOf(New', Children(t)) = SumOf(New, Children(t))
          BY <3>7, <5>1, <5>4
        <5> QED
          BY <1>6, <4>2, <5>1, <5>2, <5>3, <5>5 DEF Balanced
      <4>3. CASE q # t
        <5>1. Visited(q)
          <6>1. SUFFICES ASSUME NEW i \in Depths
                         PROVE  q # stack[i].dir /\ \A x \in stack[i].todo : ~IsUnder(q, x)
            BY DEF Visited
          <6>2. CASE i = 1
            BY <1>1, <1>5, <4>3, <6>2 DEF t
          <6>3. CASE i # 1
            <7> DEFINE j == i - 1
            <7>1. j \in Depths' /\ j + 1 = i
              BY <1>10, <6>3
            <7> HIDE DEF j
            <7>2. q # stack'[j].dir /\ \A x \in stack'[j].todo : ~IsUnder(q, x)
              BY <4>1, <7>1 DEF Visited
            <7> QED
              BY <1>9, <7>1, <7>2
          <6> QED
            BY <6>2, <6>3
        <5>2. q \in DOMAIN New /\ Balanced(New, q, 0)
          BY <3>2, <3>6, <4>1, <4>3, <5>1 DEF NewKept
        <5>3. q # above2
          BY <1>5, <5>1 DEF Visited, above2
        <5>4. Kids(New, q) = Children(q) /\ New[q].total + 0 = own[q] + SumOf(New, Children(q))
          BY <5>2 DEF Balanced
        <5>5. Kids(New', q) = Kids(New, q)
          BY <1>11, <3>6, <5>3 DEF Kids
        <5>6. Children(q) \subseteq DOMAIN New /\ t \notin Children(q)
          BY <1>11, <5>3, <5>4 DEF Kids
        <5>7. SumOf(New', Children(q)) = SumOf(New, Children(q))
          BY <3>7, <5>6
        <5>8. New'[q] = New[q]
          BY <1>19, <4>3, <5>2
        <5> QED
          BY <5>4, <5>5, <5>7, <5>8 DEF Balanced
      <4> QED
        BY <4>2, <4>3
    <3>10. RootKept'
      <4>1. InNew' = InNew
        BY <1>20, <3>1
      <4> QED
        BY <1>2, <3>2, <4>1 DEF RootKept
    <3> QED
      BY <3>8, <3>9, <3>10 DEF FramesKept
  <2> QED
    BY <2>2, <2>3, <2>4, <2>5 DEF NewInv
<1>23. trust = "healing" => InScan'
  BY <1>17 DEF BookInv
<1> QED
  BY <1>2, <1>12, <1>14, <1>15, <1>21, <1>22, <1>23 DEF BookInv, Shape

\* The scan of b, the bottom, is complete.
LEMMA ScanEnds ==
  ASSUME TypeInv, Shape, Len(stack) = 1, Top.todo = {}, TRUE \in Outcome, Upsert(Measured(TRUE))
  PROVE  /\ stack # <<>> /\ Depths = {1} /\ Top = stack[1] /\ Top.dir = Bottom /\ Bottom \in Path
         /\ Top.found \in BOOLEAN /\ Top.sum \in Nat /\ Top.depth \in Int /\ Complete
         /\ DOMAIN out \subseteq Path
         /\ \A p \in DOMAIN out : IsUnder(p, Bottom) /\ p # Bottom /\ ~out[p].old /\ rows'[p] = out[p]
         /\ \A p \in Known \ DOMAIN out : p # Bottom \/ ~Top.found => rows'[p] = rows[p]
         /\ Known' = Known \cup DOMAIN out \cup (IF Top.found THEN {Bottom} ELSE {})
         /\ FoundDirs = IF Top.found THEN {Bottom} ELSE {}
         /\ Top.found => rows'[Bottom] = NewRow(Top.sum, Top.depth)
         /\ \A q : Visited(q) <=> q # Bottom
         /\ NewRow(Top.sum, Top.depth).total = Top.sum
         /\ NewRow(Top.sum, Top.depth).depth = Top.depth /\ ~NewRow(Top.sum, Top.depth).old
<1>1. stack # <<>> /\ Depths = {1}
  <2>1. stack # <<>>
    <3>1. Len(stack) # 0 /\ Len(<<>>) = 0
      BY EmptySeq
    <3> QED
      BY <3>1
  <2> QED
    BY <2>1 DEF Depths
<1>2. Top = stack[1] /\ stack[1] \in FrameType /\ Bottom = stack[1].dir /\ Bottom \in Path
  BY <1>1, FrameFacts DEF Bottom
<1>3. Top.found \in BOOLEAN /\ Top.sum \in Nat /\ Top.depth \in Int /\ Top.complete \in BOOLEAN
  BY <1>2 DEF FrameType
<1>4. Complete
  <2>1. Top.complete
    BY <1>3 DEF Outcome
  <2> QED
    BY <1>1, <1>2, <2>1 DEF Complete
<1>5. DOMAIN out \subseteq Path /\ \A p \in DOMAIN out : IsUnder(p, Bottom) /\ p # Bottom /\ ~out[p].old
  BY <1>1, RowFacts DEF Shape, OutShape
<1> DEFINE m == Measured(TRUE)
<1>6. /\ Top.found =>
           /\ DOMAIN m = DOMAIN out \cup {Bottom}
           /\ m[Bottom] = NewRow(Top.sum, Top.depth)
           /\ \A p \in DOMAIN out : p # Bottom => m[p] = out[p]
      /\ ~Top.found => m = out
  BY <1>2, MeasuredIs
<1>7. /\ Known' = Known \cup DOMAIN m
      /\ \A p \in DOMAIN m : rows'[p] = m[p]
      /\ \A p \in Known \ DOMAIN m : rows'[p] = rows[p]
  BY Upserted
<1>8. FoundDirs = IF Top.found THEN {Bottom} ELSE {}
  BY <1>1, <1>2 DEF FoundDirs
<1>9. \A q : Visited(q) <=> q # Bottom
  BY <1>1, <1>2 DEF Visited
<1>10. /\ NewRow(Top.sum, Top.depth).total = Top.sum
       /\ NewRow(Top.sum, Top.depth).depth = Top.depth /\ ~NewRow(Top.sum, Top.depth).old
  BY DEF NewRow
<1> HIDE DEF m
<1>11. \A p \in DOMAIN out : rows'[p] = out[p]
  BY <1>5, <1>6, <1>7
<1>12. \A p \in Known \ DOMAIN out : p # Bottom \/ ~Top.found => rows'[p] = rows[p]
  BY <1>6, <1>7
<1>13. Known' = Known \cup DOMAIN out \cup (IF Top.found THEN {Bottom} ELSE {})
  BY <1>6, <1>7
<1>14. Top.found => rows'[Bottom] = NewRow(Top.sum, Top.depth)
  BY <1>6, <1>7
<1> QED
  BY <1>1, <1>2, <1>3, <1>4, <1>5, <1>8, <1>9, <1>10, <1>11, <1>12, <1>13, <1>14

\* The scan of a new directory is over, and the listing adds its total.
LEMMA ChildScannedStep ==
  ASSUME TypeInv, TypeInv', BookInv, ChildScanned
  PROVE  BookInv'
<1> DEFINE b == Bottom
<1>1. /\ job.at = "list" /\ Len(stack) = 1 /\ Top.todo = {} /\ TRUE \in Outcome
      /\ Upsert(Measured(TRUE))
      /\ job' = [job EXCEPT !.sum = @ + Top.sum]
      /\ stack' = <<>> /\ out' = <<>>
      /\ UNCHANGED <<disk, watcher, queue, trust>>
  BY DEF ChildScanned
<1>2. own' = own /\ NoRenames' /\ TreeInv' /\ trust' = trust /\ OnItsWay' = OnItsWay
  BY <1>1, SameOutside DEF OnItsWay, watcher
<1>3. JobShape /\ FramesChained /\ OutShape /\ TreeInv /\ Shape
  BY DEF BookInv, Shape
<1>4. /\ stack # <<>> /\ Depths = {1} /\ Top = stack[1] /\ Top.dir = b /\ b \in Path
      /\ Top.found \in BOOLEAN /\ Top.sum \in Nat /\ Complete /\ DOMAIN out \subseteq Path
      /\ \A p \in DOMAIN out : IsUnder(p, b) /\ p # b /\ rows'[p] = out[p]
      /\ \A p \in Known \ DOMAIN out : p # b \/ ~Top.found => rows'[p] = rows[p]
      /\ Known' = Known \cup DOMAIN out \cup (IF Top.found THEN {b} ELSE {})
      /\ FoundDirs = (IF Top.found THEN {b} ELSE {})
      /\ Top.found => rows'[b].total = Top.sum /\ rows'[b].depth = Top.depth
      /\ \A q : Visited(q) <=> q # b
  BY <1>1, <1>3, ScanEnds
<1>5. /\ job.dir \in Path /\ b # <<>> /\ Front(b) = job.dir /\ b \notin Known
      /\ ~IsUnder(job.dir, b) /\ b \in job.live \ job.todo /\ IsUnder(b, b)
  <2>1. b \in job.live \ job.todo /\ b \notin Known
    BY <1>1, <1>3, <1>4 DEF OutShape
  <2>2. b # <<>> /\ Front(b) = job.dir
    BY <1>1, <1>3, <2>1 DEF JobShape
  <2> HIDE DEF b
  <2> QED
    BY <1>4, <2>1, <2>2, Parent, Order
<1>6. job \in Listing
  BY <1>1 DEF TypeInv, TypeJob, Job, Idle
<1>7. /\ job'.at = "list" /\ job'.dir = job.dir /\ job'.old = job.old /\ job'.depth = job.depth
      /\ job'.sum = job.sum + Top.sum /\ job'.todo = job.todo /\ job'.live = job.live
      /\ job.sum \in Nat
  BY <1>1, <1>6 DEF Listing
<1> HIDE DEF b
<1>8. JobShape'
  <2>1. Find(job.dir)' = Find(job.dir)
    BY <1>4, <1>5, <1>7, ZenonT(30) DEF Find
  <2>2. Find(job.dir) = job.old /\ job.depth = job.old.depth
        /\ \A x \in job.live : x # <<>> /\ Front(x) = job.dir
    BY <1>1, <1>3 DEF JobShape
  <2> QED
    BY <1>1, <1>7, <2>1, <2>2 DEF JobShape
<1>9. ASSUME trust = "full" PROVE FullInv' /\ NewInv'
  <2>1. FullInv /\ NewInv /\ Main /\ FramesKept /\ NewKept /\ FrameClaim(1)
    <3>1. FullInv /\ NewInv
      BY <1>9 DEF BookInv
    <3>2. Main
      BY <1>1, <3>1 DEF FullInv, InScan
    <3> QED
      BY <1>4, <3>1, <3>2 DEF NewInv, FramesKept
  <2>2. Dirs' = Dirs /\ \A p : Missing(p)' = Missing(p) /\ Children(p)' = Children(p)
    BY <1>2, SameDisk
  <2>3. \A p : (Held(p) <=> p = job.dir) /\ (Held(p)' <=> p = job.dir) /\ Delta(p) = 0 /\ Delta(p)' = 0
    BY <1>1, <1>7 DEF Held, Delta, Raised
  <2>4. /\ DOMAIN New = Known \cup DOMAIN out /\ DOMAIN New \subseteq Path /\ b \notin DOMAIN New
        /\ \A p \in DOMAIN New : New[p].total \in Nat
        /\ \A p \in DOMAIN New : rows'[p] = New[p]
    <3>1. Fresh = Known
      BY <1>1 DEF Fresh
    <3> QED
      BY <1>4, <1>5, <3>1, NewFacts
  <2>5. Known' = DOMAIN New \cup FoundDirs /\ Known' = InNew /\ DOMAIN rows' = Known'
        /\ DOMAIN rows = Known /\ Known \subseteq Path /\ Known' \subseteq Path
    BY <1>4, <2>4, RowFacts DEF InNew, Known
  <2>6. DepthOK(rows)'
    <3>1. SUFFICES ASSUME NEW p \in Known' PROVE rows'[p].depth = Len(p)
      BY <2>5 DEF DepthOK
    <3>2. \A q \in DOMAIN New : New[q].depth = Len(q)
      BY <2>1 DEF NewInv, ScanDepth, DepthOK
    <3>3. Top.depth = Len(b)
      BY <1>4, <2>1 DEF NewInv, ScanDepth
    <3> QED
      BY <1>4, <2>4, <2>5, <3>1, <3>2, <3>3
  <2>7. NoGap(Known)'
    <3>1. NoGap(Known) /\ NoGap(DOMAIN out \cup FoundDirs \cup Raised)
      BY <1>1, <2>1 DEF FullInv, Main, InScan
    <3> QED
      BY <1>4, <2>2, <2>4, <2>5, <3>1 DEF NoGap
  <2>8. Noticed(InNew)
    BY <2>1 DEF NewInv
  <2>9. Noticed(Known)'
    BY <1>2, <2>2, <2>3, <2>5, <2>8 DEF Noticed
  <2>10. \A d \in Path : ~IsUnder(d, b) =>
           \A p \in Known' : p # <<>> /\ Front(p) = d => (p \in Known /\ p \notin DOMAIN out) \/ p = b
    BY <1>4, Parent
  <2>11. BookKept'
    <3>1. SUFFICES ASSUME NEW d \in Dirs \cap Known', Anchored(rows', d), d \notin OnItsWay,
                          d # job.dir
                   PROVE  Balanced(rows', d, 0)
      BY <1>2, <2>2, <2>3 DEF BookKept, Balanced
    <3>2. d \in Path
      BY DiskFacts
    <3>3. CASE ~IsUnder(d, b)
      <4>1. d # b /\ d \in Known /\ d \notin DOMAIN out
        BY <1>4, <1>5, <3>1, <3>3
      <4>2. Anchored(rows, d)
        <5>1. ASSUME NEW q \in Path, IsUnder(d, q) PROVE q \in Known
          <6>1. q \in Known' /\ ~IsUnder(q, b)
            BY <1>4, <2>5, <3>1, <3>2, <3>3, <5>1, Order DEF Anchored
          <6> QED
            BY <1>4, <1>5, <6>1
        <5> QED
          BY <2>5, <5>1 DEF Anchored
      <4>3. Balanced(rows, d, 0)
        BY <2>1, <2>3, <3>1, <4>1, <4>2 DEF Main, BookKept
      <4>4. Kids(rows, d) = Children(d) /\ rows[d].total + 0 = own[d] + SumOf(rows, Children(d))
        BY <4>3 DEF Balanced
      <4>5. \A p \in Known' : p # <<>> /\ Front(p) = d => p \in Known /\ p \notin DOMAIN out /\ p # b
        BY <1>5, <2>10, <3>1, <3>2, <3>3
      <4>6. Kids(rows', d) = Kids(rows, d)
        BY <1>4, <2>5, <4>5 DEF Kids
      <4>7. \A p \in Children(d) : rows'[p].total = rows[p].total
        <5>1. \A p \in Kids(rows, d) : p \in Known' /\ p \in Known /\ p # <<>> /\ Front(p) = d
          BY <1>4, <2>5 DEF Kids
        <5> QED
          BY <1>4, <4>4, <4>5, <5>1
      <4>8. SumOf(rows', Children(d)) = SumOf(rows, Children(d))
        BY <4>7, SumSame
      <4>9. rows'[d] = rows[d]
        BY <1>4, <4>1
      <4> QED
        BY <4>4, <4>6, <4>8, <4>9 DEF Balanced
    <3>4. CASE d = b
      <4>1. Top.found /\ Top.sum = own[d] + SumOf(New, Children(d)) /\ Children(d) \subseteq DOMAIN New
            /\ \A x \in InNew : x # <<>> /\ Front(x) = d => x \in Children(d)
        <5>1. Top.dir \in Dirs /\ Top.dir \notin OnItsWay
          BY <1>4, <3>1, <3>4
        <5> QED
          BY <1>1, <1>3, <1>4, <2>1, <2>8, <3>4, <5>1, TopMeasured
      <4>2. Kids(rows', d) = Children(d)
        BY <2>5, <4>1, DiskFacts DEF Kids
      <4>3. SumOf(rows', Children(d)) = SumOf(New, Children(d))
        <5>1. \A p \in Children(d) : rows'[p].total = New[p].total
          BY <2>4, <4>1
        <5> QED
          BY <5>1, SumSame
      <4>4. rows'[d].total = Top.sum
        BY <1>4, <3>4, <4>1
      <4> QED
        BY <1>4, <4>1, <4>2, <4>3, <4>4 DEF Balanced
    <3>5. CASE IsUnder(d, b) /\ d # b
      <4>1. b \in Dirs
        BY <1>3, <1>4, <3>5, DirAbove
      <4>2. d \in DOMAIN New /\ Visited(d) /\ b # <<>> /\ Front(b) # d
        BY <1>4, <1>5, <2>5, <3>1, <3>5
      <4>3. Balanced(New, d, 0)
        BY <2>1, <3>1, <3>5, <4>2 DEF NewKept, b
      <4>4. Kids(New, d) = Children(d) /\ New[d].total + 0 = own[d] + SumOf(New, Children(d))
        BY <4>3 DEF Balanced
      <4>5. Kids(rows', d) = Kids(New, d)
        BY <1>4, <2>5, <4>2 DEF Kids
      <4>6. SumOf(rows', Children(d)) = SumOf(New, Children(d))
        <5>1. \A p \in Children(d) : rows'[p].total = New[p].total
          BY <2>4, <4>4 DEF Kids
        <5> QED
          BY <5>1, SumSame
      <4>7. rows'[d] = New[d]
        BY <2>4, <4>2
      <4> QED
        BY <4>4, <4>5, <4>6, <4>7 DEF Balanced
    <3> QED
      BY <3>3, <3>4, <3>5
  <2>12. Main'
    BY <2>6, <2>7, <2>9, <2>11 DEF Main
  <2>13. ListClaim'
    <3>1. SUFFICES ASSUME job.dir \in Dirs, job.dir \notin OnItsWay
                   PROVE  /\ job.live = Children(job.dir)
                          /\ Counted' \subseteq Known'
                          /\ job'.sum = own[job.dir] + SumOf(rows', Counted')
      <4>1. Children(job.dir)' = Children(job.dir)
        BY <1>7, <2>2
      <4> QED
        BY <1>2, <1>7, <2>2, <4>1 DEF ListClaim
    <3>2. /\ job.live = Children(job.dir)
          /\ Counted \subseteq Known
          /\ job.sum = own[job.dir] + SumOf(rows, Counted)
      BY <1>1, <2>1, <3>1 DEF FullInv, ListClaim
    <3>3. Counted = job.live \ (job.todo \cup {b}) /\ Counted' = job.live \ job.todo
      BY <1>1, <1>4, <1>7 DEF Counted, b
    <3>4. Counted' = Counted \cup {b} /\ b \notin Counted
      BY <1>5, <3>3
    <3>5. Top.found
      <4>1. b \in Dirs
        BY <1>5, <3>2, DiskFacts
      <4> QED
        BY <1>4, <2>1, <4>1 DEF FrameClaim
    <3>6. \A p \in Counted : rows'[p] = rows[p] /\ rows[p].total \in Nat
      <4>1. ASSUME NEW p \in Counted PROVE p \notin DOMAIN out
        <5>1. p \in Path /\ p # <<>> /\ Front(p) = job.dir /\ p # b
          BY <1>1, <1>3, <2>5, <3>2, <3>3, <4>1 DEF JobShape
        <5> QED
          BY <1>4, <1>5, <5>1, Parent
      <4> QED
        BY <1>4, <1>5, <3>2, <4>1, RowFacts
    <3>7. Totalled(rows, Counted) /\ Totalled(rows', Counted)
      <4>1. Totalled(rows, Counted)
        BY <3>2, RowFacts, TableTotals
      <4> QED
        BY <3>6, <4>1 DEF Totalled
    <3>8. SumOf(rows', Counted) = SumOf(rows, Counted) /\ SumOf(rows, Counted) \in Nat
      BY <3>6, <3>7, SumSame, SumType
    <3>9. SumOf(rows', Counted \cup {b}) = SumOf(rows', Counted) + Top.sum
      <4>1. rows'[b].total = Top.sum /\ Top.sum \in Nat /\ b \notin Counted
        BY <1>4, <3>4, <3>5
      <4> DEFINE u == rows'
                 S == Counted
      <4>2. Totalled(u, S) /\ b \notin S /\ u[b].total \in Nat
        BY <3>7, <4>1
      <4> HIDE DEF u, S
      <4>3. SumOf(u, S \cup {b}) = SumOf(u, S) + u[b].total
        BY <4>2, SumAdd
      <4> QED
        BY <4>1, <4>3 DEF u, S
    <3>10. job'.sum = own[job.dir] + SumOf(rows', Counted')
      BY <1>4, <1>7, <3>1, <3>2, <3>4, <3>8, <3>9, DiskFacts
    <3> QED
      BY <1>4, <3>2, <3>4, <3>5, <3>10
  <2>14. ~InScan' /\ PurgeClaim' /\ NoGap(Raised)' /\ <<>> \in Known'
    BY <1>4, <1>7, <2>1 DEF InScan, PurgeClaim, NoGap, Raised, FullInv
  <2> QED
    BY <1>1, <2>12, <2>13, <2>14, RestBooks
<1>10. trust # "healing"
  BY <1>1 DEF BookInv, InScan
<1> QED
  BY <1>1, <1>2, <1>8, <1>9, <1>10, RestShape DEF BookInv

-----------------------------------------------------------------------------
(* ScanRoot.                                                               *)

\* The marks on the rows do not count in the books.
LEMMA SameTotals ==
  ASSUME Main, own' = own, Known' = Known,
         \A p \in Known : rows'[p].total = rows[p].total /\ rows'[p].depth = rows[p].depth,
         OnItsWay' = OnItsWay, \A d : Held(d)' = Held(d) /\ Delta(d)' = Delta(d)
  PROVE  Main'
<1>1. Dirs' = Dirs /\ \A p : Missing(p)' = Missing(p) /\ Children(p)' = Children(p)
  BY SameDisk
<1>2. DOMAIN rows' = Known /\ DOMAIN rows = Known
  BY DEF Known
<1>3. DepthOK(rows)' /\ NoGap(Known)' /\ Noticed(Known)'
  BY <1>1, <1>2 DEF Main, DepthOK, NoGap, Noticed
<1>4. ASSUME NEW d \in Dirs \cap Known, Anchored(rows', d), d \notin OnItsWay, ~Held(d)
      PROVE  Balanced(rows', d, Delta(d))
  <2>1. Balanced(rows, d, Delta(d))
    BY <1>2, <1>4 DEF Main, BookKept, Anchored
  <2>2. Kids(rows, d) = Children(d) /\ rows[d].total + Delta(d) = own[d] + SumOf(rows, Children(d))
    BY <2>1 DEF Balanced
  <2>3. Kids(rows', d) = Kids(rows, d)
    BY <1>2 DEF Kids
  <2>4. \A p \in Children(d) : rows'[p].total = rows[p].total
    BY <1>2, <2>2 DEF Kids
  <2>5. SumOf(rows', Children(d)) = SumOf(rows, Children(d))
    BY <2>4, SumSame
  <2> QED
    BY <2>2, <2>3, <2>5 DEF Balanced
<1>5. BookKept'
  BY <1>1, <1>4 DEF BookKept, Balanced
<1> QED
  BY <1>3, <1>5 DEF Main

\* ScanRoot begins: every row is old until it is measured.
LEMMA BeginScanRootStep ==
  ASSUME TypeInv, TypeInv', BookInv, BeginScanRoot
  PROVE  BookInv'
<1>1. /\ job = Idle /\ job' = [at |-> "root"]
      /\ \E frame \in Frame(<<>>, 0) : stack' = <<frame>>
      /\ rows' = [p \in Known |-> [rows[p] EXCEPT !.old = TRUE]]
      /\ trust' \in {trust, "healing"} /\ (trust' = "full" => trust = "full")
      /\ UNCHANGED <<disk, watcher, queue, out>>
  BY DEF BeginScanRoot
<1>2. own' = own /\ NoRenames' /\ TreeInv' /\ OnItsWay' = OnItsWay
  BY <1>1, SameOutside DEF OnItsWay, watcher
<1>3. job.at = "idle" /\ job'.at = "root"
  BY <1>1 DEF Idle
<1>4. out = <<>> /\ out' = <<>> /\ DOMAIN out' = {} /\ TreeInv
  BY <1>1, <1>3, EmptySeq DEF BookInv, Shape, JobShape
<1>5. /\ Known' = Known
      /\ \A p \in Known : /\ rows'[p].total = rows[p].total /\ rows'[p].depth = rows[p].depth
                          /\ rows'[p].old
  <2>1. Known' = Known
    BY <1>1 DEF Known
  <2>2. \A p \in Known : rows[p] \in Row /\ rows'[p] = [rows[p] EXCEPT !.old = TRUE]
    BY <1>1, RowFacts
  <2> QED
    BY <2>1, <2>2 DEF Row
<1>6. PICK frame \in Frame(<<>>, 0) : stack' = <<frame>>
  BY <1>1
<1>7. <<>> \in Path /\ Len(<<>>) = 0
  BY DiskFacts, EmptySeq
<1>8. /\ Depths' = {1} /\ stack'[1] = frame /\ Bottom' = <<>> /\ stack' # <<>>
      /\ FramesChained'
      /\ FoundDirs' \subseteq {<<>>} \cap Dirs
      /\ Complete' => FramesKept' /\ NewKept'
      /\ \A i \in Depths' : stack'[i].depth = Len(stack'[i].dir)
  <2> DEFINE c == <<>>
             n == 0
  <2>1. c \in Path /\ frame \in Frame(c, n) /\ n = Len(c)
    BY <1>6, <1>7
  <2> HIDE DEF c, n
  <2>2. /\ Depths' = {1} /\ stack'[1] = frame /\ Bottom' = c /\ stack' # <<>>
        /\ FramesChained'
        /\ FoundDirs' \subseteq {c} \cap Dirs
        /\ Complete' => FramesKept' /\ NewKept'
        /\ \A i \in Depths' : stack'[i].depth = Len(stack'[i].dir)
    BY <1>2, <1>4, <1>6, <2>1, ScanBegins
  <2> QED
    BY <2>2 DEF c
<1>9. JobShape'
  BY <1>3, <1>8 DEF JobShape
<1>10. OutShape'
  BY <1>3, <1>4, <1>8 DEF OutShape
<1>11. Fresh' = {}
  BY <1>3, <1>5 DEF Fresh
<1>12. DOMAIN New' = {}
  BY <1>4, <1>11, NewNext
<1>13. InNew' \subseteq {<<>>} /\ InNew' = FoundDirs'
  BY <1>8, <1>12 DEF InNew
<1>14. NewInv'
  <2>1. ScanDepth'
    BY <1>8, <1>12 DEF ScanDepth, DepthOK
  <2>2. Noticed(InNew)'
    BY <1>13 DEF Noticed, Missing
  <2>3. RootKept'
    <3>1. \A e \in Path : IsUnder(<<>>, e) => e = <<>>
      BY <1>7, Order
    <3> QED
      BY <1>13, <3>1 DEF RootKept
  <2>4. SweepClaim'
    BY <1>3 DEF SweepClaim
  <2> QED
    BY <1>8, <2>1, <2>2, <2>3, <2>4 DEF NewInv
<1>15. ASSUME trust = "full" PROVE FullInv'
  <2>1. Main /\ <<>> \in Known
    BY <1>3, <1>15 DEF BookInv, FullInv, InScan
  <2>2. \A p : Held(p)' = Held(p) /\ Delta(p) = 0 /\ Delta(p)' = 0
    BY <1>3 DEF Held, Delta, Raised
  <2>3. Main'
    BY <1>2, <1>5, <2>1, <2>2, SameTotals
  <2>4. InScan' /\ ListClaim' /\ PurgeClaim'
    BY <1>3 DEF InScan, ListClaim, PurgeClaim
  <2> QED
    BY <1>3, <1>5, <2>1, <2>3, <2>4 DEF FullInv
<1>16. InScan'
  BY <1>3 DEF InScan
<1> QED
  BY <1>1, <1>2, <1>8, <1>9, <1>10, <1>14, <1>15, <1>16 DEF BookInv, Shape

\* The whole root has been measured.
LEMMA RootScannedStep ==
  ASSUME TypeInv, TypeInv', BookInv, RootScanned
  PROVE  BookInv'
<1> DEFINE b == Bottom
<1>1. /\ job.at = "root" /\ Len(stack) = 1 /\ Top.todo = {} /\ TRUE \in Outcome
      /\ Upsert(Measured(TRUE))
      /\ job' = [at |-> "sweep"]
      /\ stack' = <<>> /\ out' = <<>>
      /\ UNCHANGED <<disk, watcher, queue, trust>>
  BY DEF RootScanned
<1>2. own' = own /\ NoRenames' /\ TreeInv' /\ trust' = trust /\ OnItsWay' = OnItsWay
  BY <1>1, SameOutside DEF OnItsWay, watcher
<1>3. JobShape /\ FramesChained /\ OutShape /\ TreeInv /\ Shape
  BY DEF BookInv, Shape
<1>4. /\ stack # <<>> /\ Depths = {1} /\ Top = stack[1] /\ Top.dir = b /\ b \in Path
      /\ Top.found \in BOOLEAN /\ Top.sum \in Nat /\ Complete
      /\ \A p \in DOMAIN out : IsUnder(p, b) /\ p # b /\ ~out[p].old /\ rows'[p] = out[p]
      /\ \A p \in Known \ DOMAIN out : p # b \/ ~Top.found => rows'[p] = rows[p]
      /\ Known' = Known \cup DOMAIN out \cup (IF Top.found THEN {b} ELSE {})
      /\ FoundDirs = (IF Top.found THEN {b} ELSE {})
      /\ Top.found => rows'[b].total = Top.sum /\ rows'[b].depth = Top.depth /\ ~rows'[b].old
      /\ \A q : Visited(q) <=> q # b
  BY <1>1, <1>3, ScanEnds
<1>5. b = <<>>
  BY <1>1, <1>3, <1>4 DEF OutShape
<1>6. job'.at = "sweep" /\ InScan'
  BY <1>1 DEF InScan
<1> HIDE DEF b
<1>7. JobShape'
  BY <1>1, <1>6 DEF JobShape
<1>8. ASSUME trust = "full" PROVE FullInv'
  <2>1. <<>> \in Known'
    BY <1>4, <1>8 DEF BookInv, FullInv
  <2>2. ~Untouched' /\ ListClaim' /\ PurgeClaim'
    BY <1>6 DEF Untouched, ListClaim, PurgeClaim
  <2> QED
    BY <1>1, <1>6, <2>1, <2>2 DEF FullInv
<1>9. ASSUME trust \in {"full", "healing"} PROVE NewInv'
  <2>1. NewInv /\ FramesKept /\ NewKept /\ RootKept /\ FrameClaim(1) /\ Noticed(InNew)
    <3>1. NewInv
      BY <1>9 DEF BookInv
    <3> QED
      BY <1>4, <3>1 DEF NewInv, FramesKept
  <2>2. Dirs' = Dirs /\ \A p : Missing(p)' = Missing(p) /\ Children(p)' = Children(p)
    BY <1>2, SameDisk
  <2>3. Top.found
    BY <1>4, <1>5, <2>1, DiskFacts DEF FrameClaim
  <2>4. /\ DOMAIN New = Fresh \cup DOMAIN out /\ DOMAIN New \subseteq Path
        /\ \A p \in DOMAIN New : New[p] = IF p \in DOMAIN out THEN out[p] ELSE rows[p]
        /\ Fresh = {p \in Known : ~rows[p].old}
    BY <1>1, NewFacts DEF Fresh
  <2>5. Fresh' = {p \in Known' : ~rows'[p].old}
    BY <1>6 DEF Fresh
  <2>6. Fresh' = DOMAIN New \cup {b}
    <3>1. ASSUME NEW p \in Known', p # b
          PROVE  ~rows'[p].old <=> p \in DOMAIN New
      <4>1. CASE p \in DOMAIN out
        BY <1>4, <2>4, <4>1
      <4>2. CASE p \notin DOMAIN out
        <5>1. p \in Known /\ rows'[p] = rows[p]
          BY <1>4, <2>3, <3>1, <4>2
        <5> QED
          BY <2>4, <4>2, <5>1
      <4> QED
        BY <4>1, <4>2
    <3>2. b \in Known' /\ ~rows'[b].old
      BY <1>4, <2>3
    <3>3. DOMAIN New \subseteq Known'
      BY <1>4, <2>4
    <3> QED
      BY <2>5, <3>1, <3>2, <3>3
  <2>7. DOMAIN out' = {} /\ Depths' = {} /\ FoundDirs' = {} /\ ~Complete'
    BY <1>1, OutEmpty
  <2>8. DOMAIN New' = DOMAIN New \cup {b} /\ \A p \in DOMAIN New' : New'[p] = rows'[p]
    BY <2>6, <2>7, NewNext
  <2>9. \A p \in DOMAIN New \ {b} : New'[p] = New[p]
    BY <1>4, <2>3, <2>4, <2>8
  <2>10. New'[b].total = Top.sum /\ New'[b].depth = Top.depth
    BY <1>4, <2>3, <2>8
  <2>11. InNew = DOMAIN New \cup {b} /\ InNew' = InNew
    BY <1>4, <2>3, <2>7, <2>8 DEF InNew
  <2>12. ScanDepth'
    <3>1. \A q \in DOMAIN New : New[q].depth = Len(q)
      BY <2>1 DEF NewInv, ScanDepth, DepthOK
    <3>2. Top.depth = Len(b)
      BY <1>4, <2>1 DEF NewInv, ScanDepth
    <3>3. DepthOK(New)'
      BY <2>8, <2>9, <2>10, <3>1, <3>2 DEF DepthOK
    <3> QED
      BY <2>7, <3>3 DEF ScanDepth
  <2>13. Noticed(InNew)'
    <3>1. \A p : ~Held(p)
      BY <1>1 DEF Held
    <3> QED
      BY <1>2, <2>1, <2>2, <2>11, <3>1 DEF Noticed
  <2>14. ASSUME NEW q \in Dirs \cap Fresh', q \notin OnItsWay
         PROVE  Balanced(New', q, 0)
    <3>1. q \in Path /\ IsUnder(q, b)
      BY <1>5, DiskFacts, Order
    <3>2. ASSUME NEW S, S \subseteq DOMAIN New, b \notin S
          PROVE  SumOf(New', S) = SumOf(New, S)
      <4>1. \A p \in S : New'[p].total = New[p].total
        BY <2>9, <3>2
      <4> QED
        BY <4>1, SumSame
    <3>3. b \notin Children(q)
      BY <1>5, DiskFacts
    <3>4. CASE q = b
      <4>1. Top.sum = own[q] + SumOf(New, Children(q)) /\ Children(q) \subseteq DOMAIN New
            /\ \A x \in InNew : x # <<>> /\ Front(x) = q => x \in Children(q)
        <5>1. Top.dir \in Dirs /\ Top.dir \notin OnItsWay
          BY <1>4, <2>14, <3>4
        <5> QED
          BY <1>1, <1>3, <1>4, <2>1, <3>4, <5>1, TopMeasured
      <4>2. Kids(New', q) = Children(q)
        BY <2>8, <2>11, <4>1, DiskFacts DEF Kids
      <4>3. SumOf(New', Children(q)) = SumOf(New, Children(q))
        BY <3>2, <3>3, <4>1
      <4> QED
        BY <1>4, <2>10, <3>4, <4>1, <4>2, <4>3 DEF Balanced
    <3>5. CASE q # b
      <4>1. q \in DOMAIN New /\ Visited(q)
        BY <1>4, <2>6, <2>14, <3>5
      <4>2. Balanced(New, q, 0)
        BY <2>1, <2>14, <3>1, <4>1 DEF NewKept, b
      <4>3. Kids(New, q) = Children(q) /\ New[q].total + 0 = own[q] + SumOf(New, Children(q))
        BY <4>2 DEF Balanced
      <4>4. Kids(New', q) = Kids(New, q)
        BY <1>5, <2>8 DEF Kids
      <4>5. SumOf(New', Children(q)) = SumOf(New, Children(q))
        BY <3>2, <3>3, <4>3 DEF Kids
      <4>6. New'[q] = New[q]
        BY <2>9, <3>5, <4>1
      <4> QED
        BY <4>3, <4>4, <4>5, <4>6 DEF Balanced
    <3> QED
      BY <3>4, <3>5
  <2>15. SweepClaim'
    <3>1. <<>> \in Fresh'
      BY <1>5, <2>6
    <3>2. \A q \in Fresh', e \in Path : IsUnder(q, e) => e \in Fresh'
      BY <1>1, <2>1, <2>6, <2>11 DEF RootKept
    <3> QED
      BY <1>2, <2>2, <2>14, <3>1, <3>2 DEF SweepClaim, Balanced
  <2> QED
    BY <2>7, <2>12, <2>13, <2>15 DEF NewInv
<1> QED
  BY <1>1, <1>2, <1>6, <1>7, <1>8, <1>9, RestShape DEF BookInv

\* Rows that the scan has not met go: the books of all that are left balance.
LEMMA SweepStep ==
  ASSUME TypeInv, TypeInv', BookInv, Sweep
  PROVE  BookInv'
<1>1. /\ job.at = "sweep" /\ job' = Idle
      /\ rows' = Young(Without(rows, {p \in Known : p # <<>> /\ rows[p].old}))
      /\ trust' \in {"full", "lost"} /\ (trust' = "full" => trust \in {"full", "healing"})
      /\ UNCHANGED <<disk, watcher, queue, scan>>
  BY DEF Sweep, TypeInv, TypeDisk
<1>2. own' = own /\ NoRenames' /\ TreeInv' /\ OnItsWay' = OnItsWay
  BY <1>1, SameOutside DEF OnItsWay, watcher
<1>3. stack' = <<>> /\ out' = <<>> /\ out = <<>> /\ DOMAIN out = {}
  BY <1>1, EmptySeq DEF BookInv, Shape, JobShape, scan
<1>4. job'.at = "idle"
  BY <1>1 DEF Idle
<1>5. JobShape'
  BY <1>3, <1>4 DEF JobShape
<1>6. ASSUME trust \in {"full", "healing"} PROVE FullInv' /\ NewInv'
  <2>1. NewInv /\ SweepClaim
    BY <1>6 DEF BookInv, NewInv
  <2>2. /\ <<>> \in Fresh
        /\ \A q \in Fresh, e \in Path : IsUnder(q, e) => e \in Fresh
        /\ \A q \in Dirs \cap Fresh : q \notin OnItsWay => Balanced(New, q, 0)
    BY <1>1, <2>1 DEF SweepClaim
  <2>3. Fresh = {p \in Known : ~rows[p].old}
    BY <1>1 DEF Fresh
  <2>4. DOMAIN New = Fresh /\ \A p \in Fresh : New[p] = rows[p] /\ New[p] \in Row
    BY <1>3, NewFacts
  <2> DEFINE kept == Without(rows, {p \in Known : p # <<>> /\ rows[p].old})
  <2>5. DOMAIN kept = Fresh /\ \A p \in Fresh : kept[p] = rows[p]
    BY <2>2, <2>3 DEF Without, Known
  <2> HIDE DEF kept
  <2>6. Known' = Fresh /\ DOMAIN rows' = Fresh
        /\ \A p \in Fresh : rows'[p].total = New[p].total /\ rows'[p].depth = New[p].depth
    <3>1. rows' = Young(kept)
      BY <1>1 DEF kept
    <3>2. DOMAIN rows' = Fresh /\ \A p \in Fresh : rows'[p] = [New[p] EXCEPT !.old = FALSE]
      BY <2>4, <2>5, <3>1 DEF Young
    <3> QED
      BY <2>4, <3>2 DEF Known, Row
  <2>7. Dirs' = Dirs /\ \A p : Missing(p)' = Missing(p) /\ Children(p)' = Children(p)
    BY <1>2, SameDisk
  <2>8. \A p : ~Held(p) /\ ~Held(p)' /\ Delta(p)' = 0
    BY <1>1, <1>4 DEF Held, Delta, Raised
  <2>9. DepthOK(rows)'
    BY <2>1, <2>4, <2>6 DEF NewInv, ScanDepth, DepthOK
  <2>10. NoGap(Known)'
    BY <2>2, <2>6 DEF NoGap
  <2>11. Noticed(Known)'
    BY <1>2, <2>1, <2>4, <2>6, <2>7, <2>8 DEF NewInv, Noticed, InNew
  <2>12. BookKept'
    <3>1. SUFFICES ASSUME NEW d \in Dirs \cap Fresh, d \notin OnItsWay
                   PROVE  Balanced(rows', d, 0)
      BY <1>2, <2>6, <2>7, <2>8 DEF BookKept, Balanced
    <3>2. Kids(New, d) = Children(d) /\ New[d].total + 0 = own[d] + SumOf(New, Children(d))
      BY <2>2, <3>1 DEF Balanced
    <3>3. Kids(rows', d) = Kids(New, d)
      BY <2>4, <2>6 DEF Kids
    <3>4. \A p \in Children(d) : rows'[p].total = New[p].total
      BY <2>4, <2>6, <3>2 DEF Kids
    <3>5. SumOf(rows', Children(d)) = SumOf(New, Children(d))
      BY <3>4, SumSame
    <3> QED
      BY <2>6, <3>1, <3>2, <3>3, <3>5 DEF Balanced
  <2>13. Main'
    BY <2>9, <2>10, <2>11, <2>12 DEF Main
  <2>14. ~InScan' /\ ListClaim' /\ PurgeClaim' /\ NoGap(Raised)' /\ <<>> \in Known'
    BY <1>4, <2>2, <2>6 DEF InScan, ListClaim, PurgeClaim, NoGap, Raised
  <2> QED
    BY <1>3, <2>13, <2>14, RestBooks
<1> QED
  BY <1>1, <1>2, <1>3, <1>5, <1>6, RestShape DEF BookInv

\* A listing failed in the scan of the root: nothing is swept and no trust won back.
LEMMA RootScanFailsStep ==
  ASSUME TypeInv, TypeInv', BookInv, RootScanFails
  PROVE  BookInv'
<1>1. /\ job.at = "root" /\ rows' = Young(rows) /\ job' = Idle /\ stack' = <<>> /\ out' = <<>>
      /\ trust' # "healing" /\ (trust' = "full" => trust = "full" /\ \A p \in Known : rows[p].old)
      /\ UNCHANGED <<disk, watcher, queue>>
  BY DEF RootScanFails
<1>2. own' = own /\ NoRenames' /\ TreeInv' /\ OnItsWay' = OnItsWay
  BY <1>1, SameOutside DEF OnItsWay, watcher
<1>3. job'.at = "idle"
  BY <1>1 DEF Idle
<1>4. JobShape'
  BY <1>1, <1>3 DEF JobShape
<1>5. ASSUME trust' = "full" PROVE FullInv' /\ NewInv'
  <2>1. Main /\ <<>> \in Known
    <3>1. Untouched
      BY <1>1, <1>5 DEF Untouched
    <3> QED
      BY <1>1, <1>5, <3>1 DEF BookInv, FullInv
  <2>2. /\ Known' = Known
        /\ \A p \in Known : rows'[p].total = rows[p].total /\ rows'[p].depth = rows[p].depth
    <3>1. Known' = Known /\ \A p \in Known : rows'[p] = [rows[p] EXCEPT !.old = FALSE]
      BY <1>1 DEF Young, Known
    <3> QED
      BY <3>1, RowFacts DEF Row
  <2>3. \A p : Held(p)' = Held(p) /\ Delta(p) = 0 /\ Delta(p)' = 0
    BY <1>1, <1>3 DEF Held, Delta, Raised
  <2>4. Main'
    BY <1>2, <2>1, <2>2, <2>3, SameTotals
  <2>5. ~InScan' /\ ListClaim' /\ PurgeClaim' /\ NoGap(Raised)'
    BY <1>3 DEF InScan, ListClaim, PurgeClaim, NoGap, Raised
  <2> QED
    BY <1>1, <2>1, <2>2, <2>4, <2>5, RestBooks
<1> QED
  BY <1>1, <1>2, <1>4, <1>5, RestShape DEF BookInv

-----------------------------------------------------------------------------
(* The theorem.                                                            *)

\* Every step of the scheduler keeps the books,
LEMMA SchedulerStep ==
  ASSUME TypeInv, TypeInv', BookInv, Scheduler
  PROVE  BookInv'
<1>1. CASE Gone \/ Open \/ OpenFails
  BY <1>1, GoneStep, OpenStep, OpenFailsStep
<1>2. CASE ListingFails \/ ChildScanFails
  <2>1. job.at = "list" /\ GiveUp
    BY <1>2 DEF ListingFails, ChildScanFails
  <2> QED
    BY <2>1, GiveUpStep
<1>3. CASE ReadChildren \/ WriteRow \/ ReadAbove \/ ApplyAbove
  BY <1>3, ReadChildrenStep, WriteRowStep, ReadAboveStep, ApplyAboveStep
<1>4. CASE FlushChunk \/ Ascend \/ ChildScanned
  BY <1>4, FlushChunkStep, AscendStep, ChildScannedStep
<1>5. CASE BeginScanRoot \/ RootScanned \/ Sweep \/ RootScanFails
  BY <1>5, BeginScanRootStep, RootScannedStep, SweepStep, RootScanFailsStep
<1>6. ASSUME NEW p \in Path, Begin(p) \/ AddKnown(p) \/ AddUnknown(p) \/ Descend(p) \/ Purge(p)
      PROVE  BookInv'
  BY <1>6, BeginStep, AddKnownStep, AddUnknownStep, DescendStep, PurgeStep
<1> QED
  BY <1>1, <1>2, <1>3, <1>4, <1>5, <1>6 DEF Scheduler

\* as does every step of the program and of the disk.
LEMMA NextBook ==
  ASSUME TypeInv, TypeInv', BookInv, [Next]_vars, "rename" \notin Ops
  PROVE  BookInv'
<1>1. CASE Scheduler
  BY <1>1, SchedulerStep
<1>2. CASE Watcher
  BY <1>2, WatcherStep
<1>3. CASE Disk
  BY <1>3, DiskStep
<1>4. CASE UNCHANGED vars
  <2>1. /\ UNCHANGED <<own, rows, job, scan, trust>>
        /\ events' = events /\ affected' = affected /\ watch' = watch /\ queue' = queue
    BY <1>4 DEF vars, disk, watcher
  <2>2. OnItsWay' = OnItsWay
    BY <2>1 DEF OnItsWay
  <2>3. NoRenames'
    BY <2>1 DEF BookInv, NoRenames
  <2> QED
    BY <2>1, <2>2, <2>3, SameBooks
<1> QED
  BY <1>1, <1>2, <1>3, <1>4 DEF Next

\* The rows begin with the true sizes.
LEMMA InitBook == Init => BookInv
<1> SUFFICES ASSUME Init PROVE BookInv
  OBVIOUS
<1>1. TypeInv
  BY InitType
<1>2. /\ own \in [Initial -> 0..MaxSize] /\ events = <<>> /\ watch = Reading
      /\ rows = [p \in Initial |-> NewRow(TrueSize(p), Len(p))]
      /\ job = Idle /\ stack = <<>> /\ out = <<>> /\ trust = "full"
  BY DEF Init
<1>3. Dirs = Initial /\ Known = Initial /\ <<>> \in Initial
  BY <1>2, PathAssumption DEF Dirs, Known
<1>4. \A p \in Known : rows[p].total = TrueSize(p) /\ rows[p].depth = Len(p)
  BY <1>2, <1>3 DEF NewRow
<1>5. job.at = "idle"
  BY <1>2 DEF Idle
<1>6. Len(stack) = 0 /\ Len(events) = 0 /\ DOMAIN out = {}
  BY <1>2, EmptySeq
<1>7. Depths = {} /\ FoundDirs = {} /\ ~Complete
  <2>1. Depths = {}
    BY <1>6 DEF Depths
  <2> QED
    BY <1>2, <2>1 DEF FoundDirs, Complete
<1>8. NoRenames
  BY <1>2, <1>6 DEF NoRenames
<1>9. TreeInv
  BY <1>3, PathAssumption DEF TreeInv
<1>10. Shape
  BY <1>2, <1>5, <1>7 DEF Shape, JobShape, FramesChained, OutShape
<1>11. DepthOK(rows)
  BY <1>4 DEF DepthOK, Known
<1>12. ASSUME NEW d \in Known, NEW e \in Path, IsUnder(d, e) PROVE ~Missing(e)
  BY <1>1, <1>3, <1>9, <1>12, DirAbove DEF Missing
<1>13. NoGap(Known) /\ Noticed(Known)
  <2>1. \A e \in Known : ~Missing(e)
    BY <1>3 DEF Missing
  <2> QED
    BY <1>12, <2>1 DEF NoGap, Noticed
<1>14. ASSUME NEW d \in Dirs PROVE Balanced(rows, d, 0)
  <2>1. Kids(rows, d) = Children(d)
    BY <1>3 DEF Kids, Children, Known
  <2>2. SumOf(rows, Children(d)) = SumOf(TrueRows, Children(d))
    <3>1. \A p \in Children(d) : rows[p].total = TrueRows[p].total
      BY <1>3, <1>4 DEF TrueRows, Children
    <3> QED
      BY <3>1, SumSame
  <2>3. TrueSize(d) = own[d] + SumOf(TrueRows, Children(d)) /\ TrueSize(d) \in Nat
    BY <1>1, <1>9, TrueSizeSum, BelowType DEF TypeInv
  <2>4. rows[d].total = TrueSize(d)
    BY <1>3, <1>4
  <2> QED
    BY <2>1, <2>2, <2>3, <2>4 DEF Balanced
<1>15. Raised = {} /\ \A d : Delta(d) = 0
  BY <1>5 DEF Raised, Delta
<1>16. Main
  BY <1>11, <1>13, <1>14, <1>15 DEF Main, BookKept
<1>17. FullInv
  <2>1. ~InScan /\ ListClaim /\ PurgeClaim
    BY <1>5 DEF InScan, ListClaim, PurgeClaim
  <2>2. NoGap(DOMAIN out \cup FoundDirs \cup Raised)
    BY <1>6, <1>7, <1>15 DEF NoGap
  <2> QED
    BY <1>2, <1>3, <1>16, <2>1, <2>2 DEF FullInv
<1>18. NewInv
  <2>1. Fresh = Known
    BY <1>5 DEF Fresh
  <2>2. DOMAIN New = Known /\ \A p \in Known : New[p] = rows[p]
    BY <1>1, <1>6, <2>1, NewFacts
  <2>3. ScanDepth
    BY <1>4, <1>7, <2>2 DEF ScanDepth, DepthOK
  <2>4. Noticed(InNew)
    BY <1>7, <1>13, <2>2 DEF InNew
  <2>5. SweepClaim
    BY <1>5 DEF SweepClaim
  <2> QED
    BY <1>7, <2>3, <2>4, <2>5 DEF NewInv
<1> QED
  BY <1>2, <1>8, <1>9, <1>10, <1>17, <1>18 DEF BookInv

\* Once everything has been worked off, balanced books are right.
LEMMA BookSettles == TypeInv /\ BookInv => TotalsSettle
<1> SUFFICES ASSUME TypeInv, BookInv, Quiet, trust = "full" PROVE Exact
  BY DEF TotalsSettle
<1>1. /\ events = <<>> /\ affected = {} /\ queue = {} /\ job = Idle
  BY DEF Quiet
<1>2. job.at = "idle"
  BY <1>1 DEF Idle
<1>3. OnItsWay = {}
  <2>1. Range(events) = {}
    BY <1>1, EmptySeq DEF Range
  <2> QED
    BY <1>1, <2>1 DEF OnItsWay
<1>4. \A d : ~Held(d) /\ Delta(d) = 0
  BY <1>2 DEF Held, Delta, Raised
<1>5. Main /\ <<>> \in Known /\ TreeInv
  BY <1>2 DEF BookInv, FullInv, InScan
<1>6. \A d \in Dirs \cap Known : Anchored(rows, d) => Balanced(rows, d, 0)
  BY <1>3, <1>4, <1>5 DEF Main, BookKept
<1>7. Dirs \subseteq Path /\ \A d \in Dirs, q \in Path : IsUnder(d, q) => q \in Dirs
  BY <1>5, DirAbove, DiskFacts
<1>8. Dirs \subseteq Known
  <2> DEFINE T == Dirs \ Known
             L == {Len(p) : p \in T}
  <2>1. SUFFICES ASSUME T # {} PROVE FALSE
    OBVIOUS
  <2>2. PICK p \in T : \A q \in T : Len(p) <= Len(q)
    <3>1. L \subseteq Nat /\ L # {}
      BY <1>7, <2>1, Sequences
    <3> HIDE DEF L
    <3>2. PICK n \in L : \A m \in L : n <= m
      BY <3>1, LeastOf
    <3> USE DEF L
    <3> QED
      BY <3>2
  <2>3. p \in Path /\ p # <<>> /\ Front(p) \in Dirs /\ Len(p) \in Nat /\ Len(Front(p)) = Len(p) - 1
    BY <1>5, <1>7, Parent DEF TreeInv
  <2>4. ASSUME NEW q \in Path, IsUnder(Front(p), q) PROVE q \in Known
    <3>1. q \in Dirs /\ Len(q) <= Len(Front(p)) /\ Len(q) \in Nat
      BY <1>7, <2>3, <2>4, Order, Sequences
    <3>2. ~(Len(p) <= Len(q))
      BY <2>3, <3>1
    <3> QED
      BY <2>2, <3>1, <3>2
  <2>5. Front(p) \in Known /\ Anchored(rows, Front(p))
    BY <1>7, <2>3, <2>4, Order DEF Anchored, Known
  <2>6. Kids(rows, Front(p)) = Children(Front(p))
    BY <1>6, <2>3, <2>5 DEF Balanced
  <2>7. p \in Children(Front(p))
    BY <2>2, <2>3 DEF Children
  <2> QED
    BY <2>2, <2>6, <2>7 DEF Kids, Known
<1>9. ASSUME NEW d \in Dirs PROVE Balanced(rows, d, 0)
  <2>1. Anchored(rows, d)
    BY <1>7, <1>8 DEF Anchored, Known
  <2> QED
    BY <1>6, <1>8, <2>1
<1> DEFINE Sub(p) == {q \in Dirs : IsUnder(q, p)}
           W == {p \in Dirs : rows[p].total # TrueSize(p)}
           N == {Cardinality(Sub(p)) : p \in W}
<1>10. W = {}
  <2>1. SUFFICES ASSUME W # {} PROVE FALSE
    OBVIOUS
  <2>2. \A p : IsFiniteSet(Sub(p)) /\ Cardinality(Sub(p)) \in Nat
    <3>1. IsFiniteSet(Dirs)
      BY <1>7, PathAssumption, FS_Subset
    <3>2. \A p : Sub(p) \in SUBSET Dirs
      OBVIOUS
    <3> HIDE DEF Sub
    <3> QED
      BY <3>1, <3>2, FS_Subset, FS_CardinalityType
  <2>3. PICK p \in W : \A q \in W : Cardinality(Sub(p)) <= Cardinality(Sub(q))
    <3>1. N \subseteq Nat /\ N # {}
      BY <2>1, <2>2
    <3> HIDE DEF N
    <3>2. PICK n \in N : \A m \in N : n <= m
      BY <3>1, LeastOf
    <3> USE DEF N
    <3> QED
      BY <3>2
  <2>4. p \in Dirs /\ p \in Path /\ Kids(rows, p) = Children(p)
        /\ rows[p].total + 0 = own[p] + SumOf(rows, Children(p))
    BY <1>7, <1>9 DEF Balanced
  <2>5. ASSUME NEW c \in Children(p) PROVE rows[c].total = TrueRows[c].total
    <3>1. c \in Dirs /\ c \in Path /\ c # <<>> /\ Front(c) = p
      BY <1>7, DiskFacts
    <3>2. Sub(c) \subseteq Sub(p) /\ p \in Sub(p) /\ p \notin Sub(c)
      BY <1>7, <2>4, <3>1, Order, Parent
    <3>3. Cardinality(Sub(c)) < Cardinality(Sub(p))
      <4>1. IsFiniteSet(Sub(p)) /\ Cardinality(Sub(p)) \in Nat /\ Cardinality(Sub(c)) \in Nat
        BY <2>2
      <4> HIDE DEF Sub
      <4>2. Cardinality(Sub(c)) <= Cardinality(Sub(p)) /\ Cardinality(Sub(c)) # Cardinality(Sub(p))
        BY <3>2, <4>1, FS_Subset
      <4> QED
        BY <4>1, <4>2
    <3>4. c \notin W
      <4> HIDE DEF Sub, W
      <4>1. c \in W => Cardinality(Sub(p)) <= Cardinality(Sub(c))
        BY <2>3
      <4>2. Cardinality(Sub(p)) \in Nat /\ Cardinality(Sub(c)) \in Nat
        BY <2>2
      <4> QED
        BY <3>3, <4>1, <4>2
    <3> QED
      BY <3>1, <3>4 DEF TrueRows
  <2>6. SumOf(rows, Children(p)) = SumOf(TrueRows, Children(p))
    BY <2>5, SumSame
  <2>7. TrueSize(p) = own[p] + SumOf(TrueRows, Children(p))
    BY <1>5, <2>4, TrueSizeSum DEF TypeInv
  <2>8. rows[p].total \in Nat
    BY <1>8, <2>4, RowFacts
  <2> QED
    BY <2>3, <2>4, <2>6, <2>7, <2>8
<1> QED
  BY <1>8, <1>10 DEF Exact

\* When all notifications have been worked off and trust is not lost, every
\* directory has a row with the size of what is below it: however the changes of
\* the disk interleave with the listings of RescanOne, the differences that
\* PropagateAncestorDeltas adds to the rows above, the purges, the scans of new
\* directories and those of the whole root (ScanDirectory, ScanRoot) with the
\* listings that fail in them.  Directories appear, vanish, are moved in and out;
\* a rename inside the tree (HandleDirectoryRename) is left to TLC.
THEOREM TotalsHold ==
  ASSUME "rename" \notin Ops
  PROVE  Spec => []TotalsSettle
<1>1. Init => TypeInv /\ BookInv
  BY InitType, InitBook
<1>2. TypeInv /\ BookInv /\ [Next]_vars => (TypeInv /\ BookInv)'
  BY NextType, NextBook
<1>3. TypeInv /\ BookInv => TotalsSettle
  BY BookSettles
<1> QED
  BY <1>1, <1>2, <1>3, PTL DEF Spec

=============================================================================
