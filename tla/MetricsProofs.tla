---------------------------- MODULE MetricsProofs ----------------------------
(* The safety properties of MetricsPipeline, for every scenario, every     *)
(* number of overlapping runs and of failures: what a run carries, the     *)
(* conversion, the types, returns stored in time, a run alone, and the     *)
(* queries.                                                                *)
EXTENDS MetricsPipeline, FiniteSetTheorems, WellFoundedInduction, TLAPS

-----------------------------------------------------------------------------
(* Sums.  A fold takes the elements of a set one by one; the sum is the number *)
(* of the pairs of an element and one of its units, in whatever order.         *)

Units(f, S) == UNION {{x} \X (1 .. f[x]) : x \in S}
SumOf(f, S) == Cardinality(Units(f, S))

LEMMA UnitsAreFinite ==
  ASSUME NEW S, IsFiniteSet(S), NEW f \in [S -> Nat], NEW T \in SUBSET S
  PROVE  IsFiniteSet(Units(f, T)) /\ SumOf(f, T) \in Nat
<1> DEFINE V == {{x} \X (1 .. f[x]) : x \in T}
<1>1. IsFiniteSet(T)
  BY FS_Subset
<1>2. IsFiniteSet(V)
  <2> DEFINE g == [x \in T |-> {x} \X (1 .. f[x])]
  <2>1. g \in Surjection(T, V)
    BY DEF Surjection
  <2> HIDE DEF g, V
  <2> QED BY <1>1, <2>1, FS_Surjection
<1>3. ASSUME NEW x \in T PROVE IsFiniteSet({x} \X (1 .. f[x]))
  <2>1. f[x] \in Nat
    OBVIOUS
  <2>2. IsFiniteSet({x}) /\ IsFiniteSet(1 .. f[x])
    <3>1. IsFiniteSet({x})
      BY FS_Singleton
    <3>2. 1 \in Int /\ f[x] \in Int
      BY <2>1
    <3> QED BY <3>1, <3>2, FS_Interval
  <2> QED BY <2>2, FS_Product
<1>4. IsFiniteSet(UNION V)
  <2>1. \A v \in V : IsFiniteSet(v)
    BY <1>3
  <2> HIDE DEF V
  <2> QED BY <1>2, <2>1, FS_UNION
<1> QED BY <1>4, FS_CardinalityType DEF Units, SumOf

LEMMA SumOfOneMore ==
  ASSUME NEW S, IsFiniteSet(S), NEW f \in [S -> Nat], NEW T \in SUBSET S, NEW x \in T
  PROVE  SumOf(f, T) = f[x] + SumOf(f, T \ {x})
<1> DEFINE A == {x} \X (1 .. f[x])
           B == Units(f, T \ {x})
<1>1. f[x] \in Nat
  OBVIOUS
<1>2. IsFiniteSet(A) /\ Cardinality(A) = f[x]
  <2>1. IsFiniteSet({x}) /\ Cardinality({x}) = 1
    BY FS_Singleton
  <2>2. IsFiniteSet(1 .. f[x]) /\ Cardinality(1 .. f[x]) = f[x]
    BY <1>1, FS_Interval
  <2> QED BY <1>1, <2>1, <2>2, FS_Product
<1>3. IsFiniteSet(B) /\ Cardinality(B) \in Nat
  BY UnitsAreFinite DEF SumOf
<1>4. Units(f, T) = A \union B
  BY DEF Units
<1>5. A \intersect B = {}
  BY DEF Units
<1> HIDE DEF A, B
<1>6. Cardinality(A \union B) = Cardinality(A) + Cardinality(B)
  <2>1. Cardinality(A \intersect B) = 0
    BY <1>5, FS_EmptySet
  <2>2. Cardinality(A \union B) = Cardinality(A) + Cardinality(B) - Cardinality(A \intersect B)
    BY <1>2, <1>3, FS_Union
  <2> QED BY <1>1, <1>2, <1>3, <2>1, <2>2
<1> QED BY <1>2, <1>4, <1>6 DEF SumOf, B

LEMMA SumOfNone == \A f : SumOf(f, {}) = 0
BY FS_EmptySet DEF SumOf, Units

LEMMA SumIsCounted ==
  ASSUME NEW S, IsFiniteSet(S), NEW f \in [S -> Nat],
         NEW g, g = [s \in SUBSET S |-> IF s = {} THEN 0
                       ELSE f[CHOOSE x \in s : TRUE] + g[s \ {CHOOSE x \in s : TRUE}]]
  PROVE  g[S] = SumOf(f, S)
<1> DEFINE Wrong == {n \in Nat : \E s \in SUBSET S : Cardinality(s) = n /\ g[s] # SumOf(f, s)}
           R == {ss \in Nat \X Nat : ss[1] < ss[2]}
<1>1. SUFFICES ASSUME Wrong # {} PROVE FALSE
  <2>1. S \in SUBSET S /\ Cardinality(S) \in Nat
    BY FS_CardinalityType
  <2> QED BY <1>1, <2>1
<1>2. IsWellFoundedOn(R, Nat)
  BY NatLessThanWellFounded DEF OpToRel
<1>3. PICK n \in Wrong : \A m \in Wrong : <<m, n>> \notin R
  <2> HIDE DEF R
  <2>1. Wrong \subseteq Nat
    OBVIOUS
  <2> HIDE DEF Wrong
  <2> QED BY <1>1, <1>2, <2>1, WFMin
<1>4. PICK s \in SUBSET S : Cardinality(s) = n /\ g[s] # SumOf(f, s)
  BY <1>3
<1>5. IsFiniteSet(s) /\ n \in Nat
  BY <1>4, FS_Subset
<1>6. s # {}
  BY <1>4, SumOfNone
<1> DEFINE x == CHOOSE y \in s : TRUE
<1>7. x \in s
  BY <1>6
<1> HIDE DEF x
<1>8. g[s] = f[x] + g[s \ {x}]
  BY <1>6 DEF x
<1>9. Cardinality(s \ {x}) = n - 1 /\ n - 1 \in Nat /\ n - 1 < n
  <2>1. Cardinality(s \ {x}) = n - 1 /\ Cardinality(s \ {x}) \in Nat
    BY <1>4, <1>5, <1>7, FS_RemoveElement, FS_CardinalityType
  <2> QED BY <1>5, <2>1
<1>10. g[s \ {x}] = SumOf(f, s \ {x})
  <2>1. <<n - 1, n>> \in R
    BY <1>5, <1>9
  <2>2. n - 1 \notin Wrong
    BY <1>3, <2>1
  <2> QED BY <1>9, <2>2
<1>11. SumOf(f, s) = f[x] + SumOf(f, s \ {x})
  BY <1>7, SumOfOneMore
<1> QED BY <1>4, <1>8, <1>10, <1>11

\* A sum over a set of rows, and one over positions of raw.
LEMMA SumOfValues ==
  ASSUME NEW S, IsFiniteSet(S), \A w \in S : w.value \in Nat
  PROVE  /\ [w \in S |-> w.value] \in [S -> Nat]
         /\ MapThenSumSet(LAMBDA w : w.value, S) = SumOf([w \in S |-> w.value], S)
<1> DEFINE f == [w \in S |-> w.value]
           It(g) == g = [s \in SUBSET S |-> IF s = {} THEN 0
                       ELSE (CHOOSE x \in s : TRUE).value + g[s \ {CHOOSE x \in s : TRUE}]]
           total == [s \in SUBSET S |-> SumOf(f, s)]
           iter == CHOOSE g : It(g)
<1>1. f \in [S -> Nat]
  OBVIOUS
<1>2. \A s \in SUBSET S : s # {} =>
        /\ f[CHOOSE x \in s : TRUE] = (CHOOSE x \in s : TRUE).value
        /\ SumOf(f, s) = f[CHOOSE x \in s : TRUE] + SumOf(f, s \ {CHOOSE x \in s : TRUE})
  <2> SUFFICES ASSUME NEW s \in SUBSET S, s # {}
               PROVE  /\ f[CHOOSE x \in s : TRUE] = (CHOOSE x \in s : TRUE).value
                      /\ SumOf(f, s) = f[CHOOSE x \in s : TRUE]
                                         + SumOf(f, s \ {CHOOSE x \in s : TRUE})
    OBVIOUS
  <2>1. PICK x \in s : x = CHOOSE y \in s : TRUE
    OBVIOUS
  <2>2. f[x] = x.value
    OBVIOUS
  <2> HIDE DEF f
  <2>3. SumOf(f, s) = f[x] + SumOf(f, s \ {x})
    BY <1>1, SumOfOneMore
  <2> QED BY <2>1, <2>2, <2>3
<1> HIDE DEF f
<1>3. It(total)
  <2>1. \A s \in SUBSET S : SumOf(f, s) =
          IF s = {} THEN 0
          ELSE (CHOOSE x \in s : TRUE).value + SumOf(f, s \ {CHOOSE x \in s : TRUE})
    BY <1>2, SumOfNone
  <2>2. \A s \in SUBSET S : total[s \ {CHOOSE x \in s : TRUE}] = SumOf(f, s \ {CHOOSE x \in s : TRUE})
    OBVIOUS
  <2>3. \A s \in SUBSET S : SumOf(f, s) =
          IF s = {} THEN 0
          ELSE (CHOOSE x \in s : TRUE).value + total[s \ {CHOOSE x \in s : TRUE}]
    BY <2>1, <2>2
  <2> QED BY <2>3
<1>4. It(iter)
  BY <1>3, Zenon
<1>5. MapThenSumSet(LAMBDA w : w.value, S) = iter[S]
  BY Zenon DEF MapThenSumSet, MapThenFoldSet
<1> HIDE DEF iter
<1>6. iter = [s \in SUBSET S |-> IF s = {} THEN 0
                ELSE f[CHOOSE x \in s : TRUE] + iter[s \ {CHOOSE x \in s : TRUE}]]
  <2>1. \A s \in SUBSET S :
          (IF s = {} THEN 0 ELSE (CHOOSE x \in s : TRUE).value + iter[s \ {CHOOSE x \in s : TRUE}])
          = (IF s = {} THEN 0 ELSE f[CHOOSE x \in s : TRUE] + iter[s \ {CHOOSE x \in s : TRUE}])
    <3> SUFFICES ASSUME NEW s \in SUBSET S, s # {}
                 PROVE  (CHOOSE x \in s : TRUE).value = f[CHOOSE x \in s : TRUE]
      OBVIOUS
    <3> QED BY <1>2, Zenon
  <2> QED BY <1>4, <2>1, Zenon
<1>7. iter[S] = SumOf(f, S)
  BY <1>1, <1>6, SumIsCounted
<1> QED BY <1>1, <1>5, <1>7 DEF f

LEMMA SumOfProgress ==
  ASSUME NEW S, IsFiniteSet(S), \A i \in S : raw[i].progress \in Nat
  PROVE  /\ [i \in S |-> raw[i].progress] \in [S -> Nat]
         /\ MapThenSumSet(LAMBDA i : raw[i].progress, S) = SumOf([i \in S |-> raw[i].progress], S)
<1> DEFINE f == [i \in S |-> raw[i].progress]
           It(g) == g = [s \in SUBSET S |-> IF s = {} THEN 0
                       ELSE raw[CHOOSE x \in s : TRUE].progress + g[s \ {CHOOSE x \in s : TRUE}]]
           total == [s \in SUBSET S |-> SumOf(f, s)]
           iter == CHOOSE g : It(g)
<1>1. f \in [S -> Nat]
  OBVIOUS
<1>2. \A s \in SUBSET S : s # {} =>
        /\ f[CHOOSE x \in s : TRUE] = raw[CHOOSE x \in s : TRUE].progress
        /\ SumOf(f, s) = f[CHOOSE x \in s : TRUE] + SumOf(f, s \ {CHOOSE x \in s : TRUE})
  <2> SUFFICES ASSUME NEW s \in SUBSET S, s # {}
               PROVE  /\ f[CHOOSE x \in s : TRUE] = raw[CHOOSE x \in s : TRUE].progress
                      /\ SumOf(f, s) = f[CHOOSE x \in s : TRUE]
                                         + SumOf(f, s \ {CHOOSE x \in s : TRUE})
    OBVIOUS
  <2>1. PICK x \in s : x = CHOOSE y \in s : TRUE
    OBVIOUS
  <2>2. f[x] = raw[x].progress
    OBVIOUS
  <2> HIDE DEF f
  <2>3. SumOf(f, s) = f[x] + SumOf(f, s \ {x})
    BY <1>1, SumOfOneMore
  <2> QED BY <2>1, <2>2, <2>3
<1> HIDE DEF f
<1>3. It(total)
  <2>1. \A s \in SUBSET S : SumOf(f, s) =
          IF s = {} THEN 0
          ELSE raw[CHOOSE x \in s : TRUE].progress + SumOf(f, s \ {CHOOSE x \in s : TRUE})
    BY <1>2, SumOfNone
  <2>2. \A s \in SUBSET S : total[s \ {CHOOSE x \in s : TRUE}] = SumOf(f, s \ {CHOOSE x \in s : TRUE})
    OBVIOUS
  <2>3. \A s \in SUBSET S : SumOf(f, s) =
          IF s = {} THEN 0
          ELSE raw[CHOOSE x \in s : TRUE].progress + total[s \ {CHOOSE x \in s : TRUE}]
    BY <2>1, <2>2
  <2> QED BY <2>3
<1>4. It(iter)
  BY <1>3, Zenon
<1>5. MapThenSumSet(LAMBDA i : raw[i].progress, S) = iter[S]
  BY Zenon DEF MapThenSumSet, MapThenFoldSet
<1> HIDE DEF iter
<1>6. iter = [s \in SUBSET S |-> IF s = {} THEN 0
                ELSE f[CHOOSE x \in s : TRUE] + iter[s \ {CHOOSE x \in s : TRUE}]]
  <2>1. \A s \in SUBSET S :
          (IF s = {} THEN 0 ELSE raw[CHOOSE x \in s : TRUE].progress + iter[s \ {CHOOSE x \in s : TRUE}])
          = (IF s = {} THEN 0 ELSE f[CHOOSE x \in s : TRUE] + iter[s \ {CHOOSE x \in s : TRUE}])
    BY <1>2
  <2> QED BY <1>4, <2>1, Zenon
<1>7. iter[S] = SumOf(f, S)
  BY <1>1, <1>6, SumIsCounted
<1> QED BY <1>1, <1>5, <1>7 DEF f

\* A sum of the sizes of sets that share nothing is the size of their union.
LEMMA SumOfParts ==
  ASSUME NEW S, IsFiniteSet(S), NEW f \in [S -> Nat], NEW F,
         \A w \in S : IsFiniteSet(F[w]) /\ Cardinality(F[w]) = f[w],
         \A v \in S : \A w \in S \ {v} : F[v] \intersect F[w] = {}
  PROVE  SumOf(f, S) = Cardinality(UNION {F[w] : w \in S})
<1> DEFINE U == UNION {F[w] : w \in S}
           Count(w) == CHOOSE h : h \in Bijection(1 .. f[w], F[w])
           H == [w \in S |-> Count(w)]
           P == Units(f, S)
           g == [p \in P |-> H[p[1]][p[2]]]
<1>1. \A w \in S : H[w] \in Bijection(1 .. f[w], F[w])
  <2> SUFFICES ASSUME NEW w \in S PROVE Count(w) \in Bijection(1 .. f[w], F[w])
    OBVIOUS
  <2> QED BY FS_CardinalityType DEF ExistsBijection
<1> HIDE DEF Count, H
<1>2. \A p \in P : p[1] \in S /\ p[2] \in 1 .. f[p[1]] /\ p = <<p[1], p[2]>>
  BY DEF Units
<1>3. \A w \in S : \A k \in 1 .. f[w] : <<w, k>> \in P
  BY DEF Units
<1> HIDE DEF P
<1>4. ASSUME NEW p \in P
      PROVE  g[p] = H[p[1]][p[2]] /\ g[p] \in F[p[1]]
  BY <1>1, <1>2 DEF Bijection, Injection, IsInjective
<1>5. g \in [P -> U]
  BY <1>2, <1>4
<1>6. ASSUME NEW p \in P, NEW q \in P, g[p] = g[q]
      PROVE  p = q
  <2>1. p[1] = q[1]
    BY <1>2, <1>4, <1>6
  <2>2. p[2] = q[2]
    BY <1>1, <1>2, <1>4, <1>6, <2>1 DEF Bijection, Injection, IsInjective
  <2> QED BY <1>2, <2>1, <2>2
<1>7. ASSUME NEW e \in U
      PROVE  \E p \in P : g[p] = e
  <2>1. PICK w \in S : e \in F[w]
    OBVIOUS
  <2>2. PICK k \in 1 .. f[w] : H[w][k] = e
    BY <1>1, <2>1 DEF Bijection, Surjection
  <2>3. <<w, k>> \in P /\ g[<<w, k>>] = e
    BY <1>3, <2>2
  <2> QED BY <2>3
<1> HIDE DEF g, U
<1>8. g \in Bijection(P, U)
  BY <1>5, <1>6, <1>7 DEF Bijection, Injection, Surjection, IsInjective
<1>9. IsFiniteSet(P)
  BY UnitsAreFinite DEF P
<1>10. Cardinality(U) = Cardinality(P)
  BY <1>8, <1>9, FS_Bijection DEF ExistsBijection
<1> QED BY <1>10 DEF P, U, SumOf

-----------------------------------------------------------------------------
(* What a run carries is no older than the run *)

USE MetricsAssumption

Phases == {"idle", "delete", "insert", "read", "upsert"}
Rewriting(r) == phase[r] \in {"delete", "insert"}

\* The variables a run works with have their shapes, and a run that rewrites or
\* reads tables has a table left.
Shape ==
  /\ scenario \in Scenarios
  /\ raw \in Seq(scenario.events)
  /\ rows = [t \in scenario.tables |-> [d \in Date |-> rows[t][d]]]
  /\ phase \in [Run -> Phases]
  /\ todo \in [Run -> SUBSET scenario.tables]
  /\ target \in [Run -> Date]
  /\ payload = [r \in Run |-> payload[r]]
  /\ started \in [Run -> Nat]
  /\ \A r \in Run : started[r] <= Len(raw)
  /\ \A r \in Run : phase[r] \in {"delete", "insert", "read"} => todo[r] # {}
  /\ \A r \in Run : phase[r] = "read" => todo[r] \subseteq Readable

\* The tables run r has deleted from or rewritten.
Touched(r) ==
  {t \in scenario.tables : \/ phase[r] \in {"read", "upsert"}
                           \/ Rewriting(r) /\ t \notin todo[r]
                           \/ phase[r] = "insert" /\ t = Current(r)}

\* Nothing older than the run is left in the tables it has touched.
TouchedIsFresh ==
  \A r \in Run : \A t \in Touched(r) : \A w \in rows[t][target[r]] : w.seen >= started[r]

IInv == Shape /\ TouchedIsFresh /\ PayloadIsFresh

\* A run finds its next table: a set of tables that is not empty has a first.
LEMMA FirstOfTables ==
  ASSUME NEW tables \in SUBSET Table, tables # {}
  PROVE  First(RewriteRank, tables) \in tables
<1>1. \E t \in tables : \A u \in tables : RewriteRank[t] <= RewriteRank[u]
  <2>1. CASE "dau" \in tables
    BY <2>1 DEF Table, RewriteRank
  <2>2. CASE "dau" \notin tables /\ "avg" \in tables
    BY <2>2 DEF Table, RewriteRank
  <2>3. CASE tables \subseteq Table \ {"dau", "avg"} /\ "top" \in tables
    BY <2>3 DEF Table, RewriteRank
  <2>4. CASE tables \subseteq Table \ {"dau", "avg", "top"} /\ "conversion" \in tables
    BY <2>4 DEF Table, RewriteRank
  <2>5. CASE tables \subseteq {"retention", "device", "cohorts"} /\ "retention" \in tables
    BY <2>5 DEF Table, RewriteRank
  <2>6. CASE tables \subseteq {"device", "cohorts"} /\ "device" \in tables
    BY <2>6 DEF Table, RewriteRank
  <2>7. CASE tables = {"cohorts"}
    BY <2>7 DEF Table, RewriteRank
  <2>8. tables \subseteq {"dau", "avg", "top", "conversion", "retention", "device", "cohorts"}
    BY DEF Table
  <2>9. CASE tables \intersect {"dau", "avg", "top", "conversion"} = {}
    <3>1. tables \subseteq {"retention", "device", "cohorts"}
      BY <2>8, <2>9
    <3>2. CASE "retention" \in tables
      BY <2>5, <3>1, <3>2
    <3>3. CASE "retention" \notin tables /\ "device" \in tables
      BY <2>6, <3>1, <3>3
    <3>4. CASE "retention" \notin tables /\ "device" \notin tables
      <4>1. tables = {"cohorts"}
        BY <3>1, <3>4
      <4> QED BY <2>7, <4>1
    <3> QED BY <3>2, <3>3, <3>4
  <2>10. CASE tables \intersect {"dau", "avg", "top", "conversion"} # {}
    BY <2>1, <2>2, <2>3, <2>4, <2>8, <2>10 DEF Table
  <2> QED BY <2>9, <2>10
<1> QED BY <1>1 DEF First

LEMMA FirstOfReadable ==
  ASSUME NEW tables \in SUBSET Readable, tables # {}
  PROVE  First(ReadRank, tables) \in tables
<1>1. \E t \in tables : \A u \in tables : ReadRank[t] <= ReadRank[u]
  <2>1. CASE "dau" \in tables
    BY <2>1 DEF Table, Readable, ReadRank
  <2>2. CASE "dau" \notin tables /\ "avg" \in tables
    BY <2>2 DEF Table, Readable, ReadRank
  <2>3. CASE tables \subseteq Readable \ {"dau", "avg"} /\ "conversion" \in tables
    BY <2>3 DEF Table, Readable, ReadRank
  <2>4. CASE tables \subseteq {"retention", "top", "device"} /\ "retention" \in tables
    BY <2>4 DEF Table, Readable, ReadRank
  <2>5. CASE tables \subseteq {"top", "device"} /\ "top" \in tables
    BY <2>5 DEF Table, Readable, ReadRank
  <2>6. CASE tables = {"device"}
    BY <2>6 DEF Table, Readable, ReadRank
  <2> QED BY <2>1, <2>2, <2>3, <2>4, <2>5, <2>6 DEF Table, Readable
<1> QED BY <1>1 DEF First

\* What is read from a table is as recent as the rows it is read from.
LEMMA CellsAreRead ==
  ASSUME NEW t \in Readable, NEW found, NEW c \in Cells(t, found)
  PROVE  \E w \in found : c.seen = w.seen
<1>1. CASE t = "dau"
  BY <1>1 DEF Cells, Cell
<1>2. CASE t = "avg"
  BY <1>2 DEF Cells, Cell
<1>3. CASE t = "conversion"
  BY <1>3 DEF Cells, Cell
<1>4. CASE t = "retention"
  BY <1>4 DEF Cells, Cell
<1>5. CASE t = "top"
  BY <1>5 DEF Cells, Cell
<1>6. CASE t = "device"
  BY <1>6 DEF Cells, Cell
<1> QED BY <1>1, <1>2, <1>3, <1>4, <1>5, <1>6 DEF Readable, Table

-----------------------------------------------------------------------------
(* Steps.  A step of one run disturbs another one only through the rows, and *)
(* whatever is inserted has seen every event there is.                       *)

OnlyRun(r) ==
  \A o \in Run \ {r} : /\ phase'[o] = phase[o] /\ todo'[o] = todo[o] /\ target'[o] = target[o]
                        /\ started'[o] = started[o] /\ payload'[o] = payload[o]
RowsAreRecent ==
  \A t \in scenario.tables, d \in Date : \A w \in rows'[t][d] :
    w \in rows[t][d] \/ w.seen = Len(raw)

LEMMA OtherRuns ==
  ASSUME IInv, Shape', NEW r \in Run, scenario' = scenario, raw' = raw, OnlyRun(r), RowsAreRecent,
         \A t \in Touched(r)' : \A w \in rows'[t][target'[r]] : w.seen >= started'[r],
         \A c \in payload'[r] : c.seen >= started'[r]
  PROVE  IInv'
<1>1. ASSUME NEW o \in Run, NEW t \in Touched(o)', NEW w \in rows'[t][target'[o]]
      PROVE  w.seen >= started'[o]
  <2>1. CASE o = r
    BY <1>1, <2>1
  <2>2. CASE o # r
    <3>1. phase'[o] = phase[o] /\ todo'[o] = todo[o] /\ target'[o] = target[o] /\ started'[o] = started[o]
      BY <2>2 DEF OnlyRun
    <3>2. t \in Touched(o) /\ t \in scenario.tables
      BY <3>1, <1>1 DEF Touched, Rewriting, Current
    <3>. target[o] \in Date /\ w \in rows'[t][target[o]]
      BY <1>1, <3>1 DEF IInv, Shape
    <3>3. w \in rows[t][target[o]] \/ w.seen = Len(raw)
      BY <3>2 DEF RowsAreRecent
    <3>4. w.seen = Len(raw) => w.seen >= started[o]
      BY DEF IInv, Shape
    <3> QED BY <3>1, <3>2, <3>3, <3>4 DEF IInv, TouchedIsFresh
  <2> QED BY <2>1, <2>2
<1>2. PayloadIsFresh'
  BY DEF IInv, PayloadIsFresh, OnlyRun
<1> QED BY <1>1, <1>2 DEF IInv, TouchedIsFresh

LEMMA NothingOfRuns ==
  ASSUME IInv, UNCHANGED <<scenario, raw, rows, runVars>>
  PROVE  IInv'
<1>1. UNCHANGED <<phase, todo, target, payload, started>>
  BY DEF runVars
<1>2. Shape'
  BY <1>1 DEF IInv, Shape, Date
<1>3. \A r \in Run : Touched(r)' = Touched(r)
  BY <1>1 DEF Touched, Rewriting, Current
<1> QED BY <1>1, <1>2, <1>3 DEF IInv, TouchedIsFresh, PayloadIsFresh

LEMMA ArriveKeeps ==
  ASSUME IInv, NEW event \in scenario.events, Arrive(event)
  PROVE  IInv'
<1>1. UNCHANGED <<scenario, rows, phase, todo, target, payload, started>>
  BY DEF Arrive, runVars
<1>2. raw' \in Seq(scenario.events) /\ Len(raw') = Len(raw) + 1
  BY DEF Arrive, IInv, Shape
<1>3. Shape'
  BY <1>1, <1>2 DEF IInv, Shape, Date
<1>4. \A r \in Run : Touched(r)' = Touched(r)
  BY <1>1 DEF Touched, Rewriting, Current
<1> QED BY <1>1, <1>3, <1>4 DEF IInv, TouchedIsFresh, PayloadIsFresh

LEMMA BeginKeeps ==
  ASSUME IInv, NEW r \in Run, NEW d \in Date, Begin(r, d)
  PROVE  IInv'
<1>1. UNCHANGED <<scenario, raw, rows>> /\ OnlyRun(r)
  BY DEF Begin, environment, OnlyRun, IInv, Shape
<1>2. /\ phase'[r] = "delete" /\ todo'[r] = scenario.tables /\ target'[r] = d
      /\ payload'[r] = {} /\ started'[r] = Len(raw)
  BY DEF Begin, IInv, Shape
<1>3. Shape'
  <2>1. Len(raw) \in Nat
    BY DEF IInv, Shape
  <2>2. /\ phase' \in [Run -> Phases] /\ todo' \in [Run -> SUBSET scenario.tables]
        /\ target' \in [Run -> Date] /\ started' \in [Run -> Nat]
        /\ payload' = [o \in Run |-> payload'[o]]
    BY <2>1 DEF Begin, IInv, Shape, Phases
  <2>3. ASSUME NEW o \in Run PROVE started'[o] <= Len(raw')
    <3>1. CASE o = r
      BY <1>1, <1>2, <2>1, <3>1
    <3>2. CASE o # r
      BY <1>1, <3>2 DEF OnlyRun, IInv, Shape
    <3> QED BY <3>1, <3>2
  <2>4. \A o \in Run : phase'[o] \in {"delete", "insert", "read"} => todo'[o] # {}
    BY <1>1, <1>2 DEF OnlyRun, IInv, Shape
  <2>5. \A o \in Run : phase'[o] = "read" => todo'[o] \subseteq Readable
    BY <1>1, <1>2 DEF OnlyRun, IInv, Shape
  <2> QED BY <1>1, <2>2, <2>3, <2>4, <2>5 DEF IInv, Shape, Date
<1>4. Touched(r)' = {}
  BY <1>1, <1>2 DEF Touched, Rewriting
<1> QED BY <1>1, <1>2, <1>3, <1>4, OtherRuns DEF RowsAreRecent

\* A run that has ended, well or not, has nothing left to be wrong about.
LEMMA EndKeeps ==
  ASSUME IInv, NEW r \in Run, End(r), scenario' = scenario, raw' = raw, RowsAreRecent,
         rows' = [t \in scenario.tables |-> [d \in Date |-> rows'[t][d]]]
  PROVE  IInv'
<1>1. OnlyRun(r)
  BY DEF End, OnlyRun, IInv, Shape
<1>2. phase'[r] = "idle" /\ payload'[r] = {} /\ started'[r] = 0
  BY DEF End, IInv, Shape
<1>3. Shape'
  <2>1. 1 \in Date
    BY DEF Date, IInv, Shape
  <2>2. /\ phase' \in [Run -> Phases] /\ todo' \in [Run -> SUBSET scenario.tables]
        /\ target' \in [Run -> Date] /\ started' \in [Run -> Nat]
        /\ payload' = [o \in Run |-> payload'[o]]
    BY <2>1 DEF End, IInv, Shape, Phases
  <2>3. ASSUME NEW o \in Run PROVE started'[o] <= Len(raw')
    <3>1. CASE o = r
      BY <1>2, <3>1 DEF IInv, Shape
    <3>2. CASE o # r
      BY <1>1, <3>2 DEF OnlyRun, IInv, Shape
    <3> QED BY <3>1, <3>2
  <2>4. \A o \in Run : phase'[o] \in {"delete", "insert", "read"} => todo'[o] # {}
    BY <1>1, <1>2 DEF OnlyRun, IInv, Shape
  <2>5. \A o \in Run : phase'[o] = "read" => todo'[o] \subseteq Readable
    BY <1>1, <1>2 DEF OnlyRun, IInv, Shape
  <2> QED BY <2>2, <2>3, <2>4, <2>5 DEF IInv, Shape, Date
<1>4. Touched(r)' = {}
  BY <1>2 DEF Touched, Rewriting
<1> QED BY <1>1, <1>2, <1>3, <1>4, OtherRuns
\* What the statements of a run do to the tables.
LEMMA TableToWrite ==
  ASSUME IInv, NEW r \in Run, Rewriting(r)
  PROVE  Current(r) \in todo[r] /\ Current(r) \in scenario.tables /\ target[r] \in Date
<1>1. todo[r] \in SUBSET Table /\ todo[r] \in SUBSET scenario.tables /\ todo[r] # {}
  BY DEF IInv, Shape, Rewriting
<1> QED BY <1>1, FirstOfTables DEF Current, IInv, Shape

LEMMA ChangeIsRecent ==
  ASSUME IInv, NEW r \in Run, Rewriting(r), NEW new, Change(r, new),
         \A w \in new : w \in rows[Current(r)][target[r]] \/ w.seen = Len(raw)
  PROVE  /\ RowsAreRecent
         /\ rows'[Current(r)][target[r]] = new
         /\ \A d \in Date \ {target[r]} : rows'[Current(r)][d] = rows[Current(r)][d]
         /\ \A t \in scenario.tables \ {Current(r)} : rows'[t] = rows[t]
         /\ rows' = [t \in scenario.tables |-> [d \in Date |-> rows'[t][d]]]
<1> DEFINE T == Current(r)
<1>1. T \in scenario.tables /\ target[r] \in Date
  BY TableToWrite
<1>2. rows = [t \in scenario.tables |-> [d \in Date |-> rows[t][d]]]
  BY DEF IInv, Shape
<1>3. rows' = [rows EXCEPT ![T] = [rows[T] EXCEPT ![target[r]] = new]]
  BY DEF Change
<1> HIDE DEF T
<1>4. rows[T] = [d \in Date |-> rows[T][d]]
  BY <1>1, <1>2
<1>5. rows'[T] = [rows[T] EXCEPT ![target[r]] = new]
  BY <1>1, <1>2, <1>3
<1>6. \A t \in scenario.tables \ {T} : rows'[t] = rows[t]
  BY <1>2, <1>3
<1>7. /\ rows'[T][target[r]] = new
      /\ \A d \in Date \ {target[r]} : rows'[T][d] = rows[T][d]
      /\ rows'[T] = [d \in Date |-> rows'[T][d]]
  BY <1>1, <1>4, <1>5
<1>8. rows' = [t \in scenario.tables |-> rows'[t]]
  BY <1>1, <1>2, <1>3
<1>9. rows' = [t \in scenario.tables |-> [d \in Date |-> rows'[t][d]]]
  <2>1. \A t \in scenario.tables : rows'[t] = [d \in Date |-> rows'[t][d]]
    BY <1>1, <1>2, <1>6, <1>7
  <2> QED BY <1>8, <2>1
<1>10. RowsAreRecent
  BY <1>1, <1>6, <1>7 DEF RowsAreRecent, T
<1> QED BY <1>6, <1>7, <1>9, <1>10 DEF T
LEMMA ContinueKeeps ==
  ASSUME IInv, NEW r \in Run, NEW next \in Phases, NEW tables \in SUBSET scenario.tables,
         next \in {"delete", "insert", "read"} => tables # {}, next = "read" => tables \subseteq Readable,
         Continue(r, next, tables), UNCHANGED <<scenario, raw>>, RowsAreRecent,
         rows' = [t \in scenario.tables |-> [d \in Date |-> rows'[t][d]]],
         payload' = [o \in Run |-> payload'[o]], \A o \in Run \ {r} : payload'[o] = payload[o],
         \A t \in Touched(r)' : \A w \in rows'[t][target[r]] : w.seen >= started[r],
         \A c \in payload'[r] : c.seen >= started[r]
  PROVE  IInv'
<1>1. UNCHANGED <<target, started>> /\ phase'[r] = next /\ todo'[r] = tables /\ OnlyRun(r)
  BY DEF Continue, OnlyRun, IInv, Shape
<1>2. Shape'
  <2>1. phase' \in [Run -> Phases] /\ todo' \in [Run -> SUBSET scenario.tables]
    BY DEF Continue, IInv, Shape
  <2>2. \A o \in Run : phase'[o] \in {"delete", "insert", "read"} => todo'[o] # {}
    BY <1>1 DEF OnlyRun, IInv, Shape
  <2>3. \A o \in Run : phase'[o] = "read" => todo'[o] \subseteq Readable
    BY <1>1 DEF OnlyRun, IInv, Shape
  <2> QED BY <1>1, <2>1, <2>2, <2>3 DEF IInv, Shape, Date
<1> QED BY <1>1, <1>2, OtherRuns

LEMMA DeleteRowsKeeps ==
  ASSUME IInv, NEW r \in Run, DeleteRows(r)
  PROVE  IInv'
<1>1. Rewriting(r) /\ phase[r] = "delete" /\ scenario' = scenario /\ raw' = raw
  BY DEF DeleteRows, Rewriting, environment
<1>2. rows' = rows => RowsAreRecent /\ rows' = [t \in scenario.tables |-> [d \in Date |-> rows'[t][d]]]
  BY DEF RowsAreRecent, IInv, Shape
<1>3. CASE End(r) /\ (Change(r, {}) \/ UNCHANGED rows)
  BY <1>1, <1>2, <1>3, ChangeIsRecent, EndKeeps
<1>4. CASE Change(r, {}) /\ Continue(r, "insert", todo[r]) /\ UNCHANGED payload
  <2>1. todo[r] \in SUBSET scenario.tables /\ todo[r] # {}
    BY <1>1 DEF IInv, Shape
  <2>2. /\ RowsAreRecent /\ rows'[Current(r)][target[r]] = {}
        /\ \A t \in scenario.tables \ {Current(r)} : rows'[t] = rows[t]
        /\ rows' = [t \in scenario.tables |-> [d \in Date |-> rows'[t][d]]]
    BY <1>1, <1>4, ChangeIsRecent
  <2>3. phase'[r] = "insert" /\ todo'[r] = todo[r]
    BY <1>4 DEF Continue, IInv, Shape
  <2>4. \A t \in Touched(r)' : t \in Touched(r) \/ t = Current(r)
    BY <1>1, <2>3 DEF Touched, Rewriting, Current
  <2>5. ASSUME NEW t \in Touched(r)', NEW w \in rows'[t][target[r]] PROVE w.seen >= started[r]
    <3>1. t # Current(r) => t \in Touched(r) /\ t \in scenario.tables
      BY <2>4 DEF Touched
    <3> QED BY <2>2, <3>1 DEF IInv, TouchedIsFresh
  <2> QED BY <1>1, <1>4, <2>1, <2>2, <2>5, ContinueKeeps DEF IInv, Shape, PayloadIsFresh, Phases
<1> QED BY <1>3, <1>4 DEF DeleteRows

\* What an INSERT ... SELECT leaves in a table was there or has seen all events.
LEMMA MergedIsRecent ==
  ASSUME NEW t, NEW d, NEW at, NEW old, NEW w \in Merged(old, Block(t, d, at))
  PROVE  w \in old \/ w.seen = Len(raw)
BY DEF Merged, Block

LEMMA InsertRowsKeeps ==
  ASSUME IInv, NEW r \in Run, InsertRows(r)
  PROVE  IInv'
<1> DEFINE T == Current(r)
           new == Merged(rows[T][target[r]], Block(T, target[r], computedAt[r]))
           left == todo[r] \ {T}
           readable == scenario.tables \intersect Readable
<1>1. Rewriting(r) /\ phase[r] = "insert" /\ scenario' = scenario /\ raw' = raw
  BY DEF InsertRows, Rewriting, environment
<1>2. rows' = rows => RowsAreRecent /\ rows' = [t \in scenario.tables |-> [d \in Date |-> rows'[t][d]]]
  BY DEF RowsAreRecent, IInv, Shape
<1>3. \A w \in new : w \in rows[Current(r)][target[r]] \/ w.seen = Len(raw)
  BY MergedIsRecent
<1>4. CASE End(r) /\ (Change(r, new) \/ UNCHANGED rows)
  <2> HIDE DEF new
  <2> QED BY <1>1, <1>2, <1>3, <1>4, ChangeIsRecent, EndKeeps
<1>5. ASSUME NEW next \in Phases \ {"idle", "insert"}, NEW tables \in SUBSET scenario.tables,
             next = "delete" => tables = left /\ left # {},
             next \in {"read", "upsert"} => left = {},
             next = "read" => tables # {} /\ tables \subseteq Readable,
             Change(r, new), Continue(r, next, tables), UNCHANGED payload
      PROVE  IInv'
  <2>1. /\ RowsAreRecent /\ rows'[T][target[r]] = new
        /\ \A t \in scenario.tables \ {T} : rows'[t] = rows[t]
        /\ rows' = [t \in scenario.tables |-> [d \in Date |-> rows'[t][d]]]
    <3> HIDE DEF new
    <3> QED BY <1>1, <1>3, <1>5, ChangeIsRecent
  <2>2. phase'[r] = next /\ todo'[r] = tables
    BY <1>5 DEF Continue, IInv, Shape
  <2>3. ASSUME NEW t \in scenario.tables PROVE t \in Touched(r) \/ t \in left
    BY <1>1 DEF Touched, Rewriting
  <2>4. \A t \in Touched(r)' : t \in Touched(r)
    <3>1. next \in {"delete", "read", "upsert"}
      BY DEF Phases
    <3> QED BY <1>1, <1>5, <2>2, <2>3, <3>1 DEF Touched, Rewriting
  <2>5. ASSUME NEW t \in Touched(r)', NEW w \in rows'[t][target[r]] PROVE w.seen >= started[r]
    <3>1. t \in Touched(r) /\ t \in scenario.tables
      BY <2>4 DEF Touched
    <3>2. w \in rows[t][target[r]] \/ w.seen = Len(raw)
      <4>1. CASE t = T
        BY <1>3, <2>1, <4>1, <2>5
      <4>2. CASE t # T
        BY <2>1, <3>1, <4>2, <2>5
      <4> QED BY <4>1, <4>2
    <3>3. started[r] \in Nat /\ started[r] <= Len(raw)
      BY DEF IInv, Shape
    <3>4. \A x \in rows[t][target[r]] : x.seen >= started[r]
      BY <3>1 DEF IInv, TouchedIsFresh
    <3> HIDE DEF new, left, T
    <3> QED BY <3>2, <3>3, <3>4
  <2>6. Shape /\ PayloadIsFresh
    BY DEF IInv
  <2>7. /\ payload' = [o \in Run |-> payload'[o]] /\ \A o \in Run \ {r} : payload'[o] = payload[o]
        /\ \A c \in payload'[r] : c.seen >= started[r]
        /\ next \in {"delete", "insert", "read"} => tables # {}
    BY <1>5, <2>6 DEF Shape, PayloadIsFresh
  <2> HIDE DEF new, left
  <2> QED BY <1>1, <1>5, <2>1, <2>5, <2>7, ContinueKeeps
<1>6. left \in SUBSET scenario.tables /\ readable \in SUBSET scenario.tables /\ readable \subseteq Readable
  BY DEF IInv, Shape
<1>7. CASE Change(r, new) /\ left # {} /\ Continue(r, "delete", left) /\ UNCHANGED payload
  <2> HIDE DEF new
  <2> QED BY <1>5, <1>6, <1>7 DEF Phases
<1>8. CASE Change(r, new) /\ left = {} /\ UNCHANGED payload
             /\ Continue(r, IF readable = {} THEN "upsert" ELSE "read", readable)
  <2> HIDE DEF new, readable, left
  <2>1. CASE readable = {}
    BY <1>5, <1>6, <1>8, <2>1 DEF Phases
  <2>2. CASE readable # {}
    BY <1>5, <1>6, <1>8, <2>2 DEF Phases
  <2> QED BY <2>1, <2>2
<1> QED BY <1>4, <1>7, <1>8 DEF InsertRows
LEMMA ReadTableKeeps ==
  ASSUME IInv, NEW r \in Run, ReadTable(r)
  PROVE  IInv'
<1> DEFINE T == First(ReadRank, todo[r])
           left == todo[r] \ {T}
           cells == Cells(T, rows[T][target[r]])
<1>1. phase[r] = "read" /\ UNCHANGED <<scenario, raw, rows>>
  BY DEF ReadTable, environment
<1>2. RowsAreRecent /\ rows' = [t \in scenario.tables |-> [d \in Date |-> rows'[t][d]]]
  BY <1>1 DEF RowsAreRecent, IInv, Shape
<1>3. CASE End(r)
  BY <1>1, <1>2, <1>3, EndKeeps
<1>4. CASE /\ payload' = [payload EXCEPT ![r] = Upserted(@, cells)]
           /\ Continue(r, IF left = {} THEN "upsert" ELSE "read", left)
  <2>1. T \in Readable /\ T \in scenario.tables
    <3>1. todo[r] \in SUBSET Readable /\ todo[r] # {} /\ todo[r] \subseteq scenario.tables
      BY <1>1 DEF IInv, Shape
    <3> QED BY <3>1, FirstOfReadable
  <2>2. T \in Touched(r)
    BY <1>1, <2>1 DEF Touched
  <2>3. ASSUME NEW c \in cells PROVE c.seen >= started[r]
    BY <2>1, <2>2, <2>3, CellsAreRead DEF IInv, TouchedIsFresh
  <2>4. /\ payload' = [o \in Run |-> payload'[o]] /\ \A o \in Run \ {r} : payload'[o] = payload[o]
        /\ payload'[r] = Upserted(payload[r], cells)
    <3> HIDE DEF cells
    <3> QED BY <1>4 DEF IInv, Shape
  <2>5. \A c \in payload'[r] : c.seen >= started[r]
    <3> HIDE DEF cells
    <3> QED BY <2>3, <2>4 DEF Upserted, IInv, PayloadIsFresh
  <2>6. phase'[r] \in {"read", "upsert"} /\ UNCHANGED <<target, started>>
    BY <1>4 DEF Continue, IInv, Shape
  <2>7. \A t \in Touched(r)' : t \in scenario.tables /\ t \in Touched(r)
    BY <1>1, <2>6 DEF Touched, Rewriting
  <2>8. \A t \in Touched(r)' : \A w \in rows'[t][target[r]] : w.seen >= started[r]
    BY <1>1, <2>7 DEF IInv, TouchedIsFresh
  <2>9. left \in SUBSET scenario.tables /\ left \subseteq Readable
    BY <1>1 DEF IInv, Shape
  <2> HIDE DEF left, cells
  <2>10. CASE left = {}
    BY <1>1, <1>2, <1>4, <2>4, <2>5, <2>8, <2>9, <2>10, ContinueKeeps DEF Phases
  <2>11. CASE left # {}
    BY <1>1, <1>2, <1>4, <2>4, <2>5, <2>8, <2>9, <2>11, ContinueKeeps DEF Phases
  <2> QED BY <2>10, <2>11
<1> QED BY <1>3, <1>4 DEF ReadTable

LEMMA UpsertKeeps ==
  ASSUME IInv, NEW r \in Run, Upsert(r)
  PROVE  IInv'
<1>1. UNCHANGED <<scenario, raw, rows>>
  BY DEF Upsert, environment
<1>2. RowsAreRecent /\ rows' = [t \in scenario.tables |-> [d \in Date |-> rows'[t][d]]]
  BY <1>1 DEF RowsAreRecent, IInv, Shape
<1>3. CASE End(r)
  BY <1>1, <1>2, <1>3, EndKeeps
<1>4. CASE UNCHANGED <<phase, todo, target, payload, started>>
  <2>1. Shape'
    BY <1>1, <1>4 DEF IInv, Shape, Date
  <2>2. \A o \in Run : Touched(o)' = Touched(o)
    BY <1>1, <1>4 DEF Touched, Rewriting, Current
  <2> QED BY <1>1, <1>4, <2>1, <2>2 DEF IInv, TouchedIsFresh, PayloadIsFresh
<1> QED BY <1>3, <1>4 DEF Upsert, RetryOrFail

LEMMA RestartKeeps ==
  ASSUME IInv, Restart
  PROVE  IInv'
<1>1. UNCHANGED <<scenario, raw, rows>> /\ 1 \in Date
  BY DEF Restart, environment, IInv, Shape, Date
<1>2. /\ phase' = [r \in Run |-> "idle"] /\ todo' = [r \in Run |-> {}] /\ target' = [r \in Run |-> 1]
      /\ payload' = [r \in Run |-> {}] /\ started' = [r \in Run |-> 0]
  BY DEF Restart, Each
<1>3. Shape'
  <2>1. Len(raw) \in Nat
    BY DEF IInv, Shape
  <2> QED BY <1>1, <1>2, <2>1 DEF IInv, Shape, Date, Phases
<1>4. TouchedIsFresh' /\ PayloadIsFresh'
  BY <1>2 DEF TouchedIsFresh, PayloadIsFresh, Touched, Rewriting
<1> QED BY <1>3, <1>4 DEF IInv

LEMMA FreshStep ==
  ASSUME IInv, [Next]_vars
  PROVE  IInv'
<1>1. CASE BeginScheduled
  BY <1>1, BeginKeeps DEF BeginScheduled, Run
<1>2. ASSUME NEW r \in Post, NEW d \in Date, BeginPosted(r, d) PROVE IInv'
  BY <1>2, BeginKeeps DEF BeginPosted, Run
<1>3. ASSUME NEW r \in Run, StepRun(r) PROVE IInv'
  BY <1>3, DeleteRowsKeeps, InsertRowsKeeps, ReadTableKeeps, UpsertKeeps DEF StepRun
<1>4. CASE BeginScheduledExport \/ \E e \in PostExport, d \in Date : BeginPostedExport(e, d)
  BY <1>4, NothingOfRuns DEF BeginScheduledExport, BeginPostedExport, BeginExport, environment
<1>5. CASE \E e \in Exporter : StepExport(e)
  BY <1>5, NothingOfRuns DEF StepExport, Fetch, Put, environment
<1>6. ASSUME NEW event \in scenario.events, Arrive(event) PROVE IInv'
  BY <1>6, ArriveKeeps
<1>7. CASE Midnight \/ Tick
  BY <1>7, NothingOfRuns DEF Midnight, Tick
<1>8. CASE UNCHANGED vars
  BY <1>8, NothingOfRuns DEF vars, environment
<1> QED BY <1>1, <1>2, <1>3, <1>4, <1>5, <1>6, <1>7, <1>8, RestartKeeps DEF Next

LEMMA InitiallyFresh == Init => IInv
<1> SUFFICES ASSUME Init PROVE IInv
  OBVIOUS
<1>1. scenario \in Scenarios /\ 1 \in Date
  BY DEF Init, Date
<1>2. rows = [t \in scenario.tables |-> [d \in Date |-> {}]]
  BY DEF Init
<1>3. rows = [t \in scenario.tables |-> [d \in Date |-> rows[t][d]]]
  BY <1>2
<1>4. raw \in Seq(scenario.events) /\ Len(raw) = 0
  BY DEF Init
<1>5. Shape
  BY <1>1, <1>3, <1>4 DEF Init, Each, Shape, Phases
<1>6. TouchedIsFresh /\ PayloadIsFresh
  BY DEF Init, Each, TouchedIsFresh, PayloadIsFresh, Touched, Rewriting
<1> QED BY <1>5, <1>6 DEF IInv

\* What a run carries to PostgreSQL is at least as recent as the run, for every
\* number of overlapping runs, failing statements and restarts: the order of
\* DELETE, INSERT and SELECT in aggregate_for_date is enough.
THEOREM PayloadFresh == Spec => []PayloadIsFresh
<1>1. Init => IInv
  BY InitiallyFresh
<1>2. IInv /\ [Next]_vars => IInv'
  BY FreshStep
<1>3. IInv => PayloadIsFresh
  BY DEF IInv
<1> QED BY <1>1, <1>2, <1>3, PTL DEF Spec

-----------------------------------------------------------------------------
(* The conversion and its two counts.                                        *)

ConversionNames == {"VIEW_STARTED", "VIEW_FINISHED", "CONVERSION_RATE"}

\* The table of the conversion has one row at most, whose rate is of its own counts.
WholeRow(w) ==
  w.key = <<>> /\ w.at \in Int /\ w.value.rate = Ratio(w.value.finished, w.value.started)
OneWholeRow(found) == \A v \in found : WholeRow(v) /\ \A w \in found : w = v

\* All three metrics are there, from one row, or none is.
FromCounts(cells, s, f) ==
  /\ \A c \in cells : /\ c.name = "VIEW_STARTED" => c.value = Float(s)
                      /\ c.name = "VIEW_FINISHED" => c.value = Float(f)
                      /\ c.name = "CONVERSION_RATE" => c.value = Ratio(f, s)
  /\ \A name \in ConversionNames : \E c \in cells : c.name = name
Unconverted(cells) == \A c \in cells : c.name \notin ConversionNames
Whole(cells) ==
  /\ \A c \in cells : c.name \in ConversionNames => c.dim = <<>>
  /\ Unconverted(cells) \/ \E s, f : FromCounts(cells, s, f)

WholeRows ==
  /\ clock \in Int /\ computedAt \in [Run -> Int]
  /\ "conversion" \in scenario.tables => \A d \in Date : OneWholeRow(rows["conversion"][d])
WholePayloads == \A r \in Run : Whole(payload[r])
WholeMetrics == metrics = [d \in Date |-> metrics[d]] /\ \A d \in Date : Whole(metrics[d])
WholeExports ==
  /\ source \in [Exporter -> Date]
  /\ snapshot = [e \in Exporter |-> snapshot[e]] /\ \A e \in Exporter : Whole(snapshot[e])
  /\ object = [d \in Date |-> object[d]]
  /\ \A d \in Date : object[d] # NoObject => Whole(object[d].cells)

WholeInv == WholeRows /\ WholePayloads /\ WholeMetrics /\ WholeExports

LEMMA EmptyIsWhole == Whole({})
BY DEF Whole, Unconverted

\* The upsert of whole metrics on whole metrics leaves no two of different rows.
LEMMA UpsertedIsWhole ==
  ASSUME NEW old, NEW new, Whole(old), Whole(new)
  PROVE  Whole(Upserted(old, new))
<1> DEFINE all == Upserted(old, new)
<1>1. \A c \in all : c \in old \/ c \in new
  BY DEF Upserted
<1>2. \A c \in new : c \in all
  BY DEF Upserted
<1>3. \A c \in all : c.name \in ConversionNames => c.dim = <<>>
  BY <1>1 DEF Whole
<1>4. CASE Unconverted(new)
  <2>1. \A c \in old : c.name \in ConversionNames => c \in all
    BY <1>4 DEF Unconverted, Upserted, SameKey
  <2>2. \A c \in all : c.name \in ConversionNames => c \in old
    BY <1>1, <1>4 DEF Unconverted
  <2> HIDE DEF all
  <2>3. ASSUME Unconverted(old)
        PROVE  Whole(all)
    BY <1>3, <2>2, <2>3 DEF Whole, Unconverted
  <2>4. ASSUME \E s, f : FromCounts(old, s, f)
        PROVE  Whole(all)
    <3>1. PICK s, f : FromCounts(old, s, f)
      BY <2>4
    <3>2. FromCounts(all, s, f)
      BY <2>1, <2>2, <3>1 DEF FromCounts, ConversionNames
    <3> QED BY <1>3, <3>2 DEF Whole
  <2>5. Whole(all)
    BY <2>3, <2>4 DEF Whole
  <2> QED BY <2>5 DEF all
<1>5. CASE \E s, f : FromCounts(new, s, f)
  <2>1. PICK s, f : FromCounts(new, s, f)
    BY <1>5
  <2>2. \A c \in all : c.name \in ConversionNames => c \in new
    <3> SUFFICES ASSUME NEW c \in old, c.name \in ConversionNames, \A n \in new : ~SameKey(c, n)
                 PROVE  FALSE
      BY DEF Upserted
    <3>1. PICK n \in new : n.name = c.name
      BY <2>1 DEF FromCounts
    <3>2. n.dim = <<>> /\ c.dim = <<>>
      BY <3>1 DEF Whole
    <3> QED BY <3>1, <3>2 DEF SameKey
  <2> HIDE DEF all
  <2>3. FromCounts(all, s, f)
    BY <1>2, <2>1, <2>2 DEF FromCounts, ConversionNames
  <2>4. Whole(all)
    BY <1>3, <2>3 DEF Whole
  <2> QED BY <2>4 DEF all
<1> QED BY <1>4, <1>5 DEF Whole

\* What is read of the conversion is whole, and no other table has its names.
LEMMA CellsAreWhole ==
  ASSUME NEW t \in Readable, NEW found, t = "conversion" => OneWholeRow(found)
  PROVE  Whole(Cells(t, found))
<1> DEFINE all == Cells(t, found)
<1>1. CASE t # "conversion"
  <2>1. ASSUME NEW c \in all
        PROVE  c.name \notin ConversionNames
    <3>1. CASE t = "dau"
      BY <2>1, <3>1 DEF Cells, Cell, ConversionNames
    <3>2. CASE t = "avg"
      BY <2>1, <3>2 DEF Cells, Cell, ConversionNames
    <3>3. CASE t = "retention"
      BY <2>1, <3>3 DEF Cells, Cell, ConversionNames
    <3>4. CASE t = "top"
      BY <2>1, <3>4 DEF Cells, Cell, ConversionNames
    <3>5. CASE t = "device"
      BY <2>1, <3>5 DEF Cells, Cell, ConversionNames
    <3> QED BY <1>1, <3>1, <3>2, <3>3, <3>4, <3>5 DEF Readable, Table
  <2> HIDE DEF all
  <2>2. Whole(all)
    BY <2>1 DEF Whole, Unconverted
  <2> QED BY <2>2 DEF all
<1>2. CASE t = "conversion" /\ found = {}
  <2>1. all = {}
    BY <1>2 DEF Cells
  <2> QED BY <2>1, EmptyIsWhole
<1>3. CASE t = "conversion" /\ found # {}
  <2>1. PICK w : found = {w} /\ WholeRow(w)
    BY <1>3 DEF OneWholeRow
  <2> DEFINE s == Cell("VIEW_STARTED", <<>>, Float(w.value.started), w)
             f == Cell("VIEW_FINISHED", <<>>, Float(w.value.finished), w)
             q == Cell("CONVERSION_RATE", <<>>, w.value.rate, w)
  <2>2. all = {s, f, q}
    BY <1>3, <2>1 DEF Cells
  <2>3. /\ s.name = "VIEW_STARTED" /\ s.value = Float(w.value.started) /\ s.dim = <<>>
        /\ f.name = "VIEW_FINISHED" /\ f.value = Float(w.value.finished) /\ f.dim = <<>>
        /\ q.name = "CONVERSION_RATE" /\ q.value = Ratio(w.value.finished, w.value.started) /\ q.dim = <<>>
    BY <2>1 DEF Cell, WholeRow
  <2> HIDE DEF all, s, f, q
  <2>4. FromCounts(all, w.value.started, w.value.finished)
    BY <2>2, <2>3 DEF FromCounts, ConversionNames
  <2>5. Whole(all)
    BY <2>2, <2>3, <2>4 DEF Whole
  <2> QED BY <2>5 DEF all
<1> QED BY <1>1, <1>2, <1>3

\* FINAL keeps one of the row that is there and the row that is inserted.
LEMMA MergedIsWhole ==
  ASSUME NEW old, NEW new, OneWholeRow(old), OneWholeRow(new)
  PROVE  OneWholeRow(Merged(old, new))
<1> SUFFICES ASSUME NEW v \in Merged(old, new), NEW w \in Merged(old, new)
             PROVE  WholeRow(v) /\ w = v
  BY DEF OneWholeRow
<1>1. (v \in old \/ v \in new) /\ (w \in old \/ w \in new)
  BY DEF Merged
<1>2. WholeRow(v) /\ WholeRow(w)
  BY <1>1 DEF OneWholeRow
<1>3. CASE (v \in old /\ w \in old) \/ (v \in new /\ w \in new)
  BY <1>2, <1>3 DEF OneWholeRow
<1>4. ASSUME NEW o \in old, NEW n \in new, o \notin new, n \notin old,
             o \in Merged(old, new), n \in Merged(old, new)
      PROVE  FALSE
  <2>1. WholeRow(o) /\ WholeRow(n)
    BY DEF OneWholeRow
  <2>2. o.at > n.at /\ o.at <= n.at
    BY <1>4, <2>1 DEF Merged, WholeRow
  <2> QED BY <2>1, <2>2 DEF WholeRow
<1> QED BY <1>1, <1>2, <1>3, <1>4

LEMMA BlockIsWhole ==
  ASSUME NEW d, NEW at \in Int
  PROVE  OneWholeRow(Block("conversion", d, at))
<1> DEFINE s == Cardinality(Typed(d, "VIEW_STARTED"))
           f == Cardinality(Typed(d, "VIEW_FINISHED"))
           counts == [started |-> s, finished |-> f, rate |-> Ratio(f, s)]
           row == [key |-> <<>>, value |-> counts, at |-> at, seen |-> Len(raw)]
<1>1. ConversionRows(d) = {[key |-> <<>>, value |-> counts]}
  BY DEF ConversionRows, Single
<1>2. Selected("conversion", d) = ConversionRows(d)
  BY DEF Selected
<1> HIDE DEF s, f
<1>3. counts.rate = Ratio(counts.finished, counts.started)
  OBVIOUS
<1> HIDE DEF counts
<1>4. Block("conversion", d, at) = {row}
  <2> DEFINE one == [key |-> <<>>, value |-> counts]
  <2>1. Selected("conversion", d) = {one}
    BY <1>1, <1>2
  <2>2. one.key = <<>> /\ one.value = counts
    OBVIOUS
  <2> HIDE DEF one
  <2>3. Block("conversion", d, at) = {[key |-> one.key, value |-> one.value, at |-> at, seen |-> Len(raw)]}
    BY <2>1 DEF Block
  <2> QED BY <2>2, <2>3
<1>5. WholeRow(row)
  BY <1>3 DEF WholeRow
<1> QED BY <1>4, <1>5 DEF OneWholeRow

\* Steps that write no table, no payload, no metric and no file.
LEMMA RowsStayWhole ==
  ASSUME WholeRows, UNCHANGED <<scenario, rows>>, clock' \in Int, computedAt' \in [Run -> Int]
  PROVE  WholeRows'
BY DEF WholeRows, Date
LEMMA PayloadsStayWhole ==
  ASSUME WholePayloads, UNCHANGED payload
  PROVE  WholePayloads'
BY DEF WholePayloads
LEMMA MetricsStayWhole ==
  ASSUME WholeMetrics, UNCHANGED <<scenario, metrics>>
  PROVE  WholeMetrics'
BY DEF WholeMetrics, Date
LEMMA ExportsStayWhole ==
  ASSUME WholeExports, UNCHANGED <<scenario, object, source, snapshot>>
  PROVE  WholeExports'
BY DEF WholeExports, Date

LEMMA EndIsWhole ==
  ASSUME IInv, WholeInv, NEW r \in Run, End(r)
  PROVE  WholePayloads' /\ computedAt' \in [Run -> Int]
<1>1. \A o \in Run : payload'[o] = payload[o] \/ payload'[o] = {}
  BY DEF End, IInv, Shape
<1>2. computedAt' \in [Run -> Int]
  BY DEF End, WholeInv, WholeRows
<1> QED BY <1>1, <1>2, EmptyIsWhole DEF WholeInv, WholePayloads

LEMMA ChangeKeepsWhole ==
  ASSUME IInv, WholeInv, NEW r \in Run, Rewriting(r), NEW new, Change(r, new),
         \A w \in new : w \in rows[Current(r)][target[r]] \/ w.seen = Len(raw),
         UNCHANGED <<scenario, clock>>, computedAt' \in [Run -> Int],
         Current(r) = "conversion" => OneWholeRow(new)
  PROVE  WholeRows'
<1>1. Date' = Date /\ clock' \in Int
  BY DEF Date, WholeInv, WholeRows
<1> SUFFICES ASSUME "conversion" \in scenario.tables, NEW d \in Date
             PROVE  OneWholeRow(rows'["conversion"][d])
  BY <1>1 DEF WholeRows
<1>2. OneWholeRow(rows["conversion"][d])
  BY DEF WholeInv, WholeRows
<1>3. /\ rows'[Current(r)][target[r]] = new
      /\ \A e \in Date \ {target[r]} : rows'[Current(r)][e] = rows[Current(r)][e]
      /\ \A t \in scenario.tables \ {Current(r)} : rows'[t] = rows[t]
  BY ChangeIsRecent
<1>4. CASE Current(r) # "conversion"
  BY <1>2, <1>3, <1>4
<1>5. CASE Current(r) = "conversion" /\ d # target[r]
  BY <1>2, <1>3, <1>5
<1>6. CASE Current(r) = "conversion" /\ d = target[r]
  BY <1>3, <1>6
<1> QED BY <1>4, <1>5, <1>6

LEMMA DeleteRowsWhole ==
  ASSUME IInv, WholeInv, NEW r \in Run, DeleteRows(r)
  PROVE  WholeInv'
<1>1. /\ Rewriting(r)
      /\ UNCHANGED <<scenario, clock, metrics, object, source, snapshot>>
  BY DEF DeleteRows, Rewriting, environment, exportVars
<1>2. WholePayloads' /\ computedAt' \in [Run -> Int]
  <2>1. CASE End(r)
    BY <2>1, EndIsWhole
  <2>2. CASE Continue(r, "insert", todo[r]) /\ UNCHANGED payload
    BY <2>2, PayloadsStayWhole DEF Continue, WholeInv, WholeRows
  <2> QED BY <2>1, <2>2 DEF DeleteRows
<1>3. WholeRows'
  <2>1. CASE Change(r, {})
    BY <1>1, <1>2, <2>1, ChangeKeepsWhole DEF OneWholeRow
  <2>2. CASE UNCHANGED rows
    BY <1>1, <1>2, <2>2, RowsStayWhole DEF WholeInv, WholeRows
  <2> QED BY <2>1, <2>2 DEF DeleteRows
<1> QED BY <1>1, <1>2, <1>3, MetricsStayWhole, ExportsStayWhole DEF WholeInv

LEMMA InsertRowsWhole ==
  ASSUME IInv, WholeInv, NEW r \in Run, InsertRows(r)
  PROVE  WholeInv'
<1> DEFINE T == Current(r)
           new == Merged(rows[T][target[r]], Block(T, target[r], computedAt[r]))
           left == todo[r] \ {T}
           readable == scenario.tables \intersect Readable
<1>1. /\ Rewriting(r)
      /\ UNCHANGED <<scenario, clock, metrics, object, source, snapshot>>
  BY DEF InsertRows, Rewriting, environment, exportVars
<1>2. \/ End(r)
      \/ Continue(r, "delete", left) /\ UNCHANGED payload
      \/ Continue(r, IF readable = {} THEN "upsert" ELSE "read", readable) /\ UNCHANGED payload
  BY DEF InsertRows
<1>3. WholePayloads' /\ computedAt' \in [Run -> Int]
  <2>1. CASE End(r)
    BY <2>1, EndIsWhole
  <2>2. CASE UNCHANGED <<payload, computedAt>>
    BY <2>2, PayloadsStayWhole DEF WholeInv, WholeRows
  <2> QED BY <1>2, <2>1, <2>2 DEF Continue
<1>4. ASSUME T = "conversion"
      PROVE  OneWholeRow(new)
  <2>1. T \in scenario.tables /\ target[r] \in Date
    BY <1>1, TableToWrite
  <2>2. OneWholeRow(rows[T][target[r]]) /\ computedAt[r] \in Int
    BY <1>4, <2>1 DEF WholeInv, WholeRows
  <2>3. OneWholeRow(Block(T, target[r], computedAt[r]))
    BY <1>4, <2>2, BlockIsWhole
  <2> QED BY <2>2, <2>3, MergedIsWhole
<1>5. \A w \in new : w \in rows[Current(r)][target[r]] \/ w.seen = Len(raw)
  BY MergedIsRecent
<1>6. WholeRows'
  <2>1. CASE Change(r, new)
    <3> HIDE DEF new
    <3> QED BY <1>1, <1>3, <1>4, <1>5, <2>1, ChangeKeepsWhole
  <2>2. CASE UNCHANGED rows
    BY <1>1, <1>3, <2>2, RowsStayWhole DEF WholeInv, WholeRows
  <2> QED BY <2>1, <2>2 DEF InsertRows
<1> QED BY <1>1, <1>3, <1>6, MetricsStayWhole, ExportsStayWhole DEF WholeInv

LEMMA ReadTableWhole ==
  ASSUME IInv, WholeInv, NEW r \in Run, ReadTable(r)
  PROVE  WholeInv'
<1> DEFINE T == First(ReadRank, todo[r])
           cells == Cells(T, rows[T][target[r]])
<1>1. /\ phase[r] = "read"
      /\ UNCHANGED <<scenario, clock, rows, metrics, object, source, snapshot>>
  BY DEF ReadTable, environment, exportVars
<1>2. Whole(cells)
  <2>1. todo[r] \in SUBSET Readable /\ todo[r] # {} /\ todo[r] \subseteq scenario.tables
        /\ target[r] \in Date
    BY <1>1 DEF IInv, Shape
  <2>2. T \in Readable /\ T \in scenario.tables
    BY <2>1, FirstOfReadable
  <2> HIDE DEF T
  <2>3. T = "conversion" => OneWholeRow(rows[T][target[r]])
    BY <2>1, <2>2 DEF WholeInv, WholeRows
  <2> QED BY <2>2, <2>3, CellsAreWhole
<1> HIDE DEF cells
<1>3. CASE End(r)
  BY <1>1, <1>3, EndIsWhole, RowsStayWhole, MetricsStayWhole, ExportsStayWhole DEF WholeInv, WholeRows
<1>4. CASE payload' = [payload EXCEPT ![r] = Upserted(@, cells)] /\ UNCHANGED computedAt
  <2>1. payload'[r] = Upserted(payload[r], cells) /\ \A o \in Run \ {r} : payload'[o] = payload[o]
    BY <1>4 DEF IInv, Shape
  <2>2. Whole(payload'[r])
    BY <1>2, <2>1, UpsertedIsWhole DEF WholeInv, WholePayloads
  <2>3. WholePayloads'
    BY <2>1, <2>2 DEF WholeInv, WholePayloads
  <2> QED BY <1>1, <1>4, <2>3, RowsStayWhole, MetricsStayWhole, ExportsStayWhole
    DEF WholeInv, WholeRows
<1> QED BY <1>3, <1>4 DEF ReadTable, Continue, cells

LEMMA UpsertWhole ==
  ASSUME IInv, WholeInv, NEW r \in Run, Upsert(r)
  PROVE  WholeInv'
<1>1. UNCHANGED <<scenario, clock, rows, object, source, snapshot>> /\ target[r] \in Date
  BY DEF Upsert, environment, exportVars, IInv, Shape
<1>2. WholePayloads' /\ computedAt' \in [Run -> Int]
  <2>1. CASE End(r)
    BY <2>1, EndIsWhole
  <2>2. CASE UNCHANGED <<payload, computedAt>>
    BY <2>2, PayloadsStayWhole DEF WholeInv, WholeRows
  <2> QED BY <2>1, <2>2 DEF Upsert, RetryOrFail
<1>3. WholeMetrics'
  <2>1. CASE UNCHANGED metrics
    BY <1>1, <2>1, MetricsStayWhole DEF WholeInv
  <2>2. CASE metrics' = [metrics EXCEPT ![target[r]] = Upserted(@, payload[r])]
    <3>1. metrics = [d \in Date |-> metrics[d]] /\ Date' = Date
      BY <1>1 DEF WholeInv, WholeMetrics, Date
    <3>2. /\ metrics' = [d \in Date |-> metrics'[d]]
          /\ metrics'[target[r]] = Upserted(metrics[target[r]], payload[r])
          /\ \A d \in Date \ {target[r]} : metrics'[d] = metrics[d]
      BY <1>1, <2>2, <3>1
    <3>3. Whole(metrics'[target[r]])
      BY <1>1, <3>2, UpsertedIsWhole DEF WholeInv, WholeMetrics, WholePayloads
    <3> QED BY <3>1, <3>2, <3>3 DEF WholeInv, WholeMetrics
  <2> QED BY <2>1, <2>2 DEF Upsert
<1> QED BY <1>1, <1>2, <1>3, RowsStayWhole, ExportsStayWhole DEF WholeInv, WholeRows

LEMMA EndExportIsWhole ==
  ASSUME IInv, WholeInv, NEW e \in Exporter, EndExport(e) \/ UNCHANGED <<source, snapshot>>
  PROVE  /\ source' \in [Exporter -> Date] /\ snapshot' = [x \in Exporter |-> snapshot'[x]]
         /\ \A x \in Exporter : Whole(snapshot'[x])
<1>1. 1 \in Date
  BY DEF IInv, Shape, Date
<1>2. /\ source \in [Exporter -> Date] /\ snapshot = [x \in Exporter |-> snapshot[x]]
      /\ \A x \in Exporter : Whole(snapshot[x])
  BY DEF WholeInv, WholeExports
<1>3. CASE EndExport(e)
  <2>1. source' \in [Exporter -> Date] /\ snapshot' = [x \in Exporter |-> snapshot'[x]]
    BY <1>1, <1>2, <1>3 DEF EndExport
  <2>2. \A x \in Exporter : snapshot'[x] = {} \/ snapshot'[x] = snapshot[x]
    BY <1>2, <1>3 DEF EndExport
  <2> QED BY <1>2, <2>1, <2>2, EmptyIsWhole
<1> QED BY <1>2, <1>3

LEMMA FetchWhole ==
  ASSUME IInv, WholeInv, NEW e \in Exporter, Fetch(e)
  PROVE  WholeInv'
<1>1. UNCHANGED <<scenario, clock, rows, metrics, object, payload, computedAt>> /\ Date' = Date
  BY DEF Fetch, environment, runVars, Date
<1>2. WholeExports'
  <2>1. CASE RetryExportOrFail(e)
    <3>1. EndExport(e) \/ UNCHANGED <<source, snapshot>>
      BY <2>1 DEF RetryExportOrFail
    <3> QED BY <1>1, <3>1, EndExportIsWhole DEF WholeInv, WholeExports
  <2>2. CASE snapshot' = [snapshot EXCEPT ![e] = metrics[source[e]]] /\ UNCHANGED source
    <3>1. snapshot = [x \in Exporter |-> snapshot[x]] /\ source[e] \in Date
      BY DEF WholeInv, WholeExports
    <3>2. /\ snapshot' = [x \in Exporter |-> snapshot'[x]] /\ snapshot'[e] = metrics[source[e]]
          /\ \A x \in Exporter \ {e} : snapshot'[x] = snapshot[x]
      BY <2>2, <3>1
    <3>3. \A x \in Exporter : Whole(snapshot'[x])
      BY <3>1, <3>2 DEF WholeInv, WholeMetrics, WholeExports
    <3> QED BY <1>1, <2>2, <3>2, <3>3 DEF WholeInv, WholeExports
  <2> QED BY <2>1, <2>2 DEF Fetch
<1> QED BY <1>1, <1>2, RowsStayWhole, PayloadsStayWhole, MetricsStayWhole DEF WholeInv, WholeRows

LEMMA PutWhole ==
  ASSUME IInv, WholeInv, NEW e \in Exporter, Put(e)
  PROVE  WholeInv'
<1>1. UNCHANGED <<scenario, clock, rows, metrics, payload, computedAt>> /\ Date' = Date
  BY DEF Put, environment, runVars, Date
<1>2. EndExport(e) \/ UNCHANGED <<source, snapshot>>
  BY DEF Put, RetryExportOrFail
<1>3. object' = [d \in Date |-> object'[d]] /\ \A d \in Date : object'[d] # NoObject => Whole(object'[d].cells)
  <2>1. CASE UNCHANGED object
    BY <2>1 DEF WholeInv, WholeExports
  <2>2. CASE object' = [object EXCEPT ![source[e]] = Object(snapshot[e])]
    <3>1. object = [d \in Date |-> object[d]] /\ source[e] \in Date
      BY DEF WholeInv, WholeExports
    <3>2. /\ object' = [d \in Date |-> object'[d]] /\ object'[source[e]] = Object(snapshot[e])
          /\ \A d \in Date \ {source[e]} : object'[d] = object[d]
      BY <2>2, <3>1
    <3>3. Object(snapshot[e]).cells = snapshot[e]
      BY DEF Object
    <3>4. Whole(object'[source[e]].cells)
      BY <3>2, <3>3 DEF WholeInv, WholeExports
    <3> QED BY <3>2, <3>4 DEF WholeInv, WholeExports
  <2> QED BY <2>1, <2>2 DEF Put
<1>4. WholeExports'
  BY <1>1, <1>2, <1>3, EndExportIsWhole DEF WholeExports
<1> QED BY <1>1, <1>4, RowsStayWhole, PayloadsStayWhole, MetricsStayWhole DEF WholeInv, WholeRows

LEMMA BeginWhole ==
  ASSUME IInv, WholeInv, NEW r \in Run, NEW d \in Date, Begin(r, d)
  PROVE  WholeInv'
<1>1. UNCHANGED <<scenario, clock, rows, metrics, object, source, snapshot>>
  BY DEF Begin, environment, exportVars
<1>2. \A o \in Run : payload'[o] = payload[o] \/ payload'[o] = {}
  BY DEF Begin, IInv, Shape
<1>3. computedAt' \in [Run -> Int]
  BY DEF Begin, WholeInv, WholeRows
<1>4. WholePayloads'
  BY <1>2, EmptyIsWhole DEF WholeInv, WholePayloads
<1> QED BY <1>1, <1>3, <1>4, RowsStayWhole, MetricsStayWhole, ExportsStayWhole DEF WholeInv, WholeRows

LEMMA BeginExportWhole ==
  ASSUME IInv, WholeInv, NEW e \in Exporter, NEW d \in Date, BeginExport(e, d)
  PROVE  WholeInv'
<1>1. UNCHANGED <<scenario, clock, rows, metrics, object, snapshot, payload, computedAt>> /\ Date' = Date
  BY DEF BeginExport, environment, runVars, Date
<1>2. source' \in [Exporter -> Date]
  BY DEF BeginExport, WholeInv, WholeExports
<1>3. WholeExports'
  BY <1>1, <1>2 DEF WholeInv, WholeExports
<1> QED BY <1>1, <1>3, RowsStayWhole, PayloadsStayWhole, MetricsStayWhole DEF WholeInv, WholeRows

LEMMA RestartWhole ==
  ASSUME IInv, WholeInv, Restart
  PROVE  WholeInv'
<1>1. UNCHANGED <<scenario, clock, rows, metrics, object>> /\ Date' = Date
  BY DEF Restart, environment, Date
<1>2. /\ payload' = [r \in Run |-> {}] /\ computedAt' = [r \in Run |-> 0]
      /\ source' = [e \in Exporter |-> 1] /\ snapshot' = [e \in Exporter |-> {}]
  BY DEF Restart, Each, Every
<1>3. 1 \in Date
  BY DEF IInv, Shape, Date
<1>4. WholePayloads' /\ computedAt' \in [Run -> Int]
  BY <1>2, EmptyIsWhole DEF WholePayloads
<1>5. WholeExports'
  BY <1>1, <1>2, <1>3, EmptyIsWhole DEF WholeInv, WholeExports
<1> QED BY <1>1, <1>4, <1>5, RowsStayWhole, MetricsStayWhole DEF WholeInv, WholeRows

LEMMA WholeStep ==
  ASSUME IInv, WholeInv, [Next]_vars
  PROVE  WholeInv'
<1>1. CASE BeginScheduled
  BY <1>1, BeginWhole DEF BeginScheduled, Run
<1>2. CASE \E r \in Post, d \in Date : BeginPosted(r, d)
  BY <1>2, BeginWhole DEF BeginPosted, Run
<1>3. CASE \E r \in Run : StepRun(r)
  BY <1>3, DeleteRowsWhole, InsertRowsWhole, ReadTableWhole, UpsertWhole DEF StepRun
<1>4. CASE BeginScheduledExport
  BY <1>4, BeginExportWhole DEF BeginScheduledExport, Exporter
<1>5. CASE \E e \in PostExport, d \in Date : BeginPostedExport(e, d)
  BY <1>5, BeginExportWhole DEF BeginPostedExport, Exporter
<1>6. CASE \E e \in Exporter : StepExport(e)
  BY <1>6, FetchWhole, PutWhole DEF StepExport
<1>7. ASSUME UNCHANGED <<scenario, rows, metrics, object, runVars, exportVars>>,
             clock' = clock \/ clock' = clock + 1
      PROVE  WholeInv'
  <2>1. UNCHANGED <<payload, computedAt, source, snapshot>>
    BY <1>7 DEF runVars, exportVars
  <2>2. clock' \in Int /\ computedAt' \in [Run -> Int]
    BY <1>7, <2>1 DEF WholeInv, WholeRows
  <2> QED BY <1>7, <2>1, <2>2, RowsStayWhole, PayloadsStayWhole, MetricsStayWhole, ExportsStayWhole
    DEF WholeInv
<1>8. CASE (\E event \in scenario.events : Arrive(event)) \/ Midnight \/ Tick
  BY <1>7, <1>8 DEF Arrive, Midnight, Tick
<1>9. CASE UNCHANGED vars
  BY <1>7, <1>9 DEF vars, environment
<1> QED BY <1>1, <1>2, <1>3, <1>4, <1>5, <1>6, <1>8, <1>9, RestartWhole DEF Next

LEMMA WholeAddsUp ==
  ASSUME NEW cells, Whole(cells)
  PROVE  AddsUp(cells)
<1> DEFINE values(name) == {c.value : c \in {x \in cells : x.name = name}}
           rates == values("CONVERSION_RATE")
           starts == values("VIEW_STARTED")
           ends == values("VIEW_FINISHED")
<1>1. CASE Unconverted(cells)
  <2>1. rates = {} /\ starts = {} /\ ends = {}
    BY <1>1 DEF Unconverted, ConversionNames
  <2> QED BY <2>1 DEF AddsUp
<1>2. CASE \E s, f : FromCounts(cells, s, f)
  <2>1. PICK s, f : FromCounts(cells, s, f)
    BY <1>2
  <2>2. rates = {Ratio(f, s)}
    BY <2>1 DEF FromCounts, ConversionNames
  <2>3. starts = {Float(s)}
    BY <2>1 DEF FromCounts, ConversionNames
  <2>4. ends = {Float(f)}
    BY <2>1 DEF FromCounts, ConversionNames
  <2>5. Float(s)[1] = s /\ Float(f)[1] = f
    BY DEF Float
  <2>6. {Ratio(g[1], t[1]) : g \in ends, t \in starts} = {Ratio(f, s)}
    BY <2>3, <2>4, <2>5
  <2> QED BY <2>2, <2>6 DEF AddsUp
<1> QED BY <1>1, <1>2 DEF Whole

LEMMA InitiallyWhole ==
  ASSUME Init
  PROVE  WholeInv
<1>1. 1 \in Date
  BY DEF Init, Date
<1>2. WholeRows
  <2>1. \A t \in scenario.tables, d \in Date : rows[t][d] = {}
    BY DEF Init
  <2> QED BY <2>1 DEF Init, Each, WholeRows, OneWholeRow
<1>3. WholePayloads
  BY EmptyIsWhole DEF Init, Each, WholePayloads
<1>4. WholeMetrics
  BY EmptyIsWhole DEF Init, WholeMetrics
<1>5. WholeExports
  BY <1>1, EmptyIsWhole DEF Init, Every, WholeExports
<1> QED BY <1>2, <1>3, <1>4, <1>5 DEF WholeInv

\* CONVERSION_RATE is the quotient of the VIEW_FINISHED and VIEW_STARTED beside it, in
\* daily_metrics and in every exported file, for any events, whichever runs and
\* exports of upsert_metrics and export_for_date overlap, fail or are retried.
THEOREM ConversionIsWhole == Spec => []ConversionAddsUp
<1>1. Init => IInv /\ WholeInv
  BY InitiallyFresh, InitiallyWhole
<1>2. IInv /\ WholeInv /\ [Next]_vars => IInv' /\ WholeInv'
  BY FreshStep, WholeStep
<1>3. WholeInv => ConversionAddsUp
  BY WholeAddsUp DEF WholeInv, WholeMetrics, WholeExports, ConversionAddsUp
<1> QED BY <1>1, <1>2, <1>3, PTL DEF Spec

-----------------------------------------------------------------------------
(* What the SELECTs find *)

Quotient == Nat \X (Nat \ {0})

LEMMA RatioIsQuotient ==
  ASSUME NEW a \in Nat, NEW b \in Nat
  PROVE  Ratio(a, b) \in Quotient
BY DEF Ratio, Quotient

LEMMA ImageIsFinite ==
  ASSUME NEW S, IsFiniteSet(S), NEW f
  PROVE  /\ IsFiniteSet({f[x] : x \in S})
         /\ Cardinality({f[x] : x \in S}) \in Nat
         /\ Cardinality({f[x] : x \in S}) <= Cardinality(S)
<1> DEFINE g == [x \in S |-> f[x]]
<1>1. g \in Surjection(S, {f[x] : x \in S})
  BY DEF Surjection
<1> HIDE DEF g
<1> QED BY <1>1, FS_Surjection, FS_CardinalityType

LEMMA EventsAreFinite ==
  ASSUME Shape, NEW T \in SUBSET (DOMAIN raw)
  PROVE  IsFiniteSet(T) /\ Cardinality(T) \in Nat
<1>1. DOMAIN raw = 1 .. Len(raw) /\ Len(raw) \in Nat
  BY DEF Shape
<1>2. IsFiniteSet(1 .. Len(raw))
  BY <1>1, FS_Interval
<1> QED BY <1>1, <1>2, FS_Subset, FS_CardinalityType

\* The users of a set of events are finite.
LEMMA UsersAreFinite ==
  ASSUME Shape, NEW T \in SUBSET (DOMAIN raw)
  PROVE  IsFiniteSet({raw[i].user : i \in T}) /\ Cardinality({raw[i].user : i \in T}) <= Cardinality(T)
<1> DEFINE f == [i \in T |-> raw[i].user]
<1>1. {raw[i].user : i \in T} = {f[i] : i \in T}
  OBVIOUS
<1>2. IsFiniteSet(T)
  BY EventsAreFinite
<1> HIDE DEF f
<1>3. IsFiniteSet({f[i] : i \in T}) /\ Cardinality({f[i] : i \in T}) <= Cardinality(T)
  BY <1>2, ImageIsFinite
<1> QED BY <1>1, <1>3

LEMMA CohortsAreFinite ==
  ASSUME Shape, NEW d, NEW S \in SUBSET Cohort(d)
  PROVE  IsFiniteSet(S) /\ Cardinality(S) \in Nat
<1>1. S \in SUBSET {raw[i].user : i \in DOMAIN raw}
  BY DEF Cohort
<1>2. IsFiniteSet({raw[i].user : i \in DOMAIN raw})
  BY UsersAreFinite
<1> QED BY <1>1, <1>2, FS_Subset, FS_CardinalityType

\* The values of a table are numbers, or quotients whose denominator is not 0.
ValueFits(t, v) ==
  /\ t \in {"dau", "top", "device"} => v \in Nat
  /\ t = "avg" => v \in Quotient
  /\ t = "conversion" => v.started \in Nat /\ v.finished \in Nat /\ v.rate \in Quotient
  /\ t = "retention" => v.d1 \in Quotient /\ v.d7 \in Quotient

LEMMA AvgFits ==
  ASSUME Shape, NEW d, NEW s \in AvgRows(d)
  PROVE  s.value \in Quotient
<1> DEFINE T == {i \in Typed(d, "VIEW_FINISHED") : raw[i].progress >= 0}
           sum == MapThenSumSet(LAMBDA i : raw[i].progress, T)
<1>1. T \in SUBSET (DOMAIN raw)
  BY DEF Typed, On
<1>2. \A i \in T : raw[i].progress \in Nat
  <2>1. \A i \in DOMAIN raw : raw[i] \in scenario.events
    BY DEF Shape
  <2>2. \A e \in scenario.events : e.progress \in Int
    <3>1. scenario \in Scenarios
      BY DEF Shape
    <3> QED BY <3>1, MetricsAssumption, Zenon DEF MetricsAssumption
  <2> QED BY <1>1, <2>1, <2>2
<1>3. AvgRows(d) = Single(Ratio(sum, Cardinality(T)))
  BY DEF AvgRows
<1> HIDE DEF T
<1>4. IsFiniteSet(T) /\ Cardinality(T) \in Nat
  BY <1>1, EventsAreFinite
<1>5. sum \in Nat
  <2> DEFINE f == [i \in T |-> raw[i].progress]
  <2>1. f \in [T -> Nat] /\ sum = SumOf(f, T)
    BY <1>2, <1>4, SumOfProgress
  <2> HIDE DEF f, sum
  <2> QED BY <1>4, <2>1, UnitsAreFinite
<1> HIDE DEF sum
<1>6. s.value = Ratio(sum, Cardinality(T))
  BY <1>3 DEF Single
<1> QED BY <1>4, <1>5, <1>6, RatioIsQuotient

LEMMA ConversionFits ==
  ASSUME Shape, NEW d, NEW s \in ConversionRows(d)
  PROVE  ValueFits("conversion", s.value)
<1> DEFINE a == Cardinality(Typed(d, "VIEW_STARTED"))
           b == Cardinality(Typed(d, "VIEW_FINISHED"))
<1>1. a \in Nat /\ b \in Nat
  BY EventsAreFinite DEF Typed, On
<1>2. s.value = [started |-> a, finished |-> b, rate |-> Ratio(b, a)]
  BY DEF ConversionRows, Single
<1> HIDE DEF a, b
<1> QED BY <1>1, <1>2, RatioIsQuotient DEF ValueFits

LEMMA RetentionFits ==
  ASSUME Shape, NEW d, NEW s \in RetentionRows(d)
  PROVE  ValueFits("retention", s.value)
<1> DEFINE size == Cardinality(Cohort(d))
           back(n) == Cardinality({u \in Cohort(d) : d + n \in Watched(u)})
<1>1. size \in Nat /\ back(1) \in Nat /\ back(LateDay) \in Nat
  BY CohortsAreFinite
<1>2. s.value = [d1 |-> Ratio(back(1), size), d7 |-> Ratio(back(LateDay), size)]
  BY DEF RetentionRows, Single
<1> HIDE DEF size, back
<1> QED BY <1>1, <1>2, RatioIsQuotient DEF ValueFits

LEMMA SelectedFits ==
  ASSUME Shape, NEW t \in Table, NEW d, NEW s \in Selected(t, d)
  PROVE  /\ ValueFits(t, s.value)
         /\ t = "device" => \E i \in On(d) : s.key = raw[i].device
<1>1. CASE t = "dau"
  <2>1. s.value = Cardinality({raw[i].user : i \in On(d)})
    BY <1>1 DEF Selected, DauRows, Single
  <2>2. IsFiniteSet({raw[i].user : i \in On(d)})
    BY UsersAreFinite DEF On
  <2> QED BY <1>1, <2>1, <2>2, FS_CardinalityType DEF ValueFits
<1>2. CASE t = "avg"
  BY <1>2, AvgFits DEF Selected, ValueFits
<1>3. CASE t = "top"
  <2>1. PICK m : s.value = Views(d, m)
    <3>1. s \in TopRows(d)
      BY <1>3 DEF Selected
    <3>2. PICK m : s = [key |-> <<Rank(d, m, {raw[i].movie : i \in On(d)}), m>>, value |-> Views(d, m)]
      BY <3>1, Zenon DEF TopRows
    <3> QED BY <3>2
  <2>2. Views(d, m) \in Nat
    BY EventsAreFinite DEF Views, Typed, On
  <2> QED BY <1>3, <2>1, <2>2 DEF ValueFits
<1>4. CASE t = "conversion"
  BY <1>4, ConversionFits DEF Selected
<1>5. CASE t = "retention"
  BY <1>5, RetentionFits DEF Selected
<1>6. CASE t = "device"
  <2>1. PICK v \in {raw[i].device : i \in On(d)} :
             s = [key |-> v, value |-> Cardinality({i \in On(d) : raw[i].device = v})]
    BY <1>6 DEF Selected, DeviceRows
  <2>2. Cardinality({i \in On(d) : raw[i].device = v}) \in Nat
    BY EventsAreFinite DEF On
  <2>3. s.key = v /\ s.value = Cardinality({i \in On(d) : raw[i].device = v})
    BY <2>1
  <2> QED BY <1>6, <2>2, <2>3 DEF ValueFits
<1>7. CASE t = "cohorts"
  BY <1>7 DEF ValueFits
<1> QED BY <1>1, <1>2, <1>3, <1>4, <1>5, <1>6, <1>7 DEF Table

-----------------------------------------------------------------------------
(* Types *)

\* The metrics that are read of a table.
NamesOf(t) ==
  CASE t = "dau" -> {"DAU"}
    [] t = "avg" -> {"AVG_WATCH_SECONDS"}
    [] t = "conversion" -> ConversionNames
    [] t = "retention" -> {"RETENTION_D1", "RETENTION_D7"}
    [] t = "top" -> {"TOP_MOVIE_VIEWS"}
    [] t = "device" -> {"DEVICE_EVENTS"}

\* A metric of a date whose key its tables will give again, and again.
Lasting(c, d) ==
  \E t \in scenario.tables \intersect Readable :
    /\ c.name \in NamesOf(t)
    /\ t \notin {"top", "device"} => c.dim = <<>>
    /\ t = "device" => \E i \in On(d) : c.dim = <<raw[i].device>>

ProperCell(c) == c.seen \in 0 .. Len(raw) /\ c.value \in Quotient
CellFits(c, d) == ProperCell(c) /\ Lasting(c, d)
RowFits(t, d, w) ==
  /\ w.at \in 0 .. clock /\ w.seen \in 0 .. Len(raw) /\ ValueFits(t, w.value)
  /\ t = "device" => \E i \in On(d) : w.key = raw[i].device

Counters ==
  /\ today \in Date /\ clock \in 0 .. scenario.seconds
  /\ computedAt \in [Run -> 0 .. clock] /\ tries \in [Run -> 0 .. MaxTries - 1]
  /\ place \in [Exporter -> {"idle", "fetch", "put"}]
  /\ retries \in [Exporter -> 0 .. MaxTries - 1] /\ alone \in [Run -> BOOLEAN]
RowsFit == \A t \in scenario.tables, d \in Date : \A w \in rows[t][d] : RowFits(t, d, w)
PayloadsFit == \A r \in Run : \A c \in payload[r] : CellFits(c, target[r])
MetricsFit == \A d \in Date : \A c \in metrics[d] : CellFits(c, d)
ExportsFit ==
  /\ \A e \in Exporter : \A c \in snapshot[e] : ProperCell(c)
  /\ \A d \in Date : object[d] # NoObject => \A c \in object[d].cells : ProperCell(c)

FitInv == Counters /\ RowsFit /\ PayloadsFit /\ MetricsFit /\ ExportsFit

LEMMA CellsFit ==
  ASSUME Shape, NEW t \in scenario.tables \intersect Readable, NEW d, NEW found,
         \A w \in found : RowFits(t, d, w), NEW c \in Cells(t, found)
  PROVE  CellFits(c, d)
<1>1. \A n \in Nat : Float(n) \in Quotient
  BY DEF Float, Quotient
<1>2. ASSUME NEW w \in found, NEW name \in NamesOf(t), NEW dim, NEW v \in Quotient,
             c = Cell(name, dim, v, w),
             t \notin {"top", "device"} => dim = <<>>, t = "device" => dim = <<w.key>>
      PROVE  CellFits(c, d)
  <2>1. c.name = name /\ c.dim = dim /\ c.value = v /\ c.seen = w.seen
    BY <1>2 DEF Cell
  <2>2. RowFits(t, d, w)
    OBVIOUS
  <2>3. ProperCell(c)
    BY <2>1, <2>2 DEF ProperCell, RowFits
  <2>4. t = "device" => \E i \in On(d) : c.dim = <<raw[i].device>>
    BY <1>2, <2>1, <2>2 DEF RowFits
  <2>5. Lasting(c, d)
    BY <1>2, <2>1, <2>4 DEF Lasting
  <2> QED BY <2>3, <2>5 DEF CellFits
<1>3. \A w \in found : ValueFits(t, w.value)
  BY DEF RowFits
<1>4. CASE t = "dau"
  <2>1. PICK w \in found : c = Cell("DAU", <<>>, Float(w.value), w)
    BY <1>4 DEF Cells
  <2>2. Float(w.value) \in Quotient
    BY <1>1, <1>3, <1>4 DEF ValueFits
  <2> QED BY <1>2, <1>4, <2>1, <2>2 DEF NamesOf
<1>5. CASE t = "avg"
  <2>1. PICK w \in found : c = Cell("AVG_WATCH_SECONDS", <<>>, w.value, w)
    BY <1>5 DEF Cells
  <2>2. w.value \in Quotient
    BY <1>3, <1>5 DEF ValueFits
  <2> QED BY <1>2, <1>5, <2>1, <2>2 DEF NamesOf
<1>6. CASE t = "conversion"
  <2>1. PICK w \in found : \/ c = Cell("VIEW_STARTED", <<>>, Float(w.value.started), w)
                           \/ c = Cell("VIEW_FINISHED", <<>>, Float(w.value.finished), w)
                           \/ c = Cell("CONVERSION_RATE", <<>>, w.value.rate, w)
    BY <1>6 DEF Cells
  <2>2. Float(w.value.started) \in Quotient /\ Float(w.value.finished) \in Quotient
        /\ w.value.rate \in Quotient
    BY <1>1, <1>3, <1>6 DEF ValueFits
  <2>3. NamesOf(t) = ConversionNames
    BY <1>6 DEF NamesOf
  <2> QED BY <1>2, <1>6, <2>1, <2>2, <2>3 DEF ConversionNames
<1>7. CASE t = "retention"
  <2>1. PICK w \in found : \/ c = Cell("RETENTION_D1", <<>>, w.value.d1, w)
                           \/ c = Cell("RETENTION_D7", <<>>, w.value.d7, w)
    BY <1>7 DEF Cells
  <2>2. w.value.d1 \in Quotient /\ w.value.d7 \in Quotient
    BY <1>3, <1>7 DEF ValueFits
  <2> QED BY <1>2, <1>7, <2>1, <2>2 DEF NamesOf
<1>8. CASE t = "top"
  <2>1. PICK w \in found : c = Cell("TOP_MOVIE_VIEWS", <<w.key[2]>>, Float(w.value), w)
    BY <1>8 DEF Cells
  <2>2. Float(w.value) \in Quotient
    BY <1>1, <1>3, <1>8 DEF ValueFits
  <2> QED BY <1>2, <1>8, <2>1, <2>2 DEF NamesOf
<1>9. CASE t = "device"
  <2>1. PICK w \in found : c = Cell("DEVICE_EVENTS", <<w.key>>, Float(w.value), w)
    BY <1>9 DEF Cells
  <2>2. Float(w.value) \in Quotient
    BY <1>1, <1>3, <1>9 DEF ValueFits
  <2> QED BY <1>2, <1>9, <2>1, <2>2 DEF NamesOf
<1> QED BY <1>4, <1>5, <1>6, <1>7, <1>8, <1>9 DEF Readable, Table

\* The rows a run inserts.
LEMMA BlockFits ==
  ASSUME Shape, NEW t \in scenario.tables, NEW d, NEW at \in 0 .. clock, NEW w \in Block(t, d, at)
  PROVE  RowFits(t, d, w)
<1>1. t \in Table
  BY DEF Shape
<1>2. PICK s \in Selected(t, d) : w = [key |-> s.key, value |-> s.value, at |-> at, seen |-> Len(raw)]
  BY DEF Block
<1>3. w.key = s.key /\ w.value = s.value /\ w.at = at /\ w.seen = Len(raw)
  BY <1>2
<1>4. Len(raw) \in 0 .. Len(raw)
  BY DEF Shape
<1> QED BY <1>1, <1>3, <1>4, SelectedFits DEF RowFits

\* Time goes on and events arrive: what fits goes on to fit.
World ==
  /\ scenario' = scenario
  /\ raw' = raw \/ \E event \in scenario.events : raw' = Append(raw, event)
  /\ clock \in Nat /\ clock' \in Nat /\ clock <= clock'

LEMMA WorldGrows ==
  ASSUME Shape, World
  PROVE  /\ Date' = Date /\ Len(raw) \in Nat /\ Len(raw') \in Nat /\ Len(raw) <= Len(raw')
         /\ \A i \in DOMAIN raw : i \in DOMAIN raw' /\ raw'[i] = raw[i]
         /\ \A d : On(d) \subseteq On(d)'
<1>1. Len(raw) \in Nat /\ DOMAIN raw = 1 .. Len(raw)
  BY DEF Shape
<1>2. CASE raw' = raw
  BY <1>1, <1>2 DEF World, Date, On
<1>3. CASE \E event \in scenario.events : raw' = Append(raw, event)
  <2>1. PICK event \in scenario.events : raw' = Append(raw, event)
    BY <1>3
  <2>2. /\ Len(raw') = Len(raw) + 1 /\ DOMAIN raw' = 1 .. Len(raw')
        /\ \A i \in 1 .. Len(raw) : raw'[i] = raw[i]
    BY <2>1 DEF Shape
  <2>3. \A i \in DOMAIN raw : i \in DOMAIN raw' /\ raw'[i] = raw[i]
    BY <1>1, <2>2
  <2> QED BY <1>1, <2>2, <2>3 DEF World, Date, On
<1> QED BY <1>2, <1>3 DEF World

LEMMA FitsStay ==
  ASSUME Shape, World
  PROVE  /\ \A c : ProperCell(c) => ProperCell(c)'
         /\ \A c, d : CellFits(c, d) => CellFits(c, d)'
         /\ \A t, d, w : RowFits(t, d, w) => RowFits(t, d, w)'
<1>1. /\ Len(raw) \in Nat /\ Len(raw') \in Nat /\ Len(raw) <= Len(raw') /\ scenario' = scenario
      /\ clock \in Nat /\ clock' \in Nat /\ clock <= clock'
  BY WorldGrows DEF World
<1>2. \A d : \A i \in On(d) : i \in On(d)' /\ raw'[i] = raw[i]
  <2>1. \A d : On(d) \subseteq DOMAIN raw
    BY DEF On
  <2> QED BY <2>1, WorldGrows
<1>3. \A c : ProperCell(c) => ProperCell(c)'
  BY <1>1 DEF ProperCell
<1>4. ASSUME NEW c, NEW d, Lasting(c, d)
      PROVE  Lasting(c, d)'
  BY <1>1, <1>2, <1>4 DEF Lasting
<1>5. \A c, d : CellFits(c, d) => CellFits(c, d)'
  BY <1>3, <1>4 DEF CellFits
<1>6. ASSUME NEW t, NEW d, NEW w, RowFits(t, d, w)
      PROVE  RowFits(t, d, w)'
  BY <1>1, <1>2, <1>6 DEF RowFits
<1> QED BY <1>3, <1>5, <1>6

\* A step leaves, in the world as it was before it, only what fits.
TablesFit == \A t \in scenario.tables, d \in Date : \A w \in rows'[t][d] : RowFits(t, d, w)
RunsFit ==
  \A r \in Run : payload'[r] = {}
                 \/ (target'[r] = target[r] /\ \A c \in payload'[r] : CellFits(c, target[r]))
TotalsFit == \A d \in Date : \A c \in metrics'[d] : CellFits(c, d)
FilesFit ==
  /\ \A e \in Exporter : \A c \in snapshot'[e] : ProperCell(c)
  /\ \A d \in Date : object'[d] # NoObject => \A c \in object'[d].cells : ProperCell(c)

LEMMA PartsFit ==
  ASSUME Shape, World, TablesFit, RunsFit, TotalsFit, FilesFit
  PROVE  RowsFit' /\ PayloadsFit' /\ MetricsFit' /\ ExportsFit'
<1>1. Date' = Date /\ scenario' = scenario /\ NoObject' = NoObject
  BY WorldGrows DEF World, NoObject
<1>2. RowsFit'
  BY <1>1, FitsStay DEF TablesFit, RowsFit
<1>3. PayloadsFit'
  <2> SUFFICES ASSUME NEW r \in Run, NEW c \in payload'[r]
               PROVE  CellFits(c, target[r])'
    BY DEF PayloadsFit
  <2>1. target'[r] = target[r] /\ CellFits(c, target[r])
    BY DEF RunsFit
  <2>2. \A d : CellFits(c, d) => CellFits(c, d)'
    BY FitsStay
  <2>3. PICK d : d = target[r]
    OBVIOUS
  <2>4. CellFits(c, d) /\ d = target'[r]
    BY <2>1, <2>3
  <2>5. CellFits(c, d)'
    BY <2>2, <2>4
  <2> QED BY <2>4, <2>5
<1>4. MetricsFit'
  BY <1>1, FitsStay DEF TotalsFit, MetricsFit
<1>5. ExportsFit'
  BY <1>1, FitsStay DEF FilesFit, ExportsFit
<1> QED BY <1>2, <1>3, <1>4, <1>5

LEMMA Unchanging ==
  ASSUME Shape, FitInv
  PROVE  /\ UNCHANGED rows => TablesFit
         /\ UNCHANGED <<payload, target>> => RunsFit
         /\ UNCHANGED metrics => TotalsFit
         /\ UNCHANGED <<object, snapshot>> => FilesFit
BY DEF FitInv, RowsFit, PayloadsFit, MetricsFit, ExportsFit, TablesFit, RunsFit, TotalsFit, FilesFit

LEMMA SameWorld ==
  ASSUME FitInv, UNCHANGED <<scenario, raw, clock>>
  PROVE  World /\ clock \in Nat /\ clock' = clock
<1>1. clock \in Nat
  BY DEF FitInv, Counters
<1> QED BY <1>1 DEF World

\* A run that ends forgets what it had; the counters of a run stay small.
LEMMA EndFits ==
  ASSUME IInv, FitInv, NEW r \in Run, End(r), UNCHANGED <<scenario, raw, today, clock, place, retries>>
  PROVE  RunsFit /\ Counters'
<1>1. \A o \in Run : payload'[o] = {} \/ (payload'[o] = payload[o] /\ target'[o] = target[o])
  BY DEF End, IInv, Shape
<1>2. RunsFit
  BY <1>1 DEF RunsFit, FitInv, PayloadsFit
<1>3. 0 \in 0 .. clock /\ 0 \in 0 .. MaxTries - 1
  BY DEF FitInv, Counters
<1>4. /\ computedAt' \in [Run -> 0 .. clock] /\ tries' \in [Run -> 0 .. MaxTries - 1]
      /\ alone' \in [Run -> BOOLEAN]
  BY <1>3 DEF End, FitInv, Counters
<1> QED BY <1>2, <1>4 DEF FitInv, Counters, Date

LEMMA CountersStay ==
  ASSUME FitInv, UNCHANGED <<scenario, today, clock, computedAt, tries, place, retries, alone>>
  PROVE  Counters'
BY DEF FitInv, Counters, Date

LEMMA BeginFits ==
  ASSUME IInv, FitInv, NEW r \in Run, NEW d \in Date, Begin(r, d)
  PROVE  FitInv'
<1>1. UNCHANGED <<scenario, raw, today, clock, rows, metrics, object, place, snapshot, retries>>
  BY DEF Begin, environment, exportVars
<1>2. \A o \in Run : payload'[o] = {} \/ (payload'[o] = payload[o] /\ target'[o] = target[o])
  BY DEF Begin, IInv, Shape
<1>3. RunsFit
  BY <1>2 DEF RunsFit, FitInv, PayloadsFit
<1>4. clock \in 0 .. clock /\ 0 \in 0 .. MaxTries - 1
  BY DEF FitInv, Counters
<1>5. computedAt' \in [Run -> 0 .. clock] /\ tries' \in [Run -> 0 .. MaxTries - 1]
  BY <1>4 DEF Begin, FitInv, Counters
<1>6. alone' \in [Run -> BOOLEAN]
  <2> DEFINE b(o) == IF o = r THEN Beside(r, d) = {} ELSE alone[o] /\ o \notin Beside(r, d)
  <2>1. alone' = [o \in Run |-> b(o)]
    BY DEF Begin
  <2>2. ASSUME NEW o \in Run
        PROVE  b(o) \in BOOLEAN
    <3>1. alone[o] \in BOOLEAN
      BY DEF FitInv, Counters
    <3>2. CASE o = r
      BY <3>2
    <3>3. CASE o # r
      BY <3>1, <3>3
    <3> QED BY <3>2, <3>3
  <2> HIDE DEF b
  <2> QED BY <2>1, <2>2
<1>7. Counters'
  BY <1>1, <1>5, <1>6 DEF FitInv, Counters, Date
<1> QED BY <1>1, <1>3, <1>7, SameWorld, Unchanging, PartsFit DEF FitInv, IInv

LEMMA ChangeFits ==
  ASSUME IInv, FitInv, NEW r \in Run, Rewriting(r), NEW new, Change(r, new),
         \A w \in new : w \in rows[Current(r)][target[r]] \/ w.seen = Len(raw),
         \A w \in new : RowFits(Current(r), target[r], w)
  PROVE  TablesFit
<1> SUFFICES ASSUME NEW t \in scenario.tables, NEW d \in Date, NEW w \in rows'[t][d]
             PROVE  RowFits(t, d, w)
  BY DEF TablesFit
<1>1. /\ rows'[Current(r)][target[r]] = new
      /\ \A e \in Date \ {target[r]} : rows'[Current(r)][e] = rows[Current(r)][e]
      /\ \A u \in scenario.tables \ {Current(r)} : rows'[u] = rows[u]
  BY ChangeIsRecent
<1>2. CASE t = Current(r) /\ d = target[r]
  BY <1>1, <1>2
<1>3. CASE t # Current(r) \/ d # target[r]
  <2>1. w \in rows[t][d]
    BY <1>1, <1>3
  <2> QED BY <2>1 DEF FitInv, RowsFit
<1> QED BY <1>2, <1>3

LEMMA DeleteRowsFits ==
  ASSUME IInv, FitInv, NEW r \in Run, DeleteRows(r)
  PROVE  FitInv'
<1>1. /\ Rewriting(r)
      /\ UNCHANGED <<scenario, raw, today, clock, metrics, object, snapshot, place, retries>>
  BY DEF DeleteRows, Rewriting, environment, exportVars
<1>2. RunsFit /\ Counters'
  <2>1. CASE End(r)
    BY <1>1, <2>1, EndFits
  <2>2. CASE Continue(r, "insert", todo[r]) /\ UNCHANGED <<payload, tries>>
    BY <1>1, <2>2, CountersStay, Unchanging DEF Continue, IInv
  <2> QED BY <2>1, <2>2 DEF DeleteRows
<1>3. TablesFit
  <2>1. CASE Change(r, {})
    BY <1>1, <2>1, ChangeFits
  <2>2. CASE UNCHANGED rows
    BY <2>2, Unchanging DEF IInv
  <2> QED BY <2>1, <2>2 DEF DeleteRows
<1> QED BY <1>1, <1>2, <1>3, SameWorld, Unchanging, PartsFit DEF FitInv, IInv

LEMMA InsertRowsFits ==
  ASSUME IInv, FitInv, NEW r \in Run, InsertRows(r)
  PROVE  FitInv'
<1> DEFINE T == Current(r)
           new == Merged(rows[T][target[r]], Block(T, target[r], computedAt[r]))
           left == todo[r] \ {T}
           readable == scenario.tables \intersect Readable
<1>1. /\ Rewriting(r)
      /\ UNCHANGED <<scenario, raw, today, clock, metrics, object, snapshot, place, retries>>
  BY DEF InsertRows, Rewriting, environment, exportVars
<1>2. \/ End(r)
      \/ Continue(r, "delete", left) /\ UNCHANGED <<payload, tries>>
      \/ Continue(r, IF readable = {} THEN "upsert" ELSE "read", readable) /\ UNCHANGED <<payload, tries>>
  BY DEF InsertRows
<1>3. RunsFit /\ Counters'
  <2>1. CASE End(r)
    BY <1>1, <2>1, EndFits
  <2>2. CASE UNCHANGED <<payload, target, computedAt, tries, alone>>
    BY <1>1, <2>2, CountersStay, Unchanging DEF IInv
  <2> QED BY <1>2, <2>1, <2>2 DEF Continue
<1>4. \A w \in new : w \in rows[Current(r)][target[r]] \/ w.seen = Len(raw)
  BY MergedIsRecent
<1>5. ASSUME NEW w \in new
      PROVE  RowFits(T, target[r], w)
  <2>1. T \in scenario.tables /\ target[r] \in Date /\ computedAt[r] \in 0 .. clock
    BY <1>1, TableToWrite DEF FitInv, Counters
  <2>2. CASE w \in rows[T][target[r]]
    BY <2>1, <2>2 DEF FitInv, RowsFit
  <2>3. CASE w \in Block(T, target[r], computedAt[r])
    BY <2>1, <2>3, BlockFits DEF IInv
  <2> QED BY <2>2, <2>3 DEF Merged
<1>6. TablesFit
  <2>1. CASE Change(r, new)
    <3> HIDE DEF new
    <3> QED BY <1>1, <1>4, <1>5, <2>1, ChangeFits
  <2>2. CASE UNCHANGED rows
    BY <2>2, Unchanging DEF IInv
  <2> QED BY <2>1, <2>2 DEF InsertRows
<1> QED BY <1>1, <1>3, <1>6, SameWorld, Unchanging, PartsFit DEF FitInv, IInv

LEMMA ReadTableFits ==
  ASSUME IInv, FitInv, NEW r \in Run, ReadTable(r)
  PROVE  FitInv'
<1> DEFINE T == First(ReadRank, todo[r])
           cells == Cells(T, rows[T][target[r]])
<1>1. /\ phase[r] = "read"
      /\ UNCHANGED <<scenario, raw, today, clock, rows, metrics, object, snapshot, place, retries>>
  BY DEF ReadTable, environment, exportVars
<1>2. \A c \in cells : CellFits(c, target[r])
  <2>1. todo[r] \in SUBSET Readable /\ todo[r] # {} /\ todo[r] \subseteq scenario.tables
        /\ target[r] \in Date
    BY <1>1 DEF IInv, Shape
  <2>2. T \in scenario.tables \intersect Readable
    BY <2>1, FirstOfReadable
  <2> HIDE DEF T
  <2>3. \A w \in rows[T][target[r]] : RowFits(T, target[r], w)
    BY <2>1, <2>2 DEF FitInv, RowsFit
  <2> QED BY <2>2, <2>3, CellsFit DEF IInv
<1> HIDE DEF cells
<1>3. RunsFit /\ Counters'
  <2>1. CASE End(r)
    BY <1>1, <2>1, EndFits
  <2>2. CASE payload' = [payload EXCEPT ![r] = Upserted(@, cells)]
             /\ UNCHANGED <<target, computedAt, tries, alone>>
    <3>1. payload'[r] = Upserted(payload[r], cells) /\ \A o \in Run \ {r} : payload'[o] = payload[o]
      BY <2>2 DEF IInv, Shape
    <3>2. \A c \in payload'[r] : c \in payload[r] \/ c \in cells
      BY <3>1 DEF Upserted
    <3>3. RunsFit
      BY <1>2, <2>2, <3>1, <3>2 DEF RunsFit, FitInv, PayloadsFit
    <3> QED BY <1>1, <2>2, <3>3, CountersStay
  <2> QED BY <2>1, <2>2 DEF ReadTable, Continue, cells
<1> QED BY <1>1, <1>3, SameWorld, Unchanging, PartsFit DEF FitInv, IInv

LEMMA UpsertFits ==
  ASSUME IInv, WholeInv, FitInv, NEW r \in Run, Upsert(r)
  PROVE  FitInv'
<1>1. UNCHANGED <<scenario, raw, today, clock, rows, object, snapshot, place, retries>>
      /\ target[r] \in Date
  BY DEF Upsert, environment, exportVars, IInv, Shape
<1>2. RunsFit /\ Counters'
  <2>1. CASE End(r)
    BY <1>1, <2>1, EndFits
  <2>2. CASE /\ tries[r] + 1 < MaxTries /\ tries' = [tries EXCEPT ![r] = @ + 1]
             /\ UNCHANGED <<phase, todo, target, computedAt, payload, started, alone>>
    <3>1. tries' \in [Run -> 0 .. MaxTries - 1]
      BY <2>2 DEF FitInv, Counters
    <3> QED BY <1>1, <2>2, <3>1, Unchanging DEF FitInv, Counters, Date, IInv
  <2> QED BY <2>1, <2>2 DEF Upsert, RetryOrFail
<1>3. TotalsFit
  <2>1. CASE UNCHANGED metrics
    BY <2>1, Unchanging DEF IInv
  <2>2. CASE metrics' = [metrics EXCEPT ![target[r]] = Upserted(@, payload[r])]
    <3>1. metrics = [d \in Date |-> metrics[d]]
      BY DEF WholeInv, WholeMetrics
    <3>2. /\ metrics'[target[r]] = Upserted(metrics[target[r]], payload[r])
          /\ \A d \in Date \ {target[r]} : metrics'[d] = metrics[d]
      BY <1>1, <2>2, <3>1
    <3>3. \A c \in metrics'[target[r]] : c \in metrics[target[r]] \/ c \in payload[r]
      BY <3>2 DEF Upserted
    <3> QED BY <1>1, <3>2, <3>3 DEF TotalsFit, FitInv, MetricsFit, PayloadsFit
  <2> QED BY <2>1, <2>2 DEF Upsert
<1> QED BY <1>1, <1>2, <1>3, SameWorld, Unchanging, PartsFit DEF FitInv, IInv

LEMMA RetriesFit ==
  ASSUME FitInv, NEW e \in Exporter, EndExport(e) \/ RetryExportOrFail(e),
         UNCHANGED <<scenario, today, clock, computedAt, tries, alone>>
  PROVE  Counters'
<1>1. 0 \in 0 .. MaxTries - 1
  OBVIOUS
<1>2. CASE EndExport(e)
  BY <1>1, <1>2 DEF EndExport, FitInv, Counters, Date
<1>3. CASE /\ retries[e] + 1 < MaxTries /\ place' = [place EXCEPT ![e] = "fetch"]
           /\ retries' = [retries EXCEPT ![e] = @ + 1]
  <2>1. retries' \in [Exporter -> 0 .. MaxTries - 1]
    BY <1>3 DEF FitInv, Counters
  <2> QED BY <1>3, <2>1 DEF FitInv, Counters, Date
<1> QED BY <1>2, <1>3 DEF RetryExportOrFail

LEMMA SnapshotsFit ==
  ASSUME WholeInv, FitInv, NEW e \in Exporter, EndExport(e) \/ RetryExportOrFail(e)
  PROVE  \A x \in Exporter : \A c \in snapshot'[x] : ProperCell(c)
<1>1. \A x \in Exporter : snapshot'[x] = {} \/ snapshot'[x] = snapshot[x]
  BY DEF EndExport, RetryExportOrFail, WholeInv, WholeExports
<1> QED BY <1>1 DEF FitInv, ExportsFit

LEMMA FetchFits ==
  ASSUME IInv, WholeInv, FitInv, NEW e \in Exporter, Fetch(e)
  PROVE  FitInv'
<1>1. UNCHANGED <<scenario, raw, today, clock, rows, metrics, object, payload, target, computedAt, tries, alone>>
  BY DEF Fetch, environment, runVars
<1>2. FilesFit /\ Counters'
  <2>1. CASE RetryExportOrFail(e)
    BY <1>1, <2>1, RetriesFit, SnapshotsFit DEF FilesFit, FitInv, ExportsFit
  <2>2. CASE /\ place' = [place EXCEPT ![e] = "put"]
             /\ snapshot' = [snapshot EXCEPT ![e] = metrics[source[e]]]
             /\ UNCHANGED <<source, retries>>
    <3>1. snapshot = [x \in Exporter |-> snapshot[x]] /\ source[e] \in Date
      BY DEF WholeInv, WholeExports
    <3>2. /\ snapshot'[e] = metrics[source[e]]
          /\ \A x \in Exporter \ {e} : snapshot'[x] = snapshot[x]
      BY <2>2, <3>1
    <3>3. \A c \in metrics[source[e]] : ProperCell(c)
      BY <3>1 DEF FitInv, MetricsFit, CellFits
    <3>4. \A x \in Exporter : \A c \in snapshot'[x] : ProperCell(c)
      BY <3>2, <3>3 DEF FitInv, ExportsFit
    <3>5. Counters'
      BY <1>1, <2>2 DEF FitInv, Counters, Date
    <3> QED BY <1>1, <3>4, <3>5 DEF FilesFit, FitInv, ExportsFit
  <2> QED BY <2>1, <2>2 DEF Fetch
<1> QED BY <1>1, <1>2, SameWorld, Unchanging, PartsFit DEF FitInv, IInv

LEMMA PutFits ==
  ASSUME IInv, WholeInv, FitInv, NEW e \in Exporter, Put(e)
  PROVE  FitInv'
<1>1. UNCHANGED <<scenario, raw, today, clock, rows, metrics, payload, target, computedAt, tries, alone>>
  BY DEF Put, environment, runVars
<1>2. EndExport(e) \/ RetryExportOrFail(e)
  BY DEF Put
<1>3. \A d \in Date : object'[d] # NoObject => \A c \in object'[d].cells : ProperCell(c)
  <2>1. CASE UNCHANGED object
    BY <2>1 DEF FitInv, ExportsFit
  <2>2. CASE object' = [object EXCEPT ![source[e]] = Object(snapshot[e])]
    <3>1. object = [d \in Date |-> object[d]] /\ source[e] \in Date
      BY DEF WholeInv, WholeExports
    <3>2. /\ object'[source[e]] = Object(snapshot[e])
          /\ \A d \in Date \ {source[e]} : object'[d] = object[d]
      BY <2>2, <3>1
    <3>3. Object(snapshot[e]).cells = snapshot[e]
      BY DEF Object
    <3>4. \A c \in object'[source[e]].cells : ProperCell(c)
      BY <3>2, <3>3 DEF FitInv, ExportsFit
    <3> QED BY <3>2, <3>4 DEF FitInv, ExportsFit
  <2> QED BY <2>1, <2>2 DEF Put
<1>4. FilesFit /\ Counters'
  BY <1>1, <1>2, <1>3, RetriesFit, SnapshotsFit DEF FilesFit
<1> QED BY <1>1, <1>4, SameWorld, Unchanging, PartsFit DEF FitInv, IInv

LEMMA BeginExportFits ==
  ASSUME IInv, FitInv, NEW e \in Exporter, NEW d \in Date, BeginExport(e, d)
  PROVE  FitInv'
<1>1. UNCHANGED <<scenario, raw, today, clock, rows, metrics, object, snapshot, retries,
                  payload, target, computedAt, tries, alone>>
  BY DEF BeginExport, environment, runVars
<1>2. place' \in [Exporter -> {"idle", "fetch", "put"}]
  BY DEF BeginExport, FitInv, Counters
<1>3. Counters'
  BY <1>1, <1>2 DEF FitInv, Counters, Date
<1> QED BY <1>1, <1>3, SameWorld, Unchanging, PartsFit DEF FitInv, IInv

LEMMA RestartFits ==
  ASSUME IInv, FitInv, Restart
  PROVE  FitInv'
<1>1. UNCHANGED <<scenario, raw, today, clock, rows, metrics, object>>
  BY DEF Restart, environment
<1>2. /\ payload' = [r \in Run |-> {}] /\ computedAt' = [r \in Run |-> 0]
      /\ tries' = [r \in Run |-> 0] /\ alone' = [r \in Run |-> TRUE]
      /\ place' = [e \in Exporter |-> "idle"] /\ retries' = [e \in Exporter |-> 0]
      /\ snapshot' = [e \in Exporter |-> {}]
  BY DEF Restart, Each, Every
<1>3. 0 \in 0 .. clock /\ 0 \in 0 .. MaxTries - 1
  BY DEF FitInv, Counters
<1>4. Counters'
  BY <1>1, <1>2, <1>3 DEF FitInv, Counters, Date
<1>5. RunsFit /\ FilesFit
  BY <1>1, <1>2 DEF RunsFit, FilesFit, FitInv, ExportsFit
<1> QED BY <1>1, <1>4, <1>5, SameWorld, Unchanging, PartsFit DEF FitInv, IInv

\* Events arrive, days and seconds pass.
LEMMA WorldFits ==
  ASSUME IInv, FitInv, World, Counters',
         UNCHANGED <<rows, metrics, object, snapshot, payload, target>>
  PROVE  FitInv'
BY Unchanging, PartsFit DEF FitInv, IInv

LEMMA EnvironmentFits ==
  ASSUME IInv, FitInv, (\E event \in scenario.events : Arrive(event)) \/ Midnight \/ Tick
  PROVE  FitInv'
<1>1. /\ UNCHANGED <<scenario, rows, metrics, object, snapshot, payload, target,
                     computedAt, tries, place, retries, alone>>
      /\ raw' = raw \/ \E event \in scenario.events : raw' = Append(raw, event)
      /\ today' = today \/ (today < scenario.lastDay /\ today' = today + 1)
      /\ clock' = clock \/ (clock < scenario.seconds /\ clock' = clock + 1)
  BY DEF Arrive, Midnight, Tick, runVars, exportVars
<1>2. clock \in Nat /\ clock' \in 0 .. scenario.seconds /\ clock <= clock'
  <2>1. scenario \in Scenarios
    BY DEF IInv, Shape
  <2>2. scenario.seconds \in Nat
    BY <2>1
  <2> QED BY <1>1, <2>2 DEF FitInv, Counters
<1>3. World
  BY <1>1, <1>2 DEF World
<1>4. today' \in Date
  <2>1. scenario \in Scenarios
    BY DEF IInv, Shape
  <2>2. scenario.lastDay \in Nat
    BY <2>1
  <2> QED BY <1>1, <2>2 DEF FitInv, Counters, Date
<1>5. computedAt' \in [Run -> 0 .. clock']
  BY <1>1, <1>2 DEF FitInv, Counters
<1>6. Counters'
  BY <1>1, <1>2, <1>4, <1>5 DEF FitInv, Counters, Date
<1> QED BY <1>1, <1>3, <1>6, WorldFits

LEMMA FitStep ==
  ASSUME IInv, WholeInv, FitInv, [Next]_vars
  PROVE  FitInv'
<1>1. CASE BeginScheduled
  BY <1>1, BeginFits DEF BeginScheduled, Run
<1>2. CASE \E r \in Post, d \in Date : BeginPosted(r, d)
  BY <1>2, BeginFits DEF BeginPosted, Run
<1>3. CASE \E r \in Run : StepRun(r)
  BY <1>3, DeleteRowsFits, InsertRowsFits, ReadTableFits, UpsertFits DEF StepRun
<1>4. CASE BeginScheduledExport
  BY <1>4, BeginExportFits DEF BeginScheduledExport, Exporter
<1>5. CASE \E e \in PostExport, d \in Date : BeginPostedExport(e, d)
  BY <1>5, BeginExportFits DEF BeginPostedExport, Exporter
<1>6. CASE \E e \in Exporter : StepExport(e)
  BY <1>6, FetchFits, PutFits DEF StepExport
<1>7. CASE UNCHANGED vars
  <2>1. UNCHANGED <<scenario, raw, today, clock, rows, metrics, object, snapshot, payload, target,
                    computedAt, tries, place, retries, alone>>
    BY <1>7 DEF vars, environment, runVars, exportVars
  <2> QED BY <2>1, SameWorld, CountersStay, WorldFits
<1> QED BY <1>1, <1>2, <1>3, <1>4, <1>5, <1>6, <1>7, RestartFits, EnvironmentFits DEF Next

LEMMA InitiallyFits ==
  ASSUME Init
  PROVE  FitInv
<1>1. scenario \in Scenarios
  BY DEF Init
<1>2. scenario.lastDay \in Nat \ {0} /\ scenario.seconds \in Nat
  BY <1>1
<1>3. 1 \in Date
  BY <1>2 DEF Date
<1>4. Counters
  <2>1. 0 \in 0 .. scenario.seconds /\ 0 \in 0 .. 0 /\ 0 \in 0 .. MaxTries - 1
    BY <1>2
  <2> QED BY <1>3, <2>1 DEF Init, Each, Every, Counters
<1>5. RowsFit
  <2>1. \A t \in scenario.tables, d \in Date : rows[t][d] = {}
    BY DEF Init
  <2> QED BY <2>1 DEF RowsFit
<1>6. PayloadsFit /\ MetricsFit /\ ExportsFit
  BY DEF Init, Each, Every, PayloadsFit, MetricsFit, ExportsFit
<1> QED BY <1>4, <1>5, <1>6 DEF FitInv

\* Every event has the date on which it was stored.
Stored == arrived \in [DOMAIN raw -> 1 .. today]

LEMMA StoredStep ==
  ASSUME IInv, FitInv, Stored, [Next]_vars
  PROVE  Stored'
<1>1. ASSUME UNCHANGED <<raw, arrived, today>> PROVE Stored'
  BY <1>1 DEF Stored
<1>2. CASE BeginScheduled \/ \E r \in Post, d \in Date : BeginPosted(r, d)
  BY <1>1, <1>2 DEF BeginScheduled, BeginPosted, Begin, environment
<1>3. CASE \E r \in Run : StepRun(r)
  BY <1>1, <1>3 DEF StepRun, DeleteRows, InsertRows, ReadTable, Upsert, environment
<1>4. CASE BeginScheduledExport \/ \E e \in PostExport, d \in Date : BeginPostedExport(e, d)
  BY <1>1, <1>4 DEF BeginScheduledExport, BeginPostedExport, BeginExport, environment
<1>5. CASE \E e \in Exporter : StepExport(e)
  BY <1>1, <1>5 DEF StepExport, Fetch, Put, environment
<1>6. ASSUME NEW event \in scenario.events, Arrive(event) PROVE Stored'
  <2>1. raw' = Append(raw, event) /\ arrived' = Append(arrived, today) /\ today' = today
    BY <1>6 DEF Arrive
  <2>2. today \in Nat /\ today >= 1 /\ DOMAIN raw = 1 .. Len(raw) /\ Len(raw) \in Nat
    BY DEF FitInv, Counters, Date, IInv, Shape
  <2>3. arrived \in Seq(1 .. today) /\ Len(arrived) = Len(raw)
    BY <2>2 DEF Stored
  <2>4. arrived' \in Seq(1 .. today) /\ Len(arrived') = Len(raw) + 1
    BY <2>1, <2>2, <2>3
  <2>5. DOMAIN raw' = 1 .. Len(raw) + 1
    BY <2>1 DEF IInv, Shape
  <2>6. arrived' \in [1 .. Len(raw) + 1 -> 1 .. today]
    BY <2>2, <2>4
  <2> QED BY <2>1, <2>5, <2>6 DEF Stored
<1>7. CASE Midnight
  <2>1. today \in Nat /\ today' = today + 1 /\ UNCHANGED <<raw, arrived>>
    BY <1>7 DEF Midnight, FitInv, Counters, Date
  <2> QED BY <2>1 DEF Stored
<1>8. CASE Tick \/ Restart \/ UNCHANGED vars
  BY <1>1, <1>8 DEF Tick, Restart, vars, environment
<1> QED BY <1>2, <1>3, <1>4, <1>5, <1>6, <1>7, <1>8 DEF Next

LEMMA InitiallyStored == Init => Stored
BY DEF Init, Stored

LEMMA Types ==
  ASSUME IInv, WholeInv, FitInv, Stored
  PROVE  TypeOK
<1>1. \A c : ProperCell(c) => c.seen \in 0 .. Len(raw) /\ c.value \in Nat \X (Nat \ {0})
  BY DEF ProperCell, Quotient
<1>2. \A t \in scenario.tables, d \in Date : \A w \in rows[t][d] :
        w.at \in 0 .. clock /\ w.seen \in 0 .. Len(raw)
  BY DEF FitInv, RowsFit, RowFits
<1>3. /\ \A r \in Run : \A c \in payload[r] : ProperCell(c)
      /\ \A d \in Date : \A c \in metrics[d] : ProperCell(c)
      /\ \A d \in Date : object[d] # NoObject => \A c \in object[d].cells : ProperCell(c)
  BY DEF FitInv, PayloadsFit, MetricsFit, ExportsFit, CellFits
<1>4. started \in [Run -> 0 .. Len(raw)]
  BY DEF IInv, Shape
<1>5. /\ phase \in [Run -> {"idle", "delete", "insert", "read", "upsert"}]
      /\ \A r \in Run : todo[r] \subseteq scenario.tables
      /\ target \in [Run -> Date] /\ scenario \in Scenarios /\ raw \in Seq(scenario.events)
  BY DEF IInv, Shape, Phases
<1>6. source \in [Exporter -> Date]
  BY DEF WholeInv, WholeExports
<1> QED BY <1>1, <1>2, <1>3, <1>4, <1>5, <1>6 DEF TypeOK, FitInv, Counters, Stored

\* Every variable of aggregation-service keeps its type.  No quotient it stores in
\* daily_metrics or exports has denominator 0, whatever the queries of
\* aggregation.py find: no finished view, no start, an empty cohort.
THEOREM TypeCorrect == Spec => []TypeOK
<1>1. Init => IInv /\ WholeInv /\ FitInv /\ Stored
  BY InitiallyFresh, InitiallyFits, InitiallyWhole, InitiallyStored
<1>2. IInv /\ WholeInv /\ FitInv /\ Stored /\ [Next]_vars => IInv' /\ WholeInv' /\ FitInv' /\ Stored'
  BY FreshStep, WholeStep, FitStep, StoredStep
<1>3. IInv /\ WholeInv /\ FitInv /\ Stored => TypeOK
  BY Types
<1> QED BY <1>1, <1>2, <1>3, PTL DEF Spec

-----------------------------------------------------------------------------
(* Returns that are stored in time *)

Returned(d, n) == Cardinality(ReturnedInTime(d, n))
Within(v, d, n) == v[1] \in Nat /\ v[1] <= Returned(d, n)

RowsWithin(d) ==
  "retention" \in scenario.tables => \A w \in rows["retention"][d] :
    Within(w.value.d1, d, 1) /\ Within(w.value.d7, d, LateDay)
CellsWithin(cells, d) ==
  \A c \in cells : /\ c.name = "RETENTION_D1" => Within(c.value, d, 1)
                   /\ c.name = "RETENTION_D7" => Within(c.value, d, LateDay)

\* A run of a date that is not late works on that date or on the day after it.
InTime == \A r \in Run : phase[r] # "idle" /\ target[r] \notin late => today <= target[r] + 1

\* No table, no run and no metric of a date that is not late counts a user whose
\* return was stored later than that.
CountsInTime ==
  \A d \in Date \ late : /\ RowsWithin(d) /\ CellsWithin(metrics[d], d)
                         /\ \A r \in Run : target[r] = d => CellsWithin(payload[r], d)

LateInv == InTime /\ CountsInTime
Known == IInv /\ WholeInv /\ FitInv /\ Stored

\* An event is stored, or nothing is.
Stores ==
  \/ UNCHANGED <<raw, arrived>>
  \/ \E e \in scenario.events : raw' = Append(raw, e) /\ arrived' = Append(arrived, today)

LEMMA ReturnsAreFinite == Shape => \A d, n : IsFiniteSet(ReturnedInTime(d, n))
<1> SUFFICES ASSUME Shape, NEW d, NEW n PROVE IsFiniteSet(ReturnedInTime(d, n))
  OBVIOUS
<1> DEFINE T == {j \in DOMAIN raw : raw[j].type \in Watching /\ raw[j].day = d + n /\ arrived[j] <= d + 1}
<1>1. ReturnedInTime(d, n) = {raw[i].user : i \in T}
  BY DEF ReturnedInTime
<1>2. T \in SUBSET (DOMAIN raw)
  OBVIOUS
<1> HIDE DEF T
<1> QED BY <1>1, <1>2, UsersAreFinite
LEMMA ReturnsAreFiniteNext == Shape' => (\A d, n : IsFiniteSet(ReturnedInTime(d, n)))'
BY ReturnsAreFinite, PTL

\* Who has returned in time has done so for ever.
LEMMA WithinStays ==
  ASSUME Known, Shape', Stores
  PROVE  \A v, d, n : Within(v, d, n) => Within(v, d, n)'
<1>1. \A i \in DOMAIN raw : i \in DOMAIN raw' /\ raw'[i] = raw[i] /\ arrived'[i] = arrived[i]
  <2>1. CASE UNCHANGED <<raw, arrived>>
    BY <2>1
  <2>2. ASSUME NEW e \in scenario.events, raw' = Append(raw, e), arrived' = Append(arrived, today)
        PROVE  \A i \in DOMAIN raw : i \in DOMAIN raw' /\ raw'[i] = raw[i] /\ arrived'[i] = arrived[i]
    <3>1. DOMAIN raw = 1 .. Len(raw) /\ Len(raw) \in Nat /\ today \in Nat
      BY DEF Known, IInv, Shape, FitInv, Counters, Date
    <3>2. arrived \in Seq(Nat) /\ Len(arrived) = Len(raw)
      BY <3>1 DEF Known, Stored
    <3>3. DOMAIN raw' = 1 .. Len(raw) + 1 /\ \A i \in 1 .. Len(raw) : raw'[i] = raw[i]
      BY <2>2, <3>1 DEF Known, IInv, Shape
    <3>4. \A i \in 1 .. Len(raw) : arrived'[i] = arrived[i]
      BY <2>2, <3>1, <3>2
    <3> QED BY <3>1, <3>3, <3>4
  <2> QED BY <2>1, <2>2 DEF Stores
<1>2. \A d, n : Returned(d, n) \in Nat /\ Returned(d, n)' \in Nat /\ Returned(d, n) <= Returned(d, n)'
  <2> SUFFICES ASSUME NEW d, NEW n
               PROVE  Returned(d, n) \in Nat /\ Returned(d, n)' \in Nat /\ Returned(d, n) <= Returned(d, n)'
    OBVIOUS
  <2>1. ReturnedInTime(d, n) \subseteq ReturnedInTime(d, n)'
    BY <1>1 DEF ReturnedInTime
  <2>2. IsFiniteSet(ReturnedInTime(d, n)) /\ IsFiniteSet(ReturnedInTime(d, n)')
    BY ReturnsAreFinite, ReturnsAreFiniteNext DEF Known, IInv
  <2> QED BY <2>1, <2>2, FS_Subset, FS_CardinalityType DEF Returned
<1> QED BY <1>2 DEF Within

\* On a date and the day after it the SELECT of the retention counts only users
\* whose return is stored in time: nothing has been stored later yet.
LEMMA SelectedInTime ==
  ASSUME Known, NEW d \in Date, today <= d + 1, NEW w \in RetentionRows(d)
  PROVE  Within(w.value.d1, d, 1) /\ Within(w.value.d7, d, LateDay)
<1> DEFINE S(n) == {u \in Cohort(d) : d + n \in Watched(u)}
           size == Cardinality(Cohort(d))
<1>1. w.value = [d1 |-> Ratio(Cardinality(S(1)), size), d7 |-> Ratio(Cardinality(S(LateDay)), size)]
  BY DEF RetentionRows, Single
<1>2. ASSUME NEW n
      PROVE  Cardinality(S(n)) \in Nat /\ Returned(d, n) \in Nat /\ Cardinality(S(n)) <= Returned(d, n)
  <2>1. \A i \in DOMAIN raw : arrived[i] <= d + 1
    BY DEF Known, Stored, FitInv, Counters, Date
  <2>2. S(n) \subseteq ReturnedInTime(d, n)
    BY <2>1 DEF Watched, ReturnedInTime
  <2>3. IsFiniteSet(ReturnedInTime(d, n))
    BY ReturnsAreFinite DEF Known, IInv
  <2> HIDE DEF S
  <2> QED BY <2>2, <2>3, FS_Subset, FS_CardinalityType DEF Returned
<1> HIDE DEF S, size
<1>3. \A n : Within(Ratio(Cardinality(S(n)), size), d, n)
  BY <1>2 DEF Within, Ratio
<1> QED BY <1>1, <1>3

\* The two metrics of retention are made of its rows alone.
LEMMA ReturnCells ==
  ASSUME NEW t \in Readable, NEW found, NEW c \in Cells(t, found),
         c.name \in {"RETENTION_D1", "RETENTION_D7"}
  PROVE  /\ t = "retention"
         /\ \E w \in found : c.value = IF c.name = "RETENTION_D1" THEN w.value.d1 ELSE w.value.d7
<1>1. CASE t = "dau"
  BY <1>1 DEF Cells, Cell
<1>2. CASE t = "avg"
  BY <1>2 DEF Cells, Cell
<1>3. CASE t = "conversion"
  BY <1>3 DEF Cells, Cell
<1>4. CASE t = "retention"
  BY <1>4 DEF Cells, Cell
<1>5. CASE t = "top"
  BY <1>5 DEF Cells, Cell
<1>6. CASE t = "device"
  BY <1>6 DEF Cells, Cell
<1> QED BY <1>1, <1>2, <1>3, <1>4, <1>5, <1>6 DEF Readable, Table

\* The rows of a table, after a change in one place.
NewRowsWithin(d) ==
  "retention" \in scenario.tables => \A w \in rows'["retention"][d] :
    Within(w.value.d1, d, 1) /\ Within(w.value.d7, d, LateDay)

LEMMA ChangeInTime ==
  ASSUME IInv, LateInv, NEW r \in Run, Rewriting(r), NEW new, Change(r, new),
         \A w \in new : w \in rows[Current(r)][target[r]] \/ w.seen = Len(raw),
         Current(r) = "retention" /\ target[r] \notin late =>
           \A w \in new : Within(w.value.d1, target[r], 1) /\ Within(w.value.d7, target[r], LateDay),
         NEW d \in Date \ late
  PROVE  NewRowsWithin(d)
<1> SUFFICES ASSUME "retention" \in scenario.tables, NEW w \in rows'["retention"][d]
             PROVE  Within(w.value.d1, d, 1) /\ Within(w.value.d7, d, LateDay)
  BY DEF NewRowsWithin
<1>1. w \in rows["retention"][d] => Within(w.value.d1, d, 1) /\ Within(w.value.d7, d, LateDay)
  BY DEF LateInv, CountsInTime, RowsWithin
<1>2. /\ rows'[Current(r)][target[r]] = new
      /\ \A e \in Date \ {target[r]} : rows'[Current(r)][e] = rows[Current(r)][e]
      /\ \A t \in scenario.tables \ {Current(r)} : rows'[t] = rows[t]
  BY ChangeIsRecent
<1>3. CASE Current(r) # "retention"
  BY <1>1, <1>2, <1>3
<1>4. CASE Current(r) = "retention" /\ d # target[r]
  BY <1>1, <1>2, <1>4
<1>5. CASE Current(r) = "retention" /\ d = target[r]
  BY <1>2, <1>5
<1> QED BY <1>3, <1>4, <1>5

\* A step of one run, which leaves only what is within.
LEMMA LateRunStep ==
  ASSUME Known, Shape', LateInv, NEW r \in Run, UNCHANGED <<scenario, raw, arrived, today, late>>,
         OnlyRun(r), phase[r] # "idle", phase'[r] = "idle" \/ target'[r] = target[r],
         \A d \in Date \ late : /\ NewRowsWithin(d) /\ CellsWithin(metrics'[d], d)
                                /\ target'[r] = d => CellsWithin(payload'[r], d)
  PROVE  LateInv'
<1>1. Date' = Date /\ \A v, d, n : Within(v, d, n) => Within(v, d, n)'
  BY WithinStays DEF Date, Stores
<1>2. InTime'
  BY DEF OnlyRun, LateInv, InTime
<1>3. ASSUME NEW d \in Date \ late
      PROVE  RowsWithin(d)' /\ CellsWithin(metrics[d], d)'
  BY <1>1, <1>3 DEF NewRowsWithin, RowsWithin, CellsWithin
<1>4. ASSUME NEW d \in Date \ late, NEW o \in Run, target'[o] = d
      PROVE  CellsWithin(payload[o], d)'
  <2>1. CellsWithin(payload'[o], d)
    BY <1>4 DEF OnlyRun, LateInv, CountsInTime
  <2> QED BY <1>1, <2>1 DEF CellsWithin
<1> QED BY <1>1, <1>2, <1>3, <1>4 DEF LateInv, CountsInTime

\* A run that ends or goes on.
LEMMA RunGoesOn ==
  ASSUME IInv, NEW r \in Run, NEW next, NEW tables,
         End(r) \/ (Continue(r, next, tables) /\ \A o \in Run \ {r} : payload'[o] = payload[o])
  PROVE  OnlyRun(r) /\ ((phase'[r] = "idle" /\ payload'[r] = {}) \/ target'[r] = target[r])
BY DEF End, Continue, OnlyRun, IInv, Shape

LEMMA DeleteRowsLate ==
  ASSUME Known, Shape', LateInv, NEW r \in Run, DeleteRows(r)
  PROVE  LateInv'
<1>0. IInv
  BY DEF Known
<1>1. /\ phase[r] = "delete" /\ Rewriting(r)
      /\ UNCHANGED <<scenario, raw, arrived, today, late, metrics>>
  BY DEF DeleteRows, Rewriting, environment
<1>2. \/ End(r)
      \/ Continue(r, "insert", todo[r]) /\ UNCHANGED payload
  BY DEF DeleteRows
<1>3. OnlyRun(r) /\ ((phase'[r] = "idle" /\ payload'[r] = {}) \/ target'[r] = target[r])
  BY <1>0, <1>2, RunGoesOn
<1>4. payload'[r] = {} \/ (payload'[r] = payload[r] /\ target'[r] = target[r])
  BY <1>0, <1>2 DEF End, Continue, IInv, Shape
<1>5. ASSUME NEW d \in Date \ late PROVE NewRowsWithin(d)
  <2>1. CASE Change(r, {})
    BY <1>0, <1>1, <1>5, <2>1, ChangeInTime
  <2>2. CASE UNCHANGED rows
    BY <1>5, <2>2 DEF NewRowsWithin, RowsWithin, LateInv, CountsInTime
  <2> QED BY <2>1, <2>2 DEF DeleteRows
<1>6. \A d \in Date \ late : CellsWithin(metrics'[d], d) /\ (target'[r] = d => CellsWithin(payload'[r], d))
  BY <1>1, <1>4 DEF LateInv, CountsInTime, CellsWithin
<1> QED BY <1>1, <1>3, <1>5, <1>6, LateRunStep

LEMMA InsertRowsLate ==
  ASSUME Known, Shape', LateInv, NEW r \in Run, InsertRows(r)
  PROVE  LateInv'
<1> DEFINE T == Current(r)
           new == Merged(rows[T][target[r]], Block(T, target[r], computedAt[r]))
           left == todo[r] \ {T}
           readable == scenario.tables \intersect Readable
<1>0. IInv
  BY DEF Known
<1>1. /\ phase[r] = "insert" /\ Rewriting(r)
      /\ UNCHANGED <<scenario, raw, arrived, today, late, metrics>>
  BY DEF InsertRows, Rewriting, environment
<1>2. \/ End(r)
      \/ Continue(r, "delete", left) /\ UNCHANGED payload
      \/ Continue(r, IF readable = {} THEN "upsert" ELSE "read", readable) /\ UNCHANGED payload
  BY DEF InsertRows
<1>3. OnlyRun(r) /\ ((phase'[r] = "idle" /\ payload'[r] = {}) \/ target'[r] = target[r])
  <2> HIDE DEF left, readable
  <2> QED BY <1>0, <1>2, RunGoesOn
<1>4. payload'[r] = {} \/ (payload'[r] = payload[r] /\ target'[r] = target[r])
  BY <1>0, <1>2 DEF End, Continue, IInv, Shape
<1>5. ASSUME T = "retention", target[r] \notin late, NEW w \in new
      PROVE  Within(w.value.d1, target[r], 1) /\ Within(w.value.d7, target[r], LateDay)
  <2>1. target[r] \in Date /\ today <= target[r] + 1 /\ T \in scenario.tables
    BY <1>0, <1>1, <1>5, TableToWrite DEF LateInv, InTime
  <2>2. CASE w \in rows[T][target[r]]
    BY <1>5, <2>1, <2>2 DEF LateInv, CountsInTime, RowsWithin
  <2>3. CASE w \in Block(T, target[r], computedAt[r])
    <3>1. PICK u \in RetentionRows(target[r]) : w.value = u.value
      BY <1>5, <2>3 DEF Block, Selected
    <3> QED BY <2>1, <3>1, SelectedInTime
  <2> QED BY <1>5, <2>2, <2>3 DEF Merged
<1>6. \A w \in new : w \in rows[Current(r)][target[r]] \/ w.seen = Len(raw)
  BY MergedIsRecent
<1>7. ASSUME NEW d \in Date \ late PROVE NewRowsWithin(d)
  <2>1. CASE Change(r, new)
    <3> HIDE DEF new
    <3> QED BY <1>0, <1>1, <1>5, <1>6, <1>7, <2>1, ChangeInTime
  <2>2. CASE UNCHANGED rows
    BY <1>7, <2>2 DEF NewRowsWithin, RowsWithin, LateInv, CountsInTime
  <2> QED BY <2>1, <2>2 DEF InsertRows
<1>8. \A d \in Date \ late : CellsWithin(metrics'[d], d) /\ (target'[r] = d => CellsWithin(payload'[r], d))
  BY <1>1, <1>4 DEF LateInv, CountsInTime, CellsWithin
<1> QED BY <1>1, <1>3, <1>7, <1>8, LateRunStep

LEMMA ReadTableLate ==
  ASSUME Known, Shape', LateInv, NEW r \in Run, ReadTable(r)
  PROVE  LateInv'
<1> DEFINE T == First(ReadRank, todo[r])
           left == todo[r] \ {T}
           cells == Cells(T, rows[T][target[r]])
<1>0. IInv
  BY DEF Known
<1>1. phase[r] = "read" /\ UNCHANGED <<scenario, raw, arrived, today, late, metrics, rows>>
  BY DEF ReadTable, environment
<1>2. T \in Readable /\ T \in scenario.tables
  <2>1. todo[r] \in SUBSET Readable /\ todo[r] # {} /\ todo[r] \subseteq scenario.tables
    BY <1>0, <1>1 DEF IInv, Shape
  <2> QED BY <2>1, FirstOfReadable
<1>3. ASSUME target[r] \notin late PROVE CellsWithin(cells, target[r])
  <2>1. ASSUME NEW c \in cells, c.name \in {"RETENTION_D1", "RETENTION_D7"}
        PROVE  Within(c.value, target[r], IF c.name = "RETENTION_D1" THEN 1 ELSE LateDay)
    <3>1. /\ T = "retention"
          /\ \E w \in rows[T][target[r]] :
               c.value = IF c.name = "RETENTION_D1" THEN w.value.d1 ELSE w.value.d7
      BY <1>2, <2>1, ReturnCells
    <3>2. target[r] \in Date \ late
      BY <1>0, <1>3 DEF IInv, Shape
    <3>3. RowsWithin(target[r])
      BY <3>2 DEF LateInv, CountsInTime
    <3> HIDE DEF T
    <3> QED BY <1>2, <3>1, <3>3 DEF RowsWithin
  <2> HIDE DEF cells
  <2> QED BY <2>1 DEF CellsWithin
<1>4. \/ End(r)
      \/ /\ payload' = [payload EXCEPT ![r] = Upserted(@, cells)]
         /\ Continue(r, IF left = {} THEN "upsert" ELSE "read", left)
  BY DEF ReadTable
<1> HIDE DEF cells
<1>5. OnlyRun(r) /\ ((phase'[r] = "idle" /\ payload'[r] = {}) \/ target'[r] = target[r])
  <2> HIDE DEF left
  <2>1. CASE End(r)
    BY <1>0, <2>1, RunGoesOn
  <2>2. CASE ~End(r)
    <3>1. \A o \in Run \ {r} : payload'[o] = payload[o]
      BY <1>0, <1>4, <2>2 DEF IInv, Shape
    <3> QED BY <1>0, <1>4, <2>2, <3>1, RunGoesOn
  <2> QED BY <2>1, <2>2
<1>6. payload'[r] = {} \/ (payload'[r] = Upserted(payload[r], cells) /\ target'[r] = target[r])
  BY <1>0, <1>4 DEF End, Continue, IInv, Shape
<1>7. ASSUME NEW d \in Date \ late
      PROVE  /\ NewRowsWithin(d) /\ CellsWithin(metrics'[d], d)
             /\ target'[r] = d => CellsWithin(payload'[r], d)
  <2>1. NewRowsWithin(d) /\ CellsWithin(metrics'[d], d)
    BY <1>1, <1>7 DEF NewRowsWithin, RowsWithin, LateInv, CountsInTime
  <2>2. ASSUME target'[r] = d PROVE CellsWithin(payload'[r], d)
    <3>1. CASE payload'[r] = {}
      BY <3>1 DEF CellsWithin
    <3>2. CASE payload'[r] = Upserted(payload[r], cells) /\ target'[r] = target[r]
      <4>1. CellsWithin(payload[r], d) /\ CellsWithin(cells, d)
        BY <1>3, <1>7, <2>2, <3>2 DEF LateInv, CountsInTime
      <4> QED BY <3>2, <4>1 DEF Upserted, CellsWithin
    <3> QED BY <1>6, <3>1, <3>2
  <2> QED BY <2>1, <2>2
<1> QED BY <1>1, <1>5, <1>7, LateRunStep

LEMMA UpsertLate ==
  ASSUME Known, Shape', LateInv, NEW r \in Run, Upsert(r)
  PROVE  LateInv'
<1>1. phase[r] = "upsert" /\ UNCHANGED <<scenario, raw, arrived, today, late, rows>> /\ target[r] \in Date
  BY DEF Upsert, environment, Known, IInv, Shape
<1>2. End(r) \/ UNCHANGED <<phase, todo, target, payload, started>>
  BY DEF Upsert, RetryOrFail
<1>3. /\ OnlyRun(r)
      /\ \/ phase'[r] = "idle" /\ payload'[r] = {}
         \/ target'[r] = target[r] /\ payload'[r] = payload[r]
  BY <1>2 DEF End, OnlyRun, Known, IInv, Shape
<1>4. \/ UNCHANGED metrics
      \/ metrics' = [metrics EXCEPT ![target[r]] = Upserted(@, payload[r])]
  BY DEF Upsert
<1>5. ASSUME NEW d \in Date \ late PROVE CellsWithin(metrics'[d], d)
  <2>1. CellsWithin(metrics[d], d) /\ (target[r] = d => CellsWithin(payload[r], d))
    BY <1>5 DEF LateInv, CountsInTime
  <2>2. metrics'[d] = metrics[d] \/ (target[r] = d /\ metrics'[d] = Upserted(metrics[d], payload[r]))
    BY <1>1, <1>4 DEF Known, WholeInv, WholeMetrics
  <2> QED BY <2>1, <2>2 DEF CellsWithin, Upserted
<1>6. \A d \in Date \ late : NewRowsWithin(d) /\ (target'[r] = d => CellsWithin(payload'[r], d))
  BY <1>1, <1>3 DEF LateInv, CountsInTime, NewRowsWithin, RowsWithin, CellsWithin
<1> QED BY <1>1, <1>3, <1>5, <1>6, LateRunStep

LEMMA BeginLate ==
  ASSUME Known, Shape', LateInv, NEW r \in Run, NEW d \in Date, Begin(r, d),
         late \subseteq late', d \in late' \/ today <= d + 1
  PROVE  LateInv'
<1>1. UNCHANGED <<scenario, raw, arrived, today, rows, metrics>> /\ OnlyRun(r) /\ Date' = Date
  BY DEF Begin, environment, OnlyRun, Known, IInv, Shape, Date
<1>2. phase'[r] = "delete" /\ target'[r] = d /\ payload'[r] = {}
  BY DEF Begin, Known, IInv, Shape
<1>3. \A v, e, n : Within(v, e, n) => Within(v, e, n)'
  BY <1>1, WithinStays DEF Stores
<1>4. InTime'
  BY <1>1, <1>2 DEF OnlyRun, LateInv, InTime
<1>5. ASSUME NEW e \in Date \ late'
      PROVE  /\ RowsWithin(e)' /\ CellsWithin(metrics[e], e)'
             /\ \A o \in Run : target'[o] = e => CellsWithin(payload[o], e)'
  <2>1. /\ RowsWithin(e) /\ CellsWithin(metrics[e], e)
        /\ \A o \in Run : target'[o] = e => CellsWithin(payload'[o], e)
    BY <1>1, <1>2, <1>5 DEF OnlyRun, LateInv, CountsInTime, CellsWithin
  <2> QED BY <1>1, <1>3, <2>1 DEF RowsWithin, CellsWithin
<1> QED BY <1>1, <1>4, <1>5 DEF LateInv, CountsInTime

\* Steps that leave the tables and the metrics alone, and leave or end the runs.
LEMMA NothingLate ==
  ASSUME Known, Shape', LateInv, UNCHANGED <<scenario, rows, metrics>>, late \subseteq late',
         Stores, InTime',
         \A r \in Run : payload'[r] = {} \/ (payload'[r] = payload[r] /\ target'[r] = target[r])
  PROVE  LateInv'
<1>1. Date' = Date /\ \A v, d, n : Within(v, d, n) => Within(v, d, n)'
  BY WithinStays DEF Date
<1>2. ASSUME NEW d \in Date \ late'
      PROVE  /\ RowsWithin(d)' /\ CellsWithin(metrics[d], d)'
             /\ \A r \in Run : target'[r] = d => CellsWithin(payload[r], d)'
  <2>1. /\ RowsWithin(d) /\ CellsWithin(metrics[d], d)
        /\ \A r \in Run : target'[r] = d => CellsWithin(payload'[r], d)
    BY <1>2 DEF LateInv, CountsInTime, CellsWithin
  <2> QED BY <1>1, <2>1 DEF RowsWithin, CellsWithin
<1> QED BY <1>1, <1>2 DEF LateInv, CountsInTime

LEMMA LateStep ==
  ASSUME Known, Shape', LateInv, [Next]_vars
  PROVE  LateInv'
<1>1. CASE BeginScheduled
  <2>1. "schedule" \in Run /\ ScheduledDate \in Date /\ Begin("schedule", ScheduledDate) /\ late' = late
    BY <1>1 DEF BeginScheduled, Run
  <2>2. today <= ScheduledDate + 1
    BY DEF ScheduledDate, Known, FitInv, Counters, Date
  <2> QED BY <2>1, <2>2, BeginLate
<1>2. ASSUME NEW r \in Post, NEW d \in Date, BeginPosted(r, d) PROVE LateInv'
  <2>1. late' = late \union {d} /\ r \in Run /\ Begin(r, d)
    BY <1>2 DEF BeginPosted, Run
  <2> QED BY <2>1, BeginLate
<1>3. ASSUME NEW r \in Run, StepRun(r) PROVE LateInv'
  BY <1>3, DeleteRowsLate, InsertRowsLate, ReadTableLate, UpsertLate DEF StepRun
<1>4. ASSUME UNCHANGED <<scenario, rows, metrics, phase, target, payload, late, today>>, Stores
      PROVE  LateInv'
  <2>1. InTime'
    BY <1>4 DEF LateInv, InTime
  <2> QED BY <1>4, <2>1, NothingLate
<1>5. CASE BeginScheduledExport \/ \E e \in PostExport, d \in Date : BeginPostedExport(e, d)
  BY <1>4, <1>5 DEF BeginScheduledExport, BeginPostedExport, BeginExport, environment, runVars, Stores
<1>6. CASE \E e \in Exporter : StepExport(e)
  BY <1>4, <1>6 DEF StepExport, Fetch, Put, environment, runVars, Stores
<1>7. CASE (\E event \in scenario.events : Arrive(event)) \/ Tick
  BY <1>4, <1>7 DEF Arrive, Tick, runVars, bounds, Stores
<1>8. CASE UNCHANGED vars
  BY <1>4, <1>8 DEF vars, environment, runVars, bounds, Stores
<1>9. CASE Midnight
  <2>1. UNCHANGED <<scenario, raw, arrived, rows, metrics, phase, target, payload>> /\ late \subseteq late'
    BY <1>9 DEF Midnight, runVars
  <2>2. ASSUME NEW r \in Run, phase'[r] # "idle", target'[r] \notin late'
        PROVE  today' <= target'[r] + 1
    <3>1. ~(target[r] + 1 < today')
      BY <1>9, <2>1, <2>2 DEF Midnight
    <3>2. target[r] \in Nat /\ today' \in Nat
      BY <1>9 DEF Midnight, Known, IInv, Shape, FitInv, Counters, Date
    <3> QED BY <2>1, <3>1, <3>2
  <2>3. InTime'
    BY <2>2 DEF InTime
  <2> QED BY <2>1, <2>3, NothingLate DEF Stores
<1>10. CASE Restart
  <2>1. UNCHANGED <<scenario, raw, arrived, rows, metrics, late>>
    BY <1>10 DEF Restart, environment
  <2>2. phase' = [r \in Run |-> "idle"] /\ payload' = [r \in Run |-> {}]
    BY <1>10 DEF Restart, Each
  <2>3. InTime'
    BY <2>2 DEF InTime
  <2> QED BY <2>1, <2>2, <2>3, NothingLate DEF Stores
<1> QED BY <1>1, <1>2, <1>3, <1>5, <1>6, <1>7, <1>8, <1>9, <1>10 DEF Next

\* The scheduler computes a date once, on the day after it, so of the returns to a
\* date daily_metrics never counts one that is stored later, unless somebody asks
\* for the date with POST /aggregate or its run goes on past midnight -- whatever
\* runs overlap, fail and start again, and whatever days the events are stamped
\* with.  RETENTION_D1 has the returns of the next day stored on that same day,
\* and RETENTION_D7 none but those stamped ahead.
THEOREM LateReturnsArePosted == Spec => []LateReturnsNeedAPost
<1>1. Init => Known /\ LateInv
  <2> SUFFICES ASSUME Init PROVE LateInv
    BY InitiallyFresh, InitiallyWhole, InitiallyFits, InitiallyStored DEF Known
  <2> QED BY DEF Init, Each, LateInv, InTime, CountsInTime, RowsWithin, CellsWithin
<1>2. Known /\ LateInv /\ [Next]_vars => Known' /\ LateInv'
  <2> SUFFICES ASSUME Known, LateInv, [Next]_vars PROVE Known' /\ LateInv'
    OBVIOUS
  <2>1. IInv' /\ WholeInv' /\ FitInv' /\ Stored'
    BY FreshStep, WholeStep, FitStep, StoredStep DEF Known
  <2>2. LateInv'
    BY <2>1, LateStep DEF IInv
  <2> QED BY <2>1, <2>2 DEF Known
<1>3. LateInv => LateReturnsNeedAPost
  BY DEF LateInv, CountsInTime, CellsWithin, Within, Returned, LateReturnsNeedAPost
<1> QED BY <1>1, <1>2, <1>3, PTL DEF Spec

-----------------------------------------------------------------------------
(* A run alone *)

Sources == scenario.tables \intersect Readable
TruthOf(tables, d) == UNION {Cells(t, Block(t, d, 0)) : t \in tables}

\* The tables run r has rewritten.
Rewritten(r) ==
  {t \in scenario.tables : phase[r] \in {"read", "upsert"} \/ (Rewriting(r) /\ t \notin todo[r])}

LoneRows(r) ==
  /\ \A t \in Rewritten(r) : rows[t][target[r]] = Block(t, target[r], computedAt[r])
  /\ phase[r] = "insert" => rows[Current(r)][target[r]] = {}
LonePayload(r) ==
  phase[r] \in {"read", "upsert"} => payload[r] = TruthOf(Sources \ todo[r], target[r])

\* A run that has been alone, and has seen every event, has written what it has
\* selected, and read what it has written.
RunLone(r) ==
  /\ phase[r] \in {"delete", "insert"} => payload[r] = {}
  /\ phase[r] = "upsert" => todo[r] = {}
  /\ alone[r] /\ phase[r] # "idle" => Beside(r, target[r]) = {}
  /\ alone[r] /\ phase[r] # "idle" /\ started[r] = Len(raw) => LoneRows(r) /\ LonePayload(r)
LoneInv == failures \in Nat /\ \A r \in Run : RunLone(r)

\* The average is that of a sum which does not depend on the order.
SeenProgress(d) == {i \in Typed(d, "VIEW_FINISHED") : raw[i].progress >= 0}
AvgCounted ==
  \A d : AvgRows(d) = Single(Ratio(SumOf([i \in SeenProgress(d) |-> raw[i].progress], SeenProgress(d)),
                                   Cardinality(SeenProgress(d))))

LEMMA AvgIsCounted == Shape => AvgCounted
<1> SUFFICES ASSUME Shape, NEW d
             PROVE  AvgRows(d) = Single(Ratio(
                      SumOf([i \in SeenProgress(d) |-> raw[i].progress], SeenProgress(d)),
                      Cardinality(SeenProgress(d))))
  BY DEF AvgCounted
<1> DEFINE T == SeenProgress(d)
<1>1. T \in SUBSET (DOMAIN raw)
  BY DEF SeenProgress, Typed, On
<1>2. \A i \in T : raw[i].progress \in Nat
  <2>1. \A i \in DOMAIN raw : raw[i] \in scenario.events
    BY DEF Shape
  <2>2. \A e \in scenario.events : e.progress \in Int
    <3>1. scenario \in Scenarios
      BY DEF Shape
    <3> QED BY <3>1, MetricsAssumption, Zenon DEF MetricsAssumption
  <2> QED BY <1>1, <2>1, <2>2 DEF SeenProgress
<1>3. IsFiniteSet(T)
  BY <1>1, EventsAreFinite
<1>4. AvgRows(d) = Single(Ratio(MapThenSumSet(LAMBDA i : raw[i].progress, T), Cardinality(T)))
  BY DEF AvgRows, SeenProgress
<1> HIDE DEF T
<1>5. MapThenSumSet(LAMBDA i : raw[i].progress, T) = SumOf([i \in T |-> raw[i].progress], T)
  BY <1>2, <1>3, SumOfProgress
<1> QED BY <1>4, <1>5 DEF T

LEMMA AvgIsCountedNext == Shape' => AvgCounted'
BY AvgIsCounted, PTL

\* The SELECTs of the same events find the same rows.
LEMMA SelectedSame ==
  ASSUME Shape, Shape', raw' = raw
  PROVE  \A t, d : Selected(t, d)' = Selected(t, d)
<1> SUFFICES ASSUME NEW t, NEW d PROVE Selected(t, d)' = Selected(t, d)
  OBVIOUS
<1>1. On(d)' = On(d) /\ \A type : Typed(d, type)' = Typed(d, type)
  BY DEF On, Typed
<1>2. DauRows(d)' = DauRows(d)
  BY <1>1 DEF DauRows
<1>3. AvgRows(d)' = AvgRows(d)
  <2>1. AvgCounted /\ AvgCounted'
    BY AvgIsCounted, AvgIsCountedNext
  <2>2. {i \in Typed(d, "VIEW_FINISHED") : raw[i].progress >= 0}
          = {i \in Typed(d, "VIEW_FINISHED")' : raw'[i].progress >= 0}
    BY <1>1
  <2> QED BY <2>1, <2>2 DEF AvgCounted, SeenProgress
<1>4. TopRows(d)' = TopRows(d)
  <2>1. ASSUME NEW m
        PROVE  Views(d, m)' = Views(d, m)
    <3>1. {i \in Typed(d, "VIEW_FINISHED") : raw[i].movie = m}
            = {i \in Typed(d, "VIEW_FINISHED")' : raw'[i].movie = m}
      BY <1>1
    <3>2. Views(d, m) = Cardinality({i \in Typed(d, "VIEW_FINISHED") : raw[i].movie = m})
      BY DEF Views
    <3>3. Views(d, m)' = Cardinality({i \in Typed(d, "VIEW_FINISHED")' : raw'[i].movie = m})
      BY DEF Views
    <3> QED BY <3>1, <3>2, <3>3
  <2>2. ASSUME NEW m, NEW S
        PROVE  Rank(d, m, S)' = Rank(d, m, S)
    <3>1. {n \in S : Views(d, n) > Views(d, m) \/ (Views(d, n) = Views(d, m) /\ n < m)}
            = {n \in S : Views(d, n)' > Views(d, m)' \/ (Views(d, n)' = Views(d, m)' /\ n < m)}
      BY <2>1
    <3>2. Rank(d, m, S)' = 1 + Cardinality({n \in S : Views(d, n)' > Views(d, m)'
                                             \/ (Views(d, n)' = Views(d, m)' /\ n < m)})
      BY DEF Rank
    <3> QED BY <3>1, <3>2 DEF Rank
  <2>3. PICK S : S = {raw[i].movie : i \in On(d)}
    OBVIOUS
  <2>4. S = {raw'[i].movie : i \in On(d)'}
    BY <1>1, <2>3
  <2>5. TopRows(d) = {[key |-> <<Rank(d, m, S), m>>, value |-> Views(d, m)] :
                        m \in {n \in S : Rank(d, n, S) <= TopSize}}
    BY <2>3 DEF TopRows
  <2>6. TopRows(d)' = {[key |-> <<Rank(d, m, S)', m>>, value |-> Views(d, m)'] :
                         m \in {n \in S : Rank(d, n, S)' <= TopSize}}
    BY <2>4 DEF TopRows
  <2> QED BY <2>1, <2>2, <2>5, <2>6
<1>5. ConversionRows(d)' = ConversionRows(d)
  BY <1>1 DEF ConversionRows
<1>6. Cohort(d)' = Cohort(d) /\ \A u : Watched(u)' = Watched(u)
  BY DEF Cohort, Watched
<1>7. RetentionRows(d)' = RetentionRows(d)
  BY <1>6 DEF RetentionRows
<1>8. DeviceRows(d)' = DeviceRows(d)
  BY <1>1 DEF DeviceRows
<1>9. CohortRows(d)' = CohortRows(d)
  <2> DEFINE users(l) == {u \in Cohort(d) : \E w \in Watched(u) : toUInt8(w - d) = l}
             next(l) == {u \in Cohort(d)' : \E w \in Watched(u)' : toUInt8(w - d) = l}
             size == Cardinality(Cohort(d))
  <2>1. CohortRows(d) = {[key |-> l, value |-> [users |-> Cardinality(users(l)), size |-> size,
                                                rate |-> Ratio(Cardinality(users(l)), size)]] :
                           l \in {n \in 0 .. LateDay : users(n) # {}}}
    BY DEF CohortRows
  <2>2. CohortRows(d)' = {[key |-> l, value |-> [users |-> Cardinality(next(l)), size |-> Cardinality(Cohort(d)'),
                                                 rate |-> Ratio(Cardinality(next(l)), Cardinality(Cohort(d)'))]] :
                            l \in {n \in 0 .. LateDay : next(n) # {}}}
    BY DEF CohortRows
  <2>3. \A l : next(l) = users(l)
    BY <1>6
  <2>4. Cardinality(Cohort(d)') = size
    BY <1>6
  <2> HIDE DEF users, next, size
  <2> QED BY <2>1, <2>2, <2>3, <2>4
<1> QED BY <1>2, <1>3, <1>4, <1>5, <1>7, <1>8, <1>9 DEF Selected

\* A metric names the table it was read from.
LEMMA CellsAreNamed ==
  ASSUME NEW t \in Readable, NEW found, NEW c \in Cells(t, found)
  PROVE  c.name \in NamesOf(t)
<1>1. CASE t = "dau"
  BY <1>1 DEF Cells, Cell, NamesOf
<1>2. CASE t = "avg"
  BY <1>2 DEF Cells, Cell, NamesOf
<1>3. CASE t = "conversion"
  <2>1. NamesOf(t) = ConversionNames
    BY <1>3 DEF NamesOf
  <2> QED BY <1>3, <2>1 DEF Cells, Cell, ConversionNames
<1>4. CASE t = "retention"
  BY <1>4 DEF Cells, Cell, NamesOf
<1>5. CASE t = "top"
  BY <1>5 DEF Cells, Cell, NamesOf
<1>6. CASE t = "device"
  BY <1>6 DEF Cells, Cell, NamesOf
<1> QED BY <1>1, <1>2, <1>3, <1>4, <1>5, <1>6 DEF Readable, Table

LEMMA NamesDiffer ==
  ASSUME NEW t \in Readable, NEW u \in Readable, NEW name \in NamesOf(t), name \in NamesOf(u)
  PROVE  t = u
<1>1. /\ NamesOf("dau") = {"DAU"} /\ NamesOf("avg") = {"AVG_WATCH_SECONDS"}
      /\ NamesOf("conversion") = {"VIEW_STARTED", "VIEW_FINISHED", "CONVERSION_RATE"}
      /\ NamesOf("retention") = {"RETENTION_D1", "RETENTION_D7"}
      /\ NamesOf("top") = {"TOP_MOVIE_VIEWS"} /\ NamesOf("device") = {"DEVICE_EVENTS"}
  BY DEF NamesOf, ConversionNames
<1> QED BY <1>1 DEF Readable, Table

\* When a row was computed does not show in the metrics.
LEMMA CellsOfBlock ==
  ASSUME NEW t \in Readable, NEW d, NEW at
  PROVE  Cells(t, Block(t, d, at)) = Cells(t, Block(t, d, 0))
<1> DEFINE B(x) == Block(t, d, x)
<1>1. ASSUME NEW x, NEW y, NEW w \in B(x)
      PROVE  \E v \in B(y) : v.key = w.key /\ v.value = w.value /\ v.seen = w.seen
  <2>1. PICK s \in Selected(t, d) : w = [key |-> s.key, value |-> s.value, at |-> x, seen |-> Len(raw)]
    BY DEF Block
  <2> DEFINE v == [key |-> s.key, value |-> s.value, at |-> y, seen |-> Len(raw)]
  <2>2. v \in B(y)
    BY DEF Block
  <2>3. v.key = w.key /\ v.value = w.value /\ v.seen = w.seen
    BY <2>1
  <2> QED BY <2>2, <2>3
<1> HIDE DEF B
<1>2. ASSUME NEW x, NEW y, NEW c \in Cells(t, B(x))
      PROVE  c \in Cells(t, B(y))
  <2>1. CASE t = "dau"
    <3>1. PICK w \in B(x) : c = Cell("DAU", <<>>, Float(w.value), w)
      BY <1>2, <2>1 DEF Cells
    <3>2. PICK v \in B(y) : v.key = w.key /\ v.value = w.value /\ v.seen = w.seen
      BY <1>1
    <3>3. c = Cell("DAU", <<>>, Float(v.value), v)
      BY <3>1, <3>2 DEF Cell
    <3> QED BY <2>1, <3>3 DEF Cells
  <2>2. CASE t = "avg"
    <3>1. PICK w \in B(x) : c = Cell("AVG_WATCH_SECONDS", <<>>, w.value, w)
      BY <1>2, <2>2 DEF Cells
    <3>2. PICK v \in B(y) : v.key = w.key /\ v.value = w.value /\ v.seen = w.seen
      BY <1>1
    <3>3. c = Cell("AVG_WATCH_SECONDS", <<>>, v.value, v)
      BY <3>1, <3>2 DEF Cell
    <3> QED BY <2>2, <3>3 DEF Cells
  <2>3. CASE t = "conversion"
    <3>1. PICK w \in B(x) : \/ c = Cell("VIEW_STARTED", <<>>, Float(w.value.started), w)
                            \/ c = Cell("VIEW_FINISHED", <<>>, Float(w.value.finished), w)
                            \/ c = Cell("CONVERSION_RATE", <<>>, w.value.rate, w)
      BY <1>2, <2>3 DEF Cells
    <3>2. PICK v \in B(y) : v.key = w.key /\ v.value = w.value /\ v.seen = w.seen
      BY <1>1
    <3>3. \/ c = Cell("VIEW_STARTED", <<>>, Float(v.value.started), v)
          \/ c = Cell("VIEW_FINISHED", <<>>, Float(v.value.finished), v)
          \/ c = Cell("CONVERSION_RATE", <<>>, v.value.rate, v)
      BY <3>1, <3>2 DEF Cell
    <3> QED BY <2>3, <3>3 DEF Cells
  <2>4. CASE t = "retention"
    <3>1. PICK w \in B(x) : \/ c = Cell("RETENTION_D1", <<>>, w.value.d1, w)
                            \/ c = Cell("RETENTION_D7", <<>>, w.value.d7, w)
      BY <1>2, <2>4 DEF Cells
    <3>2. PICK v \in B(y) : v.key = w.key /\ v.value = w.value /\ v.seen = w.seen
      BY <1>1
    <3>3. \/ c = Cell("RETENTION_D1", <<>>, v.value.d1, v)
          \/ c = Cell("RETENTION_D7", <<>>, v.value.d7, v)
      BY <3>1, <3>2 DEF Cell
    <3> QED BY <2>4, <3>3 DEF Cells
  <2>5. CASE t = "top"
    <3>1. PICK w \in B(x) : /\ c = Cell("TOP_MOVIE_VIEWS", <<w.key[2]>>, Float(w.value), w)
                            /\ \A o \in B(x) : o.key[2] = w.key[2] => o.key[1] <= w.key[1]
      BY <1>2, <2>5 DEF Cells
    <3>2. PICK v \in B(y) : v.key = w.key /\ v.value = w.value /\ v.seen = w.seen
      BY <1>1
    <3>3. c = Cell("TOP_MOVIE_VIEWS", <<v.key[2]>>, Float(v.value), v)
      BY <3>1, <3>2 DEF Cell
    <3>4. ASSUME NEW o \in B(y), o.key[2] = v.key[2]
          PROVE  o.key[1] <= v.key[1]
      <4>1. PICK u \in B(x) : u.key = o.key
        BY <1>1
      <4> QED BY <3>1, <3>2, <3>4, <4>1
    <3> QED BY <2>5, <3>3, <3>4 DEF Cells
  <2>6. CASE t = "device"
    <3>1. PICK w \in B(x) : c = Cell("DEVICE_EVENTS", <<w.key>>, Float(w.value), w)
      BY <1>2, <2>6 DEF Cells
    <3>2. PICK v \in B(y) : v.key = w.key /\ v.value = w.value /\ v.seen = w.seen
      BY <1>1
    <3>3. c = Cell("DEVICE_EVENTS", <<v.key>>, Float(v.value), v)
      BY <3>1, <3>2 DEF Cell
    <3> QED BY <2>6, <3>3 DEF Cells
  <2> QED BY <2>1, <2>2, <2>3, <2>4, <2>5, <2>6 DEF Readable, Table
<1>3. Cells(t, B(at)) \subseteq Cells(t, B(0)) /\ Cells(t, B(0)) \subseteq Cells(t, B(at))
  BY <1>2
<1>4. Cells(t, B(at)) = Cells(t, B(0))
  BY <1>3
<1> QED BY <1>4 DEF B

\* What is true of a date has every key that lasts.
LEMMA LastingIsTrue ==
  ASSUME NEW c, NEW d, Lasting(c, d), c.name # "TOP_MOVIE_VIEWS"
  PROVE  \E n \in TruthOf(Sources, d) : SameKey(c, n)
<1>1. PICK t \in Sources : /\ c.name \in NamesOf(t)
                           /\ t \notin {"top", "device"} => c.dim = <<>>
                           /\ t = "device" => \E i \in On(d) : c.dim = <<raw[i].device>>
  BY DEF Lasting, Sources
<1>2. t \in Readable /\ t # "top"
  BY <1>1 DEF Sources, NamesOf
<1>3. ASSUME NEW s \in Selected(t, d)
      PROVE  \E w \in Block(t, d, 0) : w.key = s.key /\ w.value = s.value
  <2> DEFINE w == [key |-> s.key, value |-> s.value, at |-> 0, seen |-> Len(raw)]
  <2>1. w \in Block(t, d, 0) /\ w.key = s.key /\ w.value = s.value
    BY DEF Block
  <2> QED BY <2>1
<1>4. ASSUME NEW n \in Cells(t, Block(t, d, 0)), n.name = c.name, n.dim = c.dim
      PROVE  \E m \in TruthOf(Sources, d) : SameKey(c, m)
  <2>1. n \in TruthOf(Sources, d)
    BY DEF TruthOf
  <2> QED BY <1>4, <2>1 DEF SameKey
<1>5. ASSUME t \in {"dau", "avg", "conversion", "retention"}
      PROVE  Block(t, d, 0) # {}
  <2>1. Selected(t, d) # {}
    BY <1>5 DEF Selected, DauRows, AvgRows, ConversionRows, RetentionRows, Single
  <2> QED BY <1>3, <2>1
<1>6. CASE t = "dau"
  <2>1. PICK w : w \in Block(t, d, 0)
    BY <1>5, <1>6
  <2>2. Cell("DAU", <<>>, Float(w.value), w) \in Cells(t, Block(t, d, 0))
    BY <1>6, <2>1 DEF Cells
  <2> QED BY <1>1, <1>4, <1>6, <2>2 DEF NamesOf, Cell
<1>7. CASE t = "avg"
  <2>1. PICK w : w \in Block(t, d, 0)
    BY <1>5, <1>7
  <2>2. Cell("AVG_WATCH_SECONDS", <<>>, w.value, w) \in Cells(t, Block(t, d, 0))
    BY <1>7, <2>1 DEF Cells
  <2> QED BY <1>1, <1>4, <1>7, <2>2 DEF NamesOf, Cell
<1>8. CASE t = "conversion"
  <2>1. PICK w : w \in Block(t, d, 0)
    BY <1>5, <1>8
  <2>2. /\ Cell("VIEW_STARTED", <<>>, Float(w.value.started), w) \in Cells(t, Block(t, d, 0))
        /\ Cell("VIEW_FINISHED", <<>>, Float(w.value.finished), w) \in Cells(t, Block(t, d, 0))
        /\ Cell("CONVERSION_RATE", <<>>, w.value.rate, w) \in Cells(t, Block(t, d, 0))
    BY <1>8, <2>1 DEF Cells
  <2>3. c.name \in {"VIEW_STARTED", "VIEW_FINISHED", "CONVERSION_RATE"}
    BY <1>1, <1>8 DEF NamesOf, ConversionNames
  <2> QED BY <1>1, <1>4, <1>8, <2>2, <2>3 DEF Cell
<1>9. CASE t = "retention"
  <2>1. PICK w : w \in Block(t, d, 0)
    BY <1>5, <1>9
  <2>2. /\ Cell("RETENTION_D1", <<>>, w.value.d1, w) \in Cells(t, Block(t, d, 0))
        /\ Cell("RETENTION_D7", <<>>, w.value.d7, w) \in Cells(t, Block(t, d, 0))
    BY <1>9, <2>1 DEF Cells
  <2> QED BY <1>1, <1>4, <1>9, <2>2 DEF NamesOf, Cell
<1>10. CASE t = "device"
  <2>1. PICK i \in On(d) : c.dim = <<raw[i].device>>
    BY <1>1, <1>10
  <2>2. PICK s \in Selected(t, d) : s.key = raw[i].device
    <3> DEFINE s == [key |-> raw[i].device, value |-> Cardinality({j \in On(d) : raw[j].device = raw[i].device})]
    <3>1. s \in DeviceRows(d)
      BY DEF DeviceRows
    <3>2. Selected(t, d) = DeviceRows(d)
      BY <1>10 DEF Selected
    <3> QED BY <3>1, <3>2
  <2>3. PICK w \in Block(t, d, 0) : w.key = raw[i].device
    BY <1>3, <2>2
  <2>4. Cell("DEVICE_EVENTS", <<w.key>>, Float(w.value), w) \in Cells(t, Block(t, d, 0))
    BY <1>10, <2>3 DEF Cells
  <2> QED BY <1>1, <1>4, <1>10, <2>1, <2>3, <2>4 DEF NamesOf, Cell
<1> QED BY <1>2, <1>6, <1>7, <1>8, <1>9, <1>10 DEF Readable, Table

\* The metrics of one more table.
LEMMA OneMoreTable ==
  ASSUME NEW tables \in SUBSET Readable, NEW t \in Readable, t \notin tables, NEW d, NEW at
  PROVE  Upserted(TruthOf(tables, d), Cells(t, Block(t, d, at))) = TruthOf(tables \union {t}, d)
<1> DEFINE old == TruthOf(tables, d)
           new == Cells(t, Block(t, d, 0))
<1>1. Cells(t, Block(t, d, at)) = new
  BY CellsOfBlock
<1>2. ASSUME NEW o \in old, NEW n \in new
      PROVE  ~SameKey(o, n)
  <2>1. PICK u \in tables : o \in Cells(u, Block(u, d, 0))
    BY DEF TruthOf
  <2>2. u \in Readable /\ u # t /\ o.name \in NamesOf(u)
    BY <2>1, CellsAreNamed
  <2>3. n.name \in NamesOf(t)
    BY CellsAreNamed
  <2> QED BY <2>2, <2>3, NamesDiffer DEF SameKey
<1>3. TruthOf(tables \union {t}, d) = old \union new
  BY DEF TruthOf
<1> HIDE DEF old, new
<1>4. Upserted(old, new) = old \union new
  BY <1>2 DEF Upserted
<1> QED BY <1>1, <1>3, <1>4 DEF old

LEMMA BlockSame ==
  ASSUME Shape, Shape', raw' = raw
  PROVE  /\ \A t, d, at : Block(t, d, at)' = Block(t, d, at)
         /\ \A tables, d : TruthOf(tables, d)' = TruthOf(tables, d)
<1>1. \A t, d, at : Block(t, d, at)' = Block(t, d, at)
  BY SelectedSame DEF Block
<1>2. \A t, d : Cells(t, Block(t, d, 0))' = Cells(t, Block(t, d, 0))
  <2> SUFFICES ASSUME NEW t, NEW d
               PROVE  Cells(t, Block(t, d, 0))' = Cells(t, Block(t, d, 0))
    OBVIOUS
  <2>1. PICK found : found = Block(t, d, 0)
    OBVIOUS
  <2>2. found = Block(t, d, 0)'
    BY <1>1, <2>1
  <2> QED BY <2>1, <2>2
<1>3. \A tables, d : TruthOf(tables, d)' = TruthOf(tables, d)
  BY <1>2 DEF TruthOf
<1> QED BY <1>1, <1>3

LEMMA TruthOfNone == \A d : TruthOf({}, d) = {}
BY DEF TruthOf

\* What a run alone has written and read is still right after a step that
\* leaves the run, its date and the events as they are.
LEMMA WrittenStays ==
  ASSUME IInv, Shape', UNCHANGED <<scenario, raw>>, NEW o \in Run, LoneRows(o), LonePayload(o),
         /\ phase'[o] = phase[o] /\ todo'[o] = todo[o] /\ target'[o] = target[o]
         /\ payload'[o] = payload[o] /\ computedAt'[o] = computedAt[o],
         \A t \in scenario.tables : rows'[t][target[o]] = rows[t][target[o]]
  PROVE  LoneRows(o)' /\ LonePayload(o)'
<1>1. Shape
  BY DEF IInv
<1>2. Rewritten(o)' = Rewritten(o) /\ Rewritten(o) \subseteq scenario.tables
  BY DEF Rewritten, Rewriting
<1>3. Current(o)' = Current(o) /\ (phase[o] = "insert" => Current(o) \in scenario.tables)
  BY TableToWrite DEF Current, Rewriting
<1>4. \A t, d, at : Block(t, d, at)' = Block(t, d, at)
  BY <1>1, BlockSame
<1>5. LoneRows(o)'
  <2>1. ASSUME NEW t \in Rewritten(o)'
        PROVE  rows'[t][target'[o]] = Block(t, target[o], computedAt[o])'
    <3>1. t \in Rewritten(o) /\ t \in scenario.tables
      BY <1>2
    <3>2. rows'[t][target'[o]] = Block(t, target[o], computedAt[o])
      BY <3>1 DEF LoneRows
    <3>3. PICK d, at : d = target[o] /\ at = computedAt[o]
      OBVIOUS
    <3>4. d = target'[o] /\ at = computedAt'[o] /\ Block(t, d, at)' = Block(t, d, at)
      BY <1>4, <3>3
    <3>5. rows'[t][target'[o]] = Block(t, d, at)
      BY <3>2, <3>3
    <3> QED BY <3>4, <3>5
  <2>2. phase'[o] = "insert" => rows'[Current(o)'][target'[o]] = {}
    BY <1>3 DEF LoneRows
  <2> QED BY <2>1, <2>2 DEF LoneRows
<1>6. LonePayload(o)'
  <2>1. PICK T, d : T = Sources \ todo[o] /\ d = target[o]
    OBVIOUS
  <2>2. T = (Sources \ todo[o])' /\ d = target'[o]
    BY <2>1 DEF Sources
  <2>3. TruthOf(T, d)' = TruthOf(T, d)
    BY <1>1, BlockSame
  <2>4. phase'[o] \in {"read", "upsert"} => payload'[o] = TruthOf(T, d)
    BY <2>1 DEF LonePayload
  <2> QED BY <2>2, <2>3, <2>4 DEF LonePayload
<1> QED BY <1>5, <1>6

\* A step of one run does not disturb another that is alone: it writes the rows
\* of another date.
LEMMA OthersStayLone ==
  ASSUME IInv, Shape', LoneInv, NEW r \in Run, phase[r] # "idle",
         phase'[r] = "idle" \/ target'[r] = target[r], OnlyRun(r),
         \A o \in Run \ {r} : alone'[o] = alone[o] /\ computedAt'[o] = computedAt[o],
         UNCHANGED <<scenario, raw>>,
         \A t \in scenario.tables, d \in Date \ {target[r]} : rows'[t][d] = rows[t][d],
         NEW o \in Run \ {r}
  PROVE  RunLone(o)'
<1>1. /\ phase'[o] = phase[o] /\ todo'[o] = todo[o] /\ target'[o] = target[o]
      /\ started'[o] = started[o] /\ payload'[o] = payload[o]
      /\ alone'[o] = alone[o] /\ computedAt'[o] = computedAt[o]
  BY DEF OnlyRun
<1>2. RunLone(o) /\ Shape /\ target[o] \in Date
  BY DEF LoneInv, IInv, Shape
<1>3. alone[o] /\ phase[o] # "idle" => Beside(o, target[o])' = {} /\ target[r] # target[o]
  <2> SUFFICES ASSUME alone[o], phase[o] # "idle"
               PROVE  Beside(o, target[o])' = {} /\ target[r] # target[o]
    OBVIOUS
  <2>1. Beside(o, target[o]) = {}
    BY <1>2 DEF RunLone
  <2>2. target[r] # target[o]
    BY <2>1 DEF Beside
  <2>3. ASSUME NEW x \in Run \ {o}, phase'[x] # "idle", target'[x] = target'[o]
        PROVE  FALSE
    <3>1. CASE x = r
      BY <1>1, <2>2, <2>3, <3>1
    <3>2. CASE x # r
      <4>1. phase'[x] = phase[x] /\ target'[x] = target[x]
        BY <3>2 DEF OnlyRun
      <4> QED BY <1>1, <2>1, <2>3, <4>1 DEF Beside
    <3> QED BY <3>1, <3>2
  <2> QED BY <2>2, <2>3 DEF Beside
<1>4. ASSUME alone[o], phase[o] # "idle", started[o] = Len(raw)
      PROVE  LoneRows(o)' /\ LonePayload(o)'
  <2>1. LoneRows(o) /\ LonePayload(o) /\ target[r] # target[o]
    BY <1>2, <1>3, <1>4 DEF RunLone
  <2>2. \A t \in scenario.tables : rows'[t][target[o]] = rows[t][target[o]]
    BY <1>2, <2>1
  <2> QED BY <1>1, <2>1, <2>2, WrittenStays
<1> QED BY <1>1, <1>2, <1>3, <1>4 DEF RunLone

\* A step of a run that goes on.
LEMMA LoneGoesOn ==
  ASSUME IInv, Shape', FitInv, LoneInv, NEW r \in Run, phase[r] # "idle", NEW next, NEW tables,
         Continue(r, next, tables), UNCHANGED <<scenario, raw>>, failures' \in Nat, OnlyRun(r),
         \A t \in scenario.tables, d \in Date \ {target[r]} : rows'[t][d] = rows[t][d],
         next \in {"delete", "insert"} => payload'[r] = {}, next = "upsert" => tables = {},
         alone[r] /\ started[r] = Len(raw) => LoneRows(r)' /\ LonePayload(r)'
  PROVE  LoneInv'
<1>1. UNCHANGED <<target, computedAt, started, alone>> /\ phase'[r] = next /\ todo'[r] = tables
  BY DEF Continue, IInv, Shape
<1>2. \A o \in Run \ {r} : RunLone(o)'
  BY <1>1, OthersStayLone
<1>3. alone[r] => Beside(r, target[r])' = {}
  <2>1. alone[r] => Beside(r, target[r]) = {}
    BY DEF LoneInv, RunLone
  <2>2. \A o \in Run \ {r} : phase'[o] = phase[o] /\ target'[o] = target[o]
    BY DEF OnlyRun
  <2> QED BY <1>1, <2>1, <2>2 DEF Beside
<1>4. RunLone(r)'
  BY <1>1, <1>3 DEF RunLone
<1> QED BY <1>2, <1>4 DEF LoneInv

\* A run that ends.
LEMMA LoneEnds ==
  ASSUME IInv, Shape', FitInv, LoneInv, NEW r \in Run, phase[r] # "idle", End(r),
         UNCHANGED <<scenario, raw>>, failures' \in Nat,
         \A t \in scenario.tables, d \in Date \ {target[r]} : rows'[t][d] = rows[t][d]
  PROVE  LoneInv'
<1>1. OnlyRun(r) /\ phase'[r] = "idle" /\ payload'[r] = {}
  BY DEF End, OnlyRun, IInv, Shape
<1>2. \A o \in Run \ {r} : alone'[o] = alone[o] /\ computedAt'[o] = computedAt[o]
  BY DEF End, FitInv, Counters
<1>3. \A o \in Run \ {r} : RunLone(o)'
  BY <1>1, <1>2, OthersStayLone
<1>4. RunLone(r)'
  BY <1>1 DEF RunLone
<1> QED BY <1>3, <1>4 DEF LoneInv

\* The statements of a run write the rows of its date.
LEMMA ElsewhereSame ==
  ASSUME IInv, NEW r \in Run, Rewriting(r), NEW new, Change(r, new) \/ UNCHANGED rows,
         \A w \in new : w \in rows[Current(r)][target[r]] \/ w.seen = Len(raw)
  PROVE  \A t \in scenario.tables, d \in Date \ {target[r]} : rows'[t][d] = rows[t][d]
<1>1. CASE Change(r, new)
  BY <1>1, ChangeIsRecent
<1> QED BY <1>1

LEMMA FailuresCounted ==
  ASSUME LoneInv, UNCHANGED failures \/ Fail
  PROVE  failures' \in Nat
BY DEF LoneInv, Fail

LEMMA DeleteRowsLone ==
  ASSUME IInv, IInv', FitInv, LoneInv, NEW r \in Run, DeleteRows(r)
  PROVE  LoneInv'
<1>1. phase[r] = "delete" /\ Rewriting(r) /\ UNCHANGED <<scenario, raw>> /\ Shape /\ Shape'
  BY DEF DeleteRows, Rewriting, environment, IInv
<1>2. failures' \in Nat
  BY FailuresCounted DEF DeleteRows
<1>3. \A t \in scenario.tables, d \in Date \ {target[r]} : rows'[t][d] = rows[t][d]
  BY <1>1, ElsewhereSame DEF DeleteRows
<1>4. CASE End(r)
  BY <1>1, <1>2, <1>3, <1>4, LoneEnds
<1>5. CASE Change(r, {}) /\ Continue(r, "insert", todo[r]) /\ UNCHANGED payload
  <2>1. /\ phase'[r] = "insert" /\ todo'[r] = todo[r] /\ OnlyRun(r)
        /\ UNCHANGED <<target, computedAt, started, alone>>
    BY <1>5 DEF Continue, OnlyRun, IInv, Shape
  <2>2. /\ rows'[Current(r)][target[r]] = {}
        /\ \A t \in scenario.tables \ {Current(r)} : rows'[t] = rows[t]
    BY <1>1, <1>5, ChangeIsRecent
  <2>3. ASSUME alone[r], started[r] = Len(raw)
        PROVE  LoneRows(r)'
    <3>1. LoneRows(r)
      BY <1>1, <2>3 DEF LoneInv, RunLone
    <3>2. Current(r) \in todo[r]
      BY <1>1, TableToWrite
    <3>3. \A t \in Rewritten(r)' : t \in Rewritten(r) /\ t \in scenario.tables \ {Current(r)}
      BY <1>1, <2>1, <3>2 DEF Rewritten, Rewriting
    <3>4. \A t \in Rewritten(r)' : rows'[t][target[r]] = Block(t, target[r], computedAt[r])
      BY <2>2, <3>1, <3>3 DEF LoneRows
    <3>5. PICK d, at : d = target[r] /\ at = computedAt[r]
      OBVIOUS
    <3>6. \A t : Block(t, d, at)' = Block(t, d, at)
      BY <1>1, BlockSame
    <3>7. \A t \in Rewritten(r)' : rows'[t][d] = Block(t, d, at)'
      BY <3>4, <3>5, <3>6
    <3>8. d = target'[r] /\ at = computedAt'[r] /\ Current(r)' = Current(r)
      BY <2>1, <3>5 DEF Current
    <3> QED BY <2>2, <3>5, <3>7, <3>8 DEF LoneRows
  <2>4. LonePayload(r)'
    BY <2>1 DEF LonePayload
  <2>5. payload'[r] = {}
    BY <1>1, <1>5 DEF LoneInv, RunLone
  <2> QED BY <1>1, <1>2, <1>3, <1>5, <2>1, <2>3, <2>4, <2>5, LoneGoesOn
<1> QED BY <1>4, <1>5 DEF DeleteRows

LEMMA MergedWithNothing == \A new : Merged({}, new) = new
BY DEF Merged

LEMMA InsertRowsLone ==
  ASSUME IInv, IInv', FitInv, LoneInv, NEW r \in Run, InsertRows(r)
  PROVE  LoneInv'
<1> DEFINE T == Current(r)
           new == Merged(rows[T][target[r]], Block(T, target[r], computedAt[r]))
           left == todo[r] \ {T}
           readable == scenario.tables \intersect Readable
<1>1. phase[r] = "insert" /\ Rewriting(r) /\ UNCHANGED <<scenario, raw>> /\ Shape /\ Shape'
  BY DEF InsertRows, Rewriting, environment, IInv
<1>2. failures' \in Nat
  BY FailuresCounted DEF InsertRows
<1>3. Change(r, new) \/ UNCHANGED rows
  BY DEF InsertRows
<1>4. \A w \in new : w \in rows[Current(r)][target[r]] \/ w.seen = Len(raw)
  BY MergedIsRecent
<1>5. \/ End(r)
      \/ Change(r, new) /\ UNCHANGED payload /\ left # {} /\ Continue(r, "delete", left)
      \/ Change(r, new) /\ UNCHANGED payload /\ left = {}
           /\ Continue(r, IF readable = {} THEN "upsert" ELSE "read", readable)
  BY DEF InsertRows
<1>6. alone[r] /\ started[r] = Len(raw) => new = Block(T, target[r], computedAt[r])
  <2> SUFFICES ASSUME alone[r], started[r] = Len(raw)
               PROVE  new = Block(T, target[r], computedAt[r])
    OBVIOUS
  <2>1. LoneRows(r)
    BY <1>1 DEF LoneInv, RunLone
  <2>2. rows[T][target[r]] = {}
    BY <1>1, <2>1 DEF LoneRows
  <2> QED BY <2>2, MergedWithNothing
<1> HIDE DEF new
<1>7. \A t \in scenario.tables, d \in Date \ {target[r]} : rows'[t][d] = rows[t][d]
  BY <1>1, <1>3, <1>4, ElsewhereSame
<1>8. CASE End(r)
  BY <1>1, <1>2, <1>7, <1>8, LoneEnds
<1>9. ASSUME NEW next \in {"delete", "read", "upsert"}, NEW tables,
             Change(r, new), UNCHANGED payload, Continue(r, next, tables),
             next = "delete" => tables = left,
             next # "delete" => left = {} /\ tables = readable,
             next = "upsert" => tables = {}
      PROVE  LoneInv'
  <2>1. /\ phase'[r] = next /\ todo'[r] = tables /\ OnlyRun(r)
        /\ UNCHANGED <<target, computedAt, started, alone>>
    BY <1>9 DEF Continue, OnlyRun, IInv, Shape
  <2>2. rows'[T][target[r]] = new /\ \A t \in scenario.tables \ {T} : rows'[t] = rows[t]
    BY <1>1, <1>4, <1>9, ChangeIsRecent
  <2>3. payload[r] = {}
    BY <1>1 DEF LoneInv, RunLone
  <2>4. ASSUME alone[r], started[r] = Len(raw)
        PROVE  LoneRows(r)'
    <3>1. LoneRows(r)
      BY <1>1, <2>4 DEF LoneInv, RunLone
    <3>2. \A t \in Rewritten(r)' : t = T \/ (t \in Rewritten(r) /\ t \in scenario.tables \ {T})
      BY <1>1, <1>9, <2>1 DEF Rewritten, Rewriting
    <3>3. \A t \in Rewritten(r)' : rows'[t][target[r]] = Block(t, target[r], computedAt[r])
      BY <1>6, <2>2, <2>4, <3>1, <3>2 DEF LoneRows
    <3>4. PICK d, at : d = target[r] /\ at = computedAt[r]
      OBVIOUS
    <3>5. \A t : Block(t, d, at)' = Block(t, d, at)
      BY <1>1, BlockSame
    <3>6. \A t \in Rewritten(r)' : rows'[t][d] = Block(t, d, at)'
      BY <3>3, <3>4, <3>5
    <3>7. d = target'[r] /\ at = computedAt'[r] /\ phase'[r] # "insert"
      BY <2>1, <3>4
    <3> QED BY <3>6, <3>7 DEF LoneRows
  <2>5. LonePayload(r)'
    <3>1. CASE next = "delete"
      BY <2>1, <3>1 DEF LonePayload
    <3>2. CASE next # "delete"
      <4>1. (Sources \ todo[r])' = {}
        BY <1>1, <1>9, <2>1, <3>2 DEF Sources
      <4>2. \A d : TruthOf({}, d)' = {}
        BY DEF TruthOf
      <4> QED BY <1>9, <2>3, <4>1, <4>2 DEF LonePayload
    <3> QED BY <3>1, <3>2
  <2> QED BY <1>1, <1>2, <1>7, <1>9, <2>1, <2>3, <2>4, <2>5, LoneGoesOn
<1> HIDE DEF left, readable
<1>10. CASE Change(r, new) /\ UNCHANGED payload /\ left # {} /\ Continue(r, "delete", left)
  BY <1>9, <1>10
<1>11. CASE /\ Change(r, new) /\ UNCHANGED payload /\ left = {}
            /\ Continue(r, IF readable = {} THEN "upsert" ELSE "read", readable)
  <2>1. CASE readable = {}
    BY <1>9, <1>11, <2>1
  <2>2. CASE readable # {}
    BY <1>9, <1>11, <2>2
  <2> QED BY <2>1, <2>2
<1> QED BY <1>5, <1>8, <1>10, <1>11

LEMMA NothingOfLone ==
  ASSUME IInv, Shape', LoneInv, failures' \in Nat,
         UNCHANGED <<scenario, raw, rows, phase, todo, target, computedAt, payload, started, alone>>
  PROVE  LoneInv'
<1> SUFFICES ASSUME NEW o \in Run PROVE RunLone(o)'
  BY DEF LoneInv
<1>1. RunLone(o)
  BY DEF LoneInv
<1>2. alone[o] /\ phase[o] # "idle" => Beside(o, target[o])' = {}
  BY <1>1 DEF RunLone, Beside
<1>3. LoneRows(o) /\ LonePayload(o) => LoneRows(o)' /\ LonePayload(o)'
  BY WrittenStays
<1> QED BY <1>1, <1>2, <1>3 DEF RunLone

LEMMA ReadTableLone ==
  ASSUME IInv, IInv', FitInv, LoneInv, NEW r \in Run, ReadTable(r)
  PROVE  LoneInv'
<1> DEFINE T == First(ReadRank, todo[r])
           left == todo[r] \ {T}
           found == rows[T][target[r]]
<1>1. phase[r] = "read" /\ UNCHANGED <<scenario, raw, rows>> /\ Shape /\ Shape'
  BY DEF ReadTable, environment, IInv
<1>2. failures' \in Nat
  BY FailuresCounted DEF ReadTable
<1>3. CASE End(r)
  BY <1>1, <1>2, <1>3, LoneEnds
<1>4. ASSUME payload' = [payload EXCEPT ![r] = Upserted(@, Cells(T, found))],
             NEW next \in {"upsert", "read"}, next = "upsert" => left = {}, Continue(r, next, left)
      PROVE  LoneInv'
  <2>1. /\ phase'[r] = next /\ todo'[r] = left
        /\ UNCHANGED <<target, computedAt, started, alone>>
    BY <1>4 DEF Continue, IInv, Shape
  <2>2. payload'[r] = Upserted(payload[r], Cells(T, found)) /\ \A o \in Run \ {r} : payload'[o] = payload[o]
    BY <1>4 DEF IInv, Shape
  <2>3. OnlyRun(r)
    BY <1>4, <2>2 DEF Continue, OnlyRun, IInv, Shape
  <2>4. T \in todo[r] /\ todo[r] \subseteq Sources /\ Sources \subseteq Readable /\ T \in scenario.tables
    <3>1. todo[r] \in SUBSET Readable /\ todo[r] # {} /\ todo[r] \subseteq scenario.tables
      BY <1>1 DEF IInv, Shape
    <3> QED BY <3>1, FirstOfReadable DEF Sources
  <2>5. ASSUME alone[r], started[r] = Len(raw)
        PROVE  LoneRows(r)' /\ LonePayload(r)'
    <3>1. LoneRows(r) /\ LonePayload(r)
      BY <1>1, <2>5 DEF LoneInv, RunLone
    <3>2. PICK d, at : d = target[r] /\ at = computedAt[r]
      OBVIOUS
    <3>3. d = target'[r] /\ at = computedAt'[r]
      BY <2>1, <3>2
    <3>4. LoneRows(r)'
      <4>1. Rewritten(r)' \subseteq Rewritten(r)
        BY <1>1, <2>1 DEF Rewritten, Rewriting
      <4>2. \A t \in Rewritten(r)' : rows'[t][d] = Block(t, d, at)
        BY <1>1, <3>1, <3>2, <4>1 DEF LoneRows
      <4>3. \A t : Block(t, d, at)' = Block(t, d, at)
        BY <1>1, BlockSame
      <4>4. \A t \in Rewritten(r)' : rows'[t][d] = Block(t, d, at)'
        BY <4>2, <4>3
      <4>5. phase'[r] # "insert"
        BY <2>1
      <4> QED BY <3>3, <4>4, <4>5 DEF LoneRows
    <3>5. found = Block(T, d, at)
      BY <1>1, <2>4, <3>1, <3>2 DEF LoneRows, Rewritten
    <3>6. payload[r] = TruthOf(Sources \ todo[r], d)
      BY <1>1, <3>1, <3>2 DEF LonePayload
    <3> DEFINE tables == Sources \ todo[r]
    <3>7. tables \in SUBSET Readable /\ T \in Readable /\ T \notin tables
      BY <2>4
    <3>8. Sources \ left = tables \union {T}
      BY <2>4
    <3>9. payload'[r] = TruthOf(Sources \ left, d)
      <4> HIDE DEF tables, T, left
      <4> QED BY <2>2, <3>5, <3>6, <3>7, <3>8, OneMoreTable DEF tables
    <3>10. PICK S : S = Sources \ left
      OBVIOUS
    <3>11. S = (Sources \ todo[r])'
      BY <1>1, <2>1, <3>10 DEF Sources
    <3>12. TruthOf(S, d)' = TruthOf(S, d)
      BY <1>1, BlockSame
    <3> QED BY <3>3, <3>4, <3>9, <3>10, <3>11, <3>12 DEF LonePayload
  <2>6. next \notin {"delete", "insert"}
    OBVIOUS
  <2> HIDE DEF left, found
  <2> QED BY <1>1, <1>2, <1>4, <2>3, <2>5, <2>6, LoneGoesOn
<1>5. CASE /\ payload' = [payload EXCEPT ![r] = Upserted(@, Cells(T, found))]
           /\ Continue(r, IF left = {} THEN "upsert" ELSE "read", left)
  <2> HIDE DEF found, left
  <2>1. CASE left = {}
    BY <1>4, <1>5, <2>1
  <2>2. CASE left # {}
    BY <1>4, <1>5, <2>2
  <2> QED BY <2>1, <2>2
<1> QED BY <1>3, <1>5 DEF ReadTable

LEMMA UpsertLone ==
  ASSUME IInv, IInv', FitInv, LoneInv, NEW r \in Run, Upsert(r)
  PROVE  LoneInv'
<1>1. phase[r] = "upsert" /\ UNCHANGED <<scenario, raw, rows>> /\ Shape'
  BY DEF Upsert, environment, IInv
<1>2. failures' \in Nat
  BY FailuresCounted DEF Upsert, RetryOrFail
<1>3. CASE End(r)
  BY <1>1, <1>2, <1>3, LoneEnds
<1>4. CASE UNCHANGED <<phase, todo, target, computedAt, payload, started, alone>>
  BY <1>1, <1>2, <1>4, NothingOfLone
<1> QED BY <1>3, <1>4 DEF Upsert, RetryOrFail

LEMMA BeginLone ==
  ASSUME IInv, IInv', FitInv, LoneInv, NEW r \in Run, NEW d \in Date, Begin(r, d)
  PROVE  LoneInv'
<1>1. UNCHANGED <<scenario, raw, rows, failures>> /\ OnlyRun(r) /\ Shape /\ Shape' /\ phase[r] = "idle"
  BY DEF Begin, environment, OnlyRun, IInv, Shape
<1>2. /\ phase'[r] = "delete" /\ todo'[r] = scenario.tables /\ target'[r] = d /\ payload'[r] = {}
      /\ alone'[r] = (Beside(r, d) = {})
  BY DEF Begin, IInv, Shape
<1>3. \A o \in Run \ {r} : /\ computedAt'[o] = computedAt[o]
                           /\ alone'[o] = (alone[o] /\ o \notin Beside(r, d))
  BY DEF Begin, FitInv, Counters
<1>4. RunLone(r)'
  <2>1. ASSUME alone'[r]
        PROVE  Beside(r, target[r])' = {}
    <3>1. Beside(r, d) = {}
      BY <1>2, <2>1
    <3>2. \A o \in Run \ {r} : phase'[o] = phase[o] /\ target'[o] = target[o]
      BY <1>1 DEF OnlyRun
    <3> QED BY <1>2, <3>1, <3>2 DEF Beside
  <2>2. LoneRows(r)'
    BY <1>1, <1>2 DEF LoneRows, Rewritten, Rewriting
  <2>3. LonePayload(r)'
    BY <1>2 DEF LonePayload
  <2> QED BY <1>2, <2>1, <2>2, <2>3 DEF RunLone
<1>5. ASSUME NEW o \in Run \ {r}
      PROVE  RunLone(o)'
  <2>1. /\ phase'[o] = phase[o] /\ todo'[o] = todo[o] /\ target'[o] = target[o]
        /\ started'[o] = started[o] /\ payload'[o] = payload[o] /\ computedAt'[o] = computedAt[o]
    BY <1>1, <1>3 DEF OnlyRun
  <2>2. RunLone(o)
    BY DEF LoneInv
  <2>3. alone'[o] => alone[o] /\ o \notin Beside(r, d)
    BY <1>3
  <2>4. alone'[o] /\ phase[o] # "idle" => Beside(o, target[o])' = {}
    <3> SUFFICES ASSUME alone'[o], phase[o] # "idle", NEW x \in Run \ {o},
                        phase'[x] # "idle", target'[x] = target'[o]
                 PROVE  FALSE
      BY DEF Beside
    <3>1. Beside(o, target[o]) = {} /\ target[o] # d
      BY <2>2, <2>3 DEF RunLone, Beside
    <3>2. CASE x = r
      BY <1>2, <2>1, <3>1, <3>2
    <3>3. CASE x # r
      <4>1. phase'[x] = phase[x] /\ target'[x] = target[x]
        BY <1>1, <3>3 DEF OnlyRun
      <4> QED BY <2>1, <3>1, <4>1 DEF Beside
    <3> QED BY <3>2, <3>3
  <2>5. LoneRows(o) /\ LonePayload(o) => LoneRows(o)' /\ LonePayload(o)'
    BY <1>1, <2>1, WrittenStays
  <2> QED BY <1>1, <2>1, <2>2, <2>3, <2>4, <2>5 DEF RunLone
<1> QED BY <1>1, <1>4, <1>5 DEF LoneInv

\* An event that arrives is one that no run has seen from its start.
LEMMA ArriveLone ==
  ASSUME IInv, FitInv, LoneInv, NEW event \in scenario.events, Arrive(event)
  PROVE  LoneInv'
<1>1. UNCHANGED <<phase, todo, target, payload, started, alone, failures>>
  BY DEF Arrive, runVars, bounds
<1>2. Len(raw') = Len(raw) + 1 /\ Len(raw) \in Nat
  BY DEF Arrive, IInv, Shape
<1> SUFFICES ASSUME NEW o \in Run PROVE RunLone(o)'
  BY <1>1 DEF LoneInv
<1>3. RunLone(o)
  BY DEF LoneInv
<1>4. started'[o] # Len(raw')
  BY <1>1, <1>2 DEF IInv, Shape
<1>5. alone[o] /\ phase[o] # "idle" => Beside(o, target[o])' = {}
  BY <1>1, <1>3 DEF RunLone, Beside
<1> QED BY <1>1, <1>3, <1>4, <1>5 DEF RunLone

LEMMA RestartLone ==
  ASSUME LoneInv, Restart
  PROVE  LoneInv'
<1>1. /\ failures' \in Nat
  BY FailuresCounted DEF Restart
<1>2. \A o \in Run : phase'[o] = "idle"
  BY DEF Restart, Each
<1> QED BY <1>1, <1>2 DEF LoneInv, RunLone

LEMMA LoneStep ==
  ASSUME IInv, IInv', FitInv, LoneInv, [Next]_vars
  PROVE  LoneInv'
<1>1. CASE BeginScheduled
  BY <1>1, BeginLone DEF BeginScheduled, Run
<1>2. CASE \E r \in Post, d \in Date : BeginPosted(r, d)
  BY <1>2, BeginLone DEF BeginPosted, Run
<1>3. CASE \E r \in Run : StepRun(r)
  BY <1>3, DeleteRowsLone, InsertRowsLone, ReadTableLone, UpsertLone DEF StepRun
<1>4. CASE \E event \in scenario.events : Arrive(event)
  BY <1>4, ArriveLone
<1>5. ASSUME UNCHANGED <<scenario, raw, rows, runVars>>, UNCHANGED failures \/ Fail
      PROVE  LoneInv'
  <2>1. UNCHANGED <<phase, todo, target, computedAt, payload, started, alone>>
    BY <1>5 DEF runVars
  <2>2. Shape' /\ failures' \in Nat
    BY <1>5, FailuresCounted DEF IInv
  <2> QED BY <1>5, <2>1, <2>2, NothingOfLone
<1>6. CASE BeginScheduledExport \/ \E e \in PostExport, d \in Date : BeginPostedExport(e, d)
  BY <1>5, <1>6 DEF BeginScheduledExport, BeginPostedExport, BeginExport, environment
<1>7. CASE \E e \in Exporter : StepExport(e)
  BY <1>5, <1>7 DEF StepExport, Fetch, Put, RetryExportOrFail, environment
<1>8. CASE Midnight \/ Tick \/ UNCHANGED vars
  BY <1>5, <1>8 DEF Midnight, Tick, vars, bounds, environment
<1> QED BY <1>1, <1>2, <1>3, <1>4, <1>6, <1>7, <1>8, RestartLone DEF Next

LEMMA InitiallyLone ==
  ASSUME Init
  PROVE  LoneInv
<1>1. failures \in Nat /\ \A o \in Run : phase[o] = "idle"
  BY DEF Init, Each
<1> QED BY <1>1 DEF LoneInv, RunLone

\* The step that ends a run well stores what it has read.
LEMMA LoneEndIsExact ==
  ASSUME IInv, FitInv, WholeInv, LoneInv, [Next]_vars, NEW r \in Run, Ends(r), alone[r], started[r] = Len(raw)
  PROVE  LET d == target[r]
             truth == UNION {Cells(t, Block(t, d, 0)) : t \in scenario.tables \intersect Readable}
         IN /\ truth \subseteq metrics'[d]
            /\ \A c \in metrics'[d] \ truth : c.name = "TOP_MOVIE_VIEWS"
<1>1. phase[r] = "upsert" /\ phase'[r] = "idle" /\ failures' = failures /\ ~Fail
  BY DEF Ends, Fail, LoneInv
<1>2. Upsert(r) /\ End(r)
  <2>1. ASSUME NEW o \in Run, StepRun(o)
        PROVE  Upsert(r) /\ End(r)
    <3>1. o = r
      <4>1. ASSUME o # r
            PROVE  phase'[r] = phase[r]
        BY <2>1, <4>1 DEF StepRun, DeleteRows, InsertRows, ReadTable, Upsert, RetryOrFail,
          Continue, End, IInv, Shape
      <4> QED BY <1>1, <4>1
    <3>2. Upsert(r)
      BY <1>1, <2>1, <3>1 DEF StepRun, DeleteRows, InsertRows, ReadTable
    <3> QED BY <1>1, <3>2 DEF Upsert, RetryOrFail
  <2>2. ~Restart
    BY <1>1 DEF Restart
  <2>3. ASSUME NEW o \in Run, NEW d, Begin(o, d)
        PROVE  FALSE
    BY <1>1, <2>3 DEF Begin, IInv, Shape
  <2>4. ~UNCHANGED runVars
    BY <1>1 DEF runVars
  <2>5. ~BeginScheduledExport /\ ~(\E e \in PostExport, d \in Date : BeginPostedExport(e, d))
    BY <2>4 DEF BeginScheduledExport, BeginPostedExport, BeginExport
  <2>6. ~(\E e \in Exporter : StepExport(e))
    BY <2>4 DEF StepExport, Fetch, Put
  <2>7. ~Midnight /\ ~Tick /\ ~(UNCHANGED vars) /\ ~(\E event \in scenario.events : Arrive(event))
    BY <2>4 DEF Midnight, Tick, vars, Arrive
  <2>8. ~BeginScheduled /\ ~(\E o \in Post, d \in Date : BeginPosted(o, d))
    BY <2>3 DEF BeginScheduled, BeginPosted, Run
  <2> QED BY <2>1, <2>2, <2>5, <2>6, <2>7, <2>8 DEF Next
<1> DEFINE d == target[r]
           truth == TruthOf(Sources, d)
<1>3. d \in Date /\ metrics'[d] = Upserted(metrics[d], payload[r])
  <2>1. d \in Date /\ metrics = [e \in Date |-> metrics[e]]
    BY DEF IInv, Shape, WholeInv, WholeMetrics
  <2>2. metrics' = [metrics EXCEPT ![d] = Upserted(@, payload[r])]
    BY <1>1, <1>2 DEF Upsert, RetryOrFail
  <2> QED BY <2>1, <2>2
<1>4. payload[r] = truth
  <2>1. LonePayload(r) /\ todo[r] = {}
    BY <1>1 DEF LoneInv, RunLone
  <2> QED BY <1>1, <2>1 DEF LonePayload
<1>5. \A c \in metrics[d] : Lasting(c, d)
  BY <1>3 DEF FitInv, MetricsFit, CellFits
<1>6. ASSUME NEW c \in metrics'[d], c \notin truth, c.name # "TOP_MOVIE_VIEWS"
      PROVE  FALSE
  <2>1. c \in metrics[d] /\ \A n \in truth : ~SameKey(c, n)
    BY <1>3, <1>4, <1>6 DEF Upserted
  <2> QED BY <1>5, <1>6, <2>1, LastingIsTrue
<1>7. truth \subseteq metrics'[d]
  BY <1>3, <1>4 DEF Upserted
<1>8. truth = UNION {Cells(t, Block(t, d, 0)) : t \in scenario.tables \intersect Readable}
  BY DEF TruthOf, Sources
<1> QED BY <1>6, <1>7, <1>8

\* A run of aggregate_for_date that ends well, with no other run of its date beside it
\* and no event since it began, leaves in daily_metrics what the queries find, and
\* besides it nothing but movies that have dropped out of the list, whatever earlier
\* runs left behind and however many attempts of upsert_metrics failed.
THEOREM LoneRunsAreExact == Spec => LoneRunIsExact
<1> DEFINE Inv == IInv /\ WholeInv /\ FitInv /\ LoneInv
           Exact == \A r \in Run : Ends(r) /\ alone[r] /\ started[r] = Len(raw) =>
             LET d == target[r]
                 truth == UNION {Cells(t, Block(t, d, 0)) : t \in scenario.tables \intersect Readable}
             IN /\ truth \subseteq metrics'[d]
                /\ \A c \in metrics'[d] \ truth : c.name = "TOP_MOVIE_VIEWS"
<1>1. Init => Inv
  BY InitiallyFresh, InitiallyWhole, InitiallyFits, InitiallyLone
<1>2. Inv /\ [Next]_vars => Inv'
  BY FreshStep, WholeStep, FitStep, LoneStep
<1>3. Inv /\ [Next]_vars => Exact
  BY LoneEndIsExact
<1>4. Spec => [][Exact]_vars
  <2> HIDE DEF Inv, Exact
  <2> QED BY <1>1, <1>2, <1>3, PTL DEF Spec
<1> QED BY <1>4, PTL DEF LoneRunIsExact

-----------------------------------------------------------------------------
(* Queries *)

LEMMA EventsFit ==
  ASSUME Shape
  PROVE  \A i \in DOMAIN raw : raw[i].day \in Nat /\ raw[i].movie \in Int
<1>1. \A i \in DOMAIN raw : raw[i] \in scenario.events
  BY DEF Shape
<1>2. \A e \in scenario.events : e.day \in Nat /\ e.movie \in Int
  <2>1. scenario \in Scenarios
    BY DEF Shape
  <2> QED BY <2>1, MetricsAssumption, Zenon DEF MetricsAssumption
<1> QED BY <1>1, <1>2

\* A user of a first date has watched on it, and not before.
LEMMA FirstDateIsWatched ==
  ASSUME Shape, NEW d, NEW u \in Cohort(d)
  PROVE  d \in Watched(u) /\ \A w \in Watched(u) : w \in Nat /\ d <= w
<1> DEFINE R == {ss \in Nat \X Nat : ss[1] < ss[2]}
           S == Watched(u)
<1>1. S \subseteq Nat
  BY EventsFit DEF Watched
<1>2. S # {} /\ Min(S) = d
  BY DEF Cohort
<1> HIDE DEF S
<1>3. IsWellFoundedOn(R, Nat)
  BY NatLessThanWellFounded DEF OpToRel
<1>4. PICK n \in S : \A m \in S : <<m, n>> \notin R
  <2> HIDE DEF R
  <2> QED BY <1>1, <1>2, <1>3, WFMin
<1>5. ASSUME NEW m \in S
      PROVE  n <= m
  <2>1. m \in Nat /\ n \in Nat
    BY <1>1, <1>4
  <2>2. m < n => <<m, n>> \in R
    BY <2>1
  <2> QED BY <1>4, <2>1, <2>2
<1>6. Min(S) \in S /\ \A m \in S : Min(S) <= m
  BY <1>4, <1>5 DEF Min
<1> QED BY <1>1, <1>2, <1>6 DEF S

\* The users of a row of the cohort, and those the retention of that day counts.
Since(d, l) == {u \in Cohort(d) : \E w \in Watched(u) : toUInt8(w - d) = l}
Back(d, l) == {u \in Cohort(d) : d + l \in Watched(u)}
Cut(d) == \E u \in Cohort(d) : \E w \in Watched(u) : w - d >= 256

LEMMA ShortDays == \A n \in 0 .. 255 : toUInt8(n) = n
BY DEF toUInt8

\* The row has all of them, and no others if no day is cut to 8 bits.
LEMMA BackSince ==
  ASSUME Shape, NEW d \in Nat, NEW l \in 0 .. LateDay
  PROVE  Back(d, l) \subseteq Since(d, l) /\ (~Cut(d) => Since(d, l) = Back(d, l))
<1>1. l \in 0 .. 255 /\ (d + l) - d = l
  OBVIOUS
<1>2. Back(d, l) \subseteq Since(d, l)
  BY <1>1, ShortDays DEF Back, Since
<1>3. ASSUME ~Cut(d), NEW u \in Since(d, l)
      PROVE  u \in Back(d, l)
  <2>1. PICK w \in Watched(u) : u \in Cohort(d) /\ toUInt8(w - d) = l
    BY <1>3 DEF Since
  <2>2. w \in Nat /\ d <= w /\ ~(w - d >= 256)
    BY <1>3, <2>1, FirstDateIsWatched DEF Cut
  <2>3. w - d \in 0 .. 255
    BY <2>2
  <2>4. w - d = l
    BY <2>1, <2>3, ShortDays
  <2>5. w = d + l
    BY <2>2, <2>4
  <2> QED BY <2>1, <2>5 DEF Back
<1> QED BY <1>2, <1>3

\* The row of a day of a cohort has the rate of the retention, or none is there and
\* nobody came back; with days that are cut it may have more.
LEMMA CohortRate ==
  ASSUME Shape, NEW d \in Nat, NEW l \in 0 .. LateDay, NEW rate,
         rate = Ratio(Cardinality(Back(d, l)), Cardinality(Cohort(d)))
  PROVE  LET rates == {w.value.rate : w \in {x \in CohortRows(d) : x.key = l}}
         IN  /\ rate[1] = 0 \/ \E q \in rates : q[1] >= rate[1]
             /\ ~Cut(d) => rates = {rate} \/ (rates = {} /\ rate[1] = 0)
<1> DEFINE size == Cardinality(Cohort(d))
           users(n) == Since(d, n)
           row(n) == [key |-> n, value |-> [users |-> Cardinality(users(n)), size |-> size,
                                            rate |-> Ratio(Cardinality(users(n)), size)]]
           rates == {w.value.rate : w \in {x \in CohortRows(d) : x.key = l}}
           back == Cardinality(Back(d, l))
           count == Cardinality(users(l))
<1>1. CohortRows(d) = {row(n) : n \in {m \in 0 .. LateDay : users(m) # {}}}
  BY DEF CohortRows, Since
<1>2. rate = Ratio(back, size)
  OBVIOUS
<1>3. \A n : row(n).key = n /\ row(n).value.rate = Ratio(Cardinality(users(n)), size)
  OBVIOUS
<1>4. back \in Nat /\ count \in Nat /\ back <= count /\ (users(l) = {} => back = 0)
  <2>1. users(l) \in SUBSET Cohort(d) /\ Back(d, l) \in SUBSET Cohort(d) /\ Back(d, l) \subseteq users(l)
    BY BackSince DEF Since, Back
  <2>2. IsFiniteSet(users(l)) /\ count \in Nat /\ back \in Nat
    BY <2>1, CohortsAreFinite
  <2> HIDE DEF users
  <2> QED BY <2>1, <2>2, FS_Subset, FS_EmptySet
<1>5. ~Cut(d) => count = back
  BY BackSince
<1>6. Ratio(count, size)[1] >= Ratio(back, size)[1] /\ Ratio(0, size)[1] = 0
  BY <1>4 DEF Ratio
<1> HIDE DEF size, row, back
<1>7. CASE users(l) = {}
  <2> HIDE DEF users
  <2>1. rates = {}
    BY <1>1, <1>3, <1>7
  <2>2. rate[1] = 0
    BY <1>2, <1>4, <1>6, <1>7
  <2> QED BY <2>1, <2>2
<1>8. CASE users(l) # {}
  <2> HIDE DEF users
  <2>1. row(l) \in {x \in CohortRows(d) : x.key = l}
    BY <1>1, <1>3, <1>8
  <2>2. \A x \in CohortRows(d) : x.key = l => x = row(l)
    BY <1>1, <1>3
  <2>3. {x \in CohortRows(d) : x.key = l} = {row(l)}
    BY <2>1, <2>2
  <2>4. rates = {Ratio(count, size)}
    BY <1>3, <2>3
  <2>5. Ratio(count, size) \in rates /\ Ratio(count, size)[1] >= rate[1]
    BY <1>2, <1>6, <2>4
  <2>6. ~Cut(d) => rates = {rate}
    BY <1>2, <1>5, <2>4
  <2> QED BY <2>5, <2>6
<1> QED BY <1>7, <1>8

\* The first row of a cohort is the whole cohort, users of its date.
LEMMA FirstRowIsWhole ==
  ASSUME Shape, NEW d \in Nat, NEW w \in CohortRows(d), w.key = 0
  PROVE  w.value.users = w.value.size /\ w.value.size <= Cardinality({raw[i].user : i \in On(d)})
<1> DEFINE present == {raw[i].user : i \in On(d)}
<1>1. w.value.users = Cardinality(Since(d, 0)) /\ w.value.size = Cardinality(Cohort(d))
  <2> DEFINE count(n) == Cardinality(Since(d, n))
  <2>1. PICK n : w = [key |-> n, value |-> [users |-> count(n), size |-> Cardinality(Cohort(d)),
                                            rate |-> Ratio(count(n), Cardinality(Cohort(d)))]]
    BY DEF CohortRows, Since
  <2>2. n = 0
    BY <2>1
  <2> HIDE DEF count
  <2>3. w.value.users = count(0) /\ w.value.size = Cardinality(Cohort(d))
    BY <2>1, <2>2
  <2> QED BY <2>3 DEF count
<1>2. Since(d, 0) = Cohort(d)
  <2>1. Back(d, 0) = Cohort(d)
    BY FirstDateIsWatched DEF Back
  <2>2. Back(d, 0) \subseteq Since(d, 0)
    BY BackSince
  <2> QED BY <2>1, <2>2 DEF Since
<1>3. Cohort(d) \in SUBSET present
  BY FirstDateIsWatched DEF Watched, On
<1>4. IsFiniteSet(present)
  BY UsersAreFinite DEF On
<1> HIDE DEF present
<1> QED BY <1>1, <1>2, <1>3, <1>4, FS_Subset DEF present

\* The devices of a date share its events among them.
LEMMA DevicesShareEvents ==
  ASSUME Shape, NEW d
  PROVE  MapThenSumSet(LAMBDA w : w.value, DeviceRows(d)) = Cardinality(On(d))
<1> DEFINE V == {raw[i].device : i \in On(d)}
           part(v) == {i \in On(d) : raw[i].device = v}
           row == [v \in V |-> [key |-> v, value |-> Cardinality(part(v))]]
           S == {row[v] : v \in V}
           f == [w \in S |-> w.value]
           F == [w \in S |-> part(w.key)]
<1>1. S = DeviceRows(d)
  BY DEF DeviceRows
<1>2. IsFiniteSet(S)
  <2> DEFINE g == [i \in On(d) |-> raw[i].device]
  <2>1. V = {g[i] : i \in On(d)}
    OBVIOUS
  <2>2. IsFiniteSet(On(d))
    BY EventsAreFinite DEF On
  <2> HIDE DEF g, row, V
  <2>3. IsFiniteSet(V)
    BY <2>1, <2>2, ImageIsFinite
  <2> QED BY <2>3, ImageIsFinite
<1>3. \A v : IsFiniteSet(part(v)) /\ Cardinality(part(v)) \in Nat
  BY EventsAreFinite DEF On
<1>4. ASSUME NEW w \in S
      PROVE  w.key \in V /\ w = row[w.key] /\ w.value = Cardinality(part(w.key))
  <2>1. PICK v \in V : w = row[v]
    OBVIOUS
  <2>2. w = [key |-> v, value |-> Cardinality(part(v))]
    BY <2>1
  <2> HIDE DEF part, row, V
  <2>3. w.key = v /\ w.value = Cardinality(part(v))
    BY <2>2
  <2> QED BY <2>1, <2>3
<1>5. \A v \in S : \A w \in S \ {v} : part(v.key) \intersect part(w.key) = {}
  <2>1. \A a, b : a # b => part(a) \intersect part(b) = {}
    OBVIOUS
  <2> HIDE DEF part, row, S
  <2> QED BY <1>4, <2>1
<1>6. UNION {F[w] : w \in S} = On(d)
  <2>1. ASSUME NEW i \in On(d)
        PROVE  \E w \in S : i \in F[w]
    <3>1. raw[i].device \in V /\ i \in part(raw[i].device)
      OBVIOUS
    <3>2. row[raw[i].device] \in S /\ row[raw[i].device].key = raw[i].device
      BY <3>1
    <3> HIDE DEF S, row, V, part
    <3> QED BY <3>1, <3>2
  <2>2. \A w \in S : F[w] \subseteq On(d)
    <3>1. \A v : part(v) \subseteq On(d)
      OBVIOUS
    <3> HIDE DEF S, part
    <3> QED BY <3>1
  <2> HIDE DEF S, F
  <2> QED BY <2>1, <2>2
<1> HIDE DEF S, part, row, V
<1>7. f \in [S -> Nat] /\ MapThenSumSet(LAMBDA w : w.value, S) = SumOf(f, S)
  BY <1>2, <1>3, <1>4, SumOfValues
<1>8. \A w \in S : F[w] = part(w.key) /\ f[w] = w.value
  OBVIOUS
<1> HIDE DEF f, F
<1>9. SumOf(f, S) = Cardinality(On(d))
  <2>1. \A w \in S : IsFiniteSet(F[w]) /\ Cardinality(F[w]) = f[w]
    BY <1>3, <1>4, <1>8
  <2>2. \A v \in S : \A w \in S \ {v} : F[v] \intersect F[w] = {}
    BY <1>5, <1>8
  <2>3. SumOf(f, S) = Cardinality(UNION {F[w] : w \in S})
    BY <1>2, <1>7, <2>1, <2>2, SumOfParts
  <2> QED BY <1>6, <2>3
<1> QED BY <1>1, <1>7, <1>9

\* The list shares the finished views among its movies, all of them if it holds
\* every movie of the date.
LEMMA TopSharesViews ==
  ASSUME Shape, NEW d
  PROVE  LET total == MapThenSumSet(LAMBDA w : w.value, TopRows(d))
             finished == Cardinality(Typed(d, "VIEW_FINISHED"))
         IN  /\ total <= finished
             /\ Cardinality({raw[i].movie : i \in On(d)}) <= TopSize => total = finished
<1> DEFINE M == {raw[i].movie : i \in On(d)}
           V == {m \in M : Rank(d, m, M) <= TopSize}
           all == Typed(d, "VIEW_FINISHED")
           part(m) == {i \in all : raw[i].movie = m}
           row == [m \in V |-> [key |-> <<Rank(d, m, M), m>>, value |-> Cardinality(part(m))]]
           S == {row[m] : m \in V}
           f == [w \in S |-> w.value]
           F == [w \in S |-> part(w.key[2])]
<1>1. S = TopRows(d)
  <2>1. \A m : Views(d, m) = Cardinality(part(m))
    BY DEF Views
  <2>2. TopRows(d) = {[key |-> <<Rank(d, m, M), m>>, value |-> Views(d, m)] : m \in V}
    BY DEF TopRows
  <2> HIDE DEF part, V
  <2> QED BY <2>1, <2>2
<1>2. IsFiniteSet(M) /\ IsFiniteSet(S)
  <2> DEFINE g == [i \in On(d) |-> raw[i].movie]
  <2>1. M = {g[i] : i \in On(d)}
    OBVIOUS
  <2>2. IsFiniteSet(On(d))
    BY EventsAreFinite DEF On
  <2>3. V \in SUBSET M
    OBVIOUS
  <2> HIDE DEF g, row, M, V
  <2>4. IsFiniteSet(M)
    BY <2>1, <2>2, ImageIsFinite
  <2>5. IsFiniteSet(V)
    BY <2>3, <2>4, FS_Subset
  <2> QED BY <2>4, <2>5, ImageIsFinite
<1>3. \A m : IsFiniteSet(part(m)) /\ Cardinality(part(m)) \in Nat
  BY EventsAreFinite DEF Typed, On
<1>4. ASSUME NEW w \in S
      PROVE  w.key[2] \in V /\ w = row[w.key[2]] /\ w.value = Cardinality(part(w.key[2]))
  <2>1. PICK m \in V : w = row[m]
    OBVIOUS
  <2>2. w = [key |-> <<Rank(d, m, M), m>>, value |-> Cardinality(part(m))]
    BY <2>1
  <2> HIDE DEF part, row, V, M
  <2>3. w.key[2] = m /\ w.value = Cardinality(part(m))
    BY <2>2
  <2> QED BY <2>1, <2>3
<1>5. \A v \in S : \A w \in S \ {v} : part(v.key[2]) \intersect part(w.key[2]) = {}
  <2>1. \A a, b : a # b => part(a) \intersect part(b) = {}
    OBVIOUS
  <2> HIDE DEF part, row, S, V
  <2> SUFFICES ASSUME NEW v \in S, NEW w \in S \ {v}
               PROVE  v.key[2] # w.key[2]
    BY <2>1
  <2>2. v = row[v.key[2]] /\ w = row[w.key[2]]
    BY <1>4
  <2> QED BY <2>2
<1>6. UNION {F[w] : w \in S} \in SUBSET all
  <2>1. \A w \in S : F[w] \subseteq all
    <3>1. \A m : part(m) \subseteq all
      OBVIOUS
    <3> HIDE DEF S, part
    <3> QED BY <3>1
  <2> HIDE DEF S, F, all
  <2> QED BY <2>1
\* Fewer movies rank before a movie than there are.
<1>7. ASSUME Cardinality(M) <= TopSize, NEW m \in M
      PROVE  m \in V
  <2> DEFINE before == {n \in M : Views(d, n) > Views(d, m) \/ (Views(d, n) = Views(d, m) /\ n < m)}
  <2>1. Views(d, m) \in Nat
    BY <1>3 DEF Views
  <2>2. m \in Int
    BY EventsFit DEF On
  <2>3. before \in SUBSET (M \ {m})
    BY <2>1, <2>2
  <2>4. Rank(d, m, M) = 1 + Cardinality(before)
    BY DEF Rank
  <2> HIDE DEF before, M
  <2>5. IsFiniteSet(M \ {m}) /\ Cardinality(M \ {m}) = Cardinality(M) - 1
    BY <1>2, <1>7, FS_RemoveElement
  <2>6. Cardinality(before) <= Cardinality(M \ {m}) /\ IsFiniteSet(before)
    BY <2>3, <2>5, FS_Subset
  <2>7. Cardinality(before) \in Nat /\ Cardinality(M) \in Nat
    BY <1>2, <2>6, FS_CardinalityType
  <2>8. Rank(d, m, M) <= TopSize
    BY <1>7, <2>4, <2>5, <2>6, <2>7
  <2> QED BY <1>7, <2>8
<1>8. ASSUME Cardinality(M) <= TopSize
      PROVE  UNION {F[w] : w \in S} = all
  <2>1. ASSUME NEW i \in all
        PROVE  \E w \in S : i \in F[w]
    <3>1. raw[i].movie \in M /\ i \in part(raw[i].movie)
      BY DEF Typed
    <3>2. raw[i].movie \in V
      BY <1>7, <1>8, <3>1
    <3> PICK m : m = raw[i].movie
      OBVIOUS
    <3> HIDE DEF V, part, M
    <3>3. row[m] = [key |-> <<Rank(d, m, M), m>>, value |-> Cardinality(part(m))]
      BY <3>2
    <3>4. row[m] \in S /\ row[m].key[2] = m
      BY <3>2, <3>3
    <3> HIDE DEF S, row
    <3> QED BY <3>1, <3>4
  <2> HIDE DEF S, F, all
  <2> QED BY <1>6, <2>1
<1> HIDE DEF S, part, row, V, M
<1>9. f \in [S -> Nat] /\ MapThenSumSet(LAMBDA w : w.value, S) = SumOf(f, S)
  BY <1>2, <1>3, <1>4, SumOfValues
<1>10. \A w \in S : F[w] = part(w.key[2]) /\ f[w] = w.value
  OBVIOUS
<1> HIDE DEF f, F
<1>11. SumOf(f, S) = Cardinality(UNION {F[w] : w \in S})
  <2>1. \A w \in S : IsFiniteSet(F[w]) /\ Cardinality(F[w]) = f[w]
    BY <1>3, <1>4, <1>10
  <2>2. \A v \in S : \A w \in S \ {v} : F[v] \intersect F[w] = {}
    BY <1>5, <1>10
  <2> QED BY <1>2, <1>9, <2>1, <2>2, SumOfParts
<1>12. IsFiniteSet(all)
  BY EventsAreFinite DEF Typed, On
<1> HIDE DEF all
<1>13. Cardinality(UNION {F[w] : w \in S}) <= Cardinality(all)
  BY <1>6, <1>12, FS_Subset
<1> QED BY <1>1, <1>8, <1>9, <1>11, <1>13 DEF M, all

LEMMA OneRow ==
  ASSUME NEW v
  PROVE  (CHOOSE w \in Single(v) : TRUE).value = v
<1>1. PICK w : w = CHOOSE x \in Single(v) : TRUE
  OBVIOUS
<1>2. Single(v) = {[key |-> <<>>, value |-> v]}
  BY DEF Single
<1>3. w \in Single(v)
  BY <1>1, <1>2
<1> QED BY <1>1, <1>2, <1>3

LEMMA QueriesFit ==
  ASSUME Shape
  PROVE  QueriesAgree
<1> SUFFICES ASSUME NEW d \in 1 .. scenario.lastDay
             PROVE  LET The(s) == (CHOOSE w \in s : TRUE).value
                        dau == The(DauRows(d))
                        conversion == The(ConversionRows(d))
                        retention == The(RetentionRows(d))
                        cut == \E u \in Cohort(d) : \E w \in Watched(u) : w - d >= 256
                        cohort(l) == {w.value.rate : w \in {x \in CohortRows(d) : x.key = l}}
                        Includes(l, rate) == rate[1] = 0 \/ \E q \in cohort(l) : q[1] >= rate[1]
                        Is(l, rate) == cohort(l) = {rate} \/ (cohort(l) = {} /\ rate[1] = 0)
                        Total(s) == MapThenSumSet(LAMBDA w : w.value, s)
                    IN
                    /\ Includes(1, retention.d1) /\ Includes(LateDay, retention.d7)
                    /\ ~cut => Is(1, retention.d1) /\ Is(LateDay, retention.d7)
                    /\ \A w \in CohortRows(d) : w.key = 0 => w.value.users = w.value.size /\ w.value.size <= dau
                    /\ Total(DeviceRows(d)) = Cardinality(On(d))
                    /\ Total(TopRows(d)) <= conversion.finished
                    /\ Cardinality({raw[i].movie : i \in On(d)}) <= TopSize => Total(TopRows(d)) = conversion.finished
                    /\ dau <= Cardinality(On(d))
  BY DEF QueriesAgree
<1> DEFINE users == Cardinality({raw[i].user : i \in On(d)})
           starts == Cardinality(Typed(d, "VIEW_STARTED"))
           finished == Cardinality(Typed(d, "VIEW_FINISHED"))
           back(n) == Ratio(Cardinality(Back(d, n)), Cardinality(Cohort(d)))
<1>0. d \in Nat
  OBVIOUS
<1>1. (CHOOSE w \in DauRows(d) : TRUE).value = users
  BY OneRow DEF DauRows
<1>2. (CHOOSE w \in ConversionRows(d) : TRUE).value.finished = finished
  <2>1. (CHOOSE w \in ConversionRows(d) : TRUE).value
          = [started |-> starts, finished |-> finished, rate |-> Ratio(finished, starts)]
    BY OneRow DEF ConversionRows
  <2> HIDE DEF finished, starts
  <2> QED BY <2>1
<1>3. /\ (CHOOSE w \in RetentionRows(d) : TRUE).value.d1 = back(1)
      /\ (CHOOSE w \in RetentionRows(d) : TRUE).value.d7 = back(LateDay)
  <2>1. (CHOOSE w \in RetentionRows(d) : TRUE).value = [d1 |-> back(1), d7 |-> back(LateDay)]
    BY OneRow DEF RetentionRows, Back
  <2> HIDE DEF back
  <2> QED BY <2>1
<1>4. 1 \in 0 .. LateDay /\ LateDay \in 0 .. LateDay
  OBVIOUS
<1>5. ASSUME NEW l \in 0 .. LateDay
      PROVE  LET rates == {w.value.rate : w \in {x \in CohortRows(d) : x.key = l}}
             IN  /\ back(l)[1] = 0 \/ \E q \in rates : q[1] >= back(l)[1]
                 /\ ~Cut(d) => rates = {back(l)} \/ (rates = {} /\ back(l)[1] = 0)
  BY <1>0, CohortRate
<1>6. \A w \in CohortRows(d) : w.key = 0 => w.value.users = w.value.size /\ w.value.size <= users
  BY <1>0, FirstRowIsWhole
<1>7. users <= Cardinality(On(d))
  BY UsersAreFinite DEF On
<1> HIDE DEF users, starts, back
<1> QED BY <1>1, <1>2, <1>3, <1>4, <1>5, <1>6, <1>7, DevicesShareEvents, TopSharesViews DEF Cut

\* The seven queries of a rewrite, written apart, agree on any sequence of events,
\* of whatever days: retention with cohorts -- which may have more users than it
\* where a lifecycle_day is cut to 8 bits, and nowhere else --, devices with events,
\* the top list with the finished views, new users with users.
THEOREM QueriesAlwaysAgree == Spec => []QueriesAgree
<1>1. IInv => QueriesAgree
  BY QueriesFit DEF IInv
<1> QED BY <1>1, InitiallyFresh, FreshStep, PTL DEF Spec
=============================================================================
