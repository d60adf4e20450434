---------------------------- MODULE GauntletProofs ----------------------------
(***************************************************************************)
(* The certification requests, for any number of requests, books, sleeves, *)
(* surfaces and backtests and whatever these come to: the tables stay well *)
(* formed, an iteration owns the audits of its sleeves, and the trials and *)
(* screens that deflate a verdict are all that were on record.             *)
(*                                                                         *)
(* A request writes its audits one by one before its first backtest and    *)
(* reads the count after the last.  The invariants say what it has in hand *)
(* in between, when other requests audit and commit as well.               *)
(***************************************************************************)
EXTENDS Gauntlet, TLAPS, FiniteSetTheorems, WellFoundedInduction, SequenceTheorems,
        NaturalsInduction

Decisions == {"PASS", "ITERATE", "DISCARD"}

Audit == [surface : Surfaces, draw : BOOLEAN, iteration : Nat \cup {None},
          verdict : Decisions \cup {None}]

BookRow == [book : Books, evidence : Seq(Nat), verdict : Decisions, trials : Nat, seen : Nat]

AnalysisJob == [kind : {"analyze"}, book : Books, evidence : Seq(Nat), results : Seq(SleeveRuns),
                counts : [Surfaces -> Nat \cup {None}], trials : Nat \cup {None}, seen : Nat]

ScreenJob == [kind : {"signal"}, family : Families, prior : Nat \cup {None}, seen : Nat]

(* What the handler of each kind carries from await to await; the kinds     *)
(* that leave a book's rows alone need no more than to keep their kind.     *)
Shaped(k) ==
    /\ "kind" \in DOMAIN k /\ k.kind \in Kinds
    /\ k.kind = "analyze" => k \in AnalysisJob
    /\ k.kind = "signal" => k \in ScreenJob
    /\ k.kind = "null" => "surface" \in DOMAIN k /\ k.surface \in Surfaces

JobsShaped == DOMAIN job = Jobs /\ \A j \in Jobs : job[j] # None => Shaped(job[j])

RowsTyped ==
    /\ audits \in Seq(Audit)
    /\ iterations \in Seq(BookRow)
    /\ certificates \in Seq(Range(certificates))
    /\ journal \in Seq(Range(journal))
    /\ digests \in Seq(Range(digests))

TypeInv == TypeOK /\ JobsShaped /\ RowsTyped

(* The audits of the sleeves that a request has got to, still unattached.   *)
InHand(k) ==
    /\ Len(k.evidence) <= Len(k.book.sleeves)
    /\ k.results # <<>> => Len(k.evidence) = Len(k.book.sleeves)
    /\ k.trials # None => Len(k.results) = Len(k.book.sleeves)
    /\ \A s \in Surfaces : k.counts[s] # None => Len(k.results) = Len(k.book.sleeves)
    /\ \A n \in 1..Len(k.evidence) :
          /\ k.evidence[n] \in 1..Len(audits)
          /\ audits[k.evidence[n]] = Trial(k.book.sleeves[n].surface, FALSE)

(* No two sleeves, of one request or of two, share an audit.                *)
Disjoint ==
    \A i, j \in Jobs : Working(i, "analyze") /\ Working(j, "analyze") =>
        \A m \in 1..Len(job[i].evidence), n \in 1..Len(job[j].evidence) :
            job[i].evidence[m] = job[j].evidence[n] => i = j /\ m = n

EvidenceInv ==
    /\ \A j \in Jobs : Working(j, "analyze") => InHand(job[j])
    /\ Disjoint

(* The surfaces are counted one by one and others commit in between, so it  *)
(* takes what is counted with what the rest would be counted at now.        *)
OnRecord(S) == [s \in S |-> Cardinality(TrialsOn({s}))]

Least(k) ==
    [s \in SurfacesOf(k.book) |->
        IF k.counts[s] = None THEN Cardinality(TrialsOn({s})) ELSE k.counts[s]]

(* The count a request carries lies between what it saw and what there is.  *)
Counted(k) ==
    LET on == Cardinality(TrialsOn(SurfacesOf(k.book)))
    IN  /\ k.seen <= on /\ k.seen <= SumFunction(Least(k))
        /\ \A s \in SurfacesOf(k.book) :
              k.counts[s] # None => k.counts[s] <= Cardinality(TrialsOn({s}))
        /\ k.trials # None => k.trials - k.book.external - 1 \in k.seen..on

Compared(k) ==
    LET on == Cardinality(Screened(k.family))
    IN  k.seen <= on /\ (k.prior # None => k.prior \in k.seen..on)

CountInv ==
    /\ \A j \in Jobs : Working(j, "analyze") => Counted(job[j])
    /\ \A j \in Jobs : Working(j, "signal") => Compared(job[j])

---------------------------------------------------------------------------
(* Sums *)

Some(U) == CHOOSE x \in U : TRUE

(* What SumFunction chooses: a function that adds up g over sets of indices. *)
Sums(sum, g) ==
    sum = [U \in SUBSET DOMAIN g |-> IF U = {} THEN 0 ELSE g[Some(U)] + sum[U \ {Some(U)}]]

(* Some function grows by g[x] with each x.                                 *)
Adding(count, g) ==
    /\ count = [U \in SUBSET DOMAIN g |-> count[U]] /\ count[{}] = 0
    /\ \A U \in SUBSET DOMAIN g : \A x \in U : count[U] = g[x] + count[U \ {x}]

(* There is one sum, and whatever grows so is it.                           *)
LEMMA SumIs ==
    ASSUME NEW g, IsFiniteSet(DOMAIN g), NEW count, Adding(count, g)
    PROVE  SumFunction(g) = count[DOMAIN g]
<1> PICK S : S = DOMAIN g
  OBVIOUS
<1> DEFINE sum == CHOOSE it : Sums(it, g)
<1>1. SumFunction(g) = sum[S]
  BY DEF SumFunction, SumFunctionOnSet, FoldFunctionOnSet, MapThenFoldSet, Sums, Some
<1>2. \A U \in SUBSET S : U # {} => Some(U) \in U
  BY DEF Some
<1>3. Sums(count, g)
  <2>1. \A U \in SUBSET S : count[U] = IF U = {} THEN 0 ELSE g[Some(U)] + count[U \ {Some(U)}]
    BY <1>2 DEF Adding
  <2> QED
    BY <2>1 DEF Sums, Adding
<1>4. Sums(sum, g)
  BY <1>3
<1> HIDE DEF sum
<1>5. \A U \in SUBSET S : sum[U] = count[U]
  <2> DEFINE Bad == {U \in SUBSET S : sum[U] # count[U]}
             Smaller == StrictSubsetOrdering(S)
  <2> SUFFICES ASSUME Bad # {}
               PROVE  FALSE
    OBVIOUS
  <2>1. PICK U \in Bad : \A V \in Bad : <<V, U>> \notin Smaller
    <3>1. IsWellFoundedOn(Smaller, FiniteSubsetsOf(S))
      BY FS_StrictSubsetOrderingWellFounded
    <3>2. Bad \subseteq FiniteSubsetsOf(S)
      BY FS_Subset DEF FiniteSubsetsOf
    <3> HIDE DEF Bad, Smaller
    <3> QED
      BY <3>1, <3>2, WFMin
  <2>2. U \in SUBSET S /\ sum[U] # count[U]
    BY <2>1
  <2>3. sum[U] = IF U = {} THEN 0 ELSE g[Some(U)] + sum[U \ {Some(U)}]
    BY <1>4, <2>2 DEF Sums
  <2>4. U # {} /\ Some(U) \in U
    BY <1>2, <2>2, <2>3 DEF Adding
  <2> DEFINE V == U \ {Some(U)}
  <2>5. count[U] = g[Some(U)] + count[V]
    BY <2>2, <2>4 DEF Adding
  <2>6. V \in Bad /\ V \subseteq U /\ V # U
    BY <2>2, <2>3, <2>4, <2>5
  <2>7. <<V, U>> \in Smaller
    <3>1. V \in FiniteSubsetsOf(S) /\ U \in FiniteSubsetsOf(S)
      BY <2>2, <2>6, FS_Subset DEF FiniteSubsetsOf
    <3> HIDE DEF V
    <3> QED
      BY <2>6, <3>1 DEF StrictSubsetOrdering, FiniteSubsetsOf
  <2> QED
    BY <2>1, <2>6, <2>7
<1> QED
  BY <1>1, <1>5

(* A sum of naturals is a number of pairs.                                  *)
Units(g, U) == {p \in U \X Nat : p[2] \in 1..g[p[1]]}

LEMMA SumOfNaturals ==
    ASSUME NEW S, IsFiniteSet(S), NEW g, DOMAIN g = S, \A x \in S : g[x] \in Nat
    PROVE  /\ SumFunction(g) = Cardinality(Units(g, S))
           /\ Cardinality(Units(g, S)) \in Nat /\ IsFiniteSet(Units(g, S))
<1>1. ASSUME NEW x \in S
      PROVE  /\ IsFiniteSet({x} \X (1..g[x])) /\ Cardinality({x} \X (1..g[x])) = g[x]
             /\ Units(g, {x}) = {x} \X (1..g[x])
  <2> PICK n, I : n = g[x] /\ I = 1..n
    OBVIOUS
  <2>1. n \in Nat /\ IsFiniteSet(I) /\ Cardinality(I) = n
    BY FS_Interval
  <2>2. IsFiniteSet({x}) /\ Cardinality({x}) = 1
    BY FS_Singleton
  <2>3. IsFiniteSet({x} \X I) /\ Cardinality({x} \X I) = n
    <3>1. /\ IsFiniteSet({x} \X I)
          /\ Cardinality({x} \X I) = Cardinality({x}) * Cardinality(I)
      BY <2>1, <2>2, FS_Product, Zenon
    <3> PICK a, b, c : a = Cardinality({x}) /\ b = Cardinality(I) /\ c = Cardinality({x} \X I)
      OBVIOUS
    <3>2. c = a * b /\ a = 1 /\ b = n
      BY <2>1, <2>2, <3>1
    <3>3. c = n
      BY <2>1, <3>2
    <3> QED
      BY <3>1, <3>3
  <2>4. Units(g, {x}) = {x} \X I
    BY <2>1 DEF Units
  <2> QED
    BY <2>3, <2>4, Zenon
<1>2. \A U \in SUBSET S : IsFiniteSet(Units(g, U))
  <2> SUFFICES ASSUME NEW U \in SUBSET S
               PROVE  IsFiniteSet(Units(g, U))
    OBVIOUS
  <2> DEFINE Parts == {Units(g, {x}) : x \in U}
  <2>1. IsFiniteSet(U)
    BY FS_Subset
  <2>2. IsFiniteSet(Parts)
    <3> DEFINE part == [x \in U |-> Units(g, {x})]
    <3>1. part \in Surjection(U, Parts)
      BY DEF Surjection
    <3> HIDE DEF part, Parts
    <3> QED
      BY <2>1, <3>1, FS_Surjection
  <2>3. \A T \in Parts : IsFiniteSet(T)
    <3> SUFFICES ASSUME NEW x \in U
                 PROVE  IsFiniteSet(Units(g, {x}))
      OBVIOUS
    <3>1. x \in S
      OBVIOUS
    <3> QED
      BY <1>1, <3>1, Zenon
  <2>4. IsFiniteSet(UNION Parts)
    <3> HIDE DEF Parts
    <3> QED
      BY <2>2, <2>3, FS_UNION
  <2>5. Units(g, U) \subseteq UNION Parts
    BY DEF Units
  <2> QED
    BY <2>4, <2>5, FS_Subset
<1> PICK count : count = [U \in SUBSET S |-> Cardinality(Units(g, U))]
  OBVIOUS
<1>3. count[{}] = 0
  <2>1. Units(g, {}) = {}
    BY DEF Units
  <2> QED
    BY <2>1, FS_EmptySet
<1>4. ASSUME NEW U \in SUBSET S, NEW x \in U
      PROVE  count[U] = g[x] + count[U \ {x}]
  <2> PICK A, B, C : A = Units(g, U \ {x}) /\ B = Units(g, {x}) /\ C = Units(g, U)
    OBVIOUS
  <2>1. C = A \cup B /\ A \cap B = {}
    BY DEF Units
  <2>2. IsFiniteSet(A) /\ IsFiniteSet(B)
    BY <1>2
  <2>3. Cardinality(B) = g[x]
    BY <1>1
  <2>4. Cardinality(C) = Cardinality(A) + Cardinality(B)
    <3>1. Cardinality(A) \in Nat /\ Cardinality(B) \in Nat /\ Cardinality(A \cap B) = 0
      BY <2>1, <2>2, FS_CardinalityType, FS_EmptySet
    <3>2. Cardinality(A \cup B) = Cardinality(A) + Cardinality(B) - Cardinality(A \cap B)
      BY <2>2, FS_Union
    <3> PICK a, b, c, d : /\ a = Cardinality(A) /\ b = Cardinality(B)
                          /\ c = Cardinality(A \cup B) /\ d = Cardinality(A \cap B)
      OBVIOUS
    <3>3. c = a + b
      BY <3>1, <3>2
    <3> QED
      BY <2>1, <3>3
  <2>5. Cardinality(A) \in Nat /\ g[x] \in Nat
    BY <2>2, FS_CardinalityType
  <2> QED
    BY <2>3, <2>4, <2>5
<1>5. count = [U \in SUBSET S |-> count[U]]
  OBVIOUS
<1>6. /\ count[S] = Cardinality(Units(g, S)) /\ Cardinality(Units(g, S)) \in Nat
      /\ IsFiniteSet(Units(g, S))
  BY <1>2, FS_CardinalityType
<1>7. \A U \in SUBSET S : \A x \in U : count[U] = g[x] + count[U \ {x}]
  BY <1>4
<1>8. SumFunction(g) = count[S]
  <2>1. Adding(count, g)
    BY <1>3, <1>5, <1>7 DEF Adding
  <2> QED
    BY <2>1, SumIs
<1> QED
  BY <1>6, <1>8

LEMMA SumIsNatural ==
    ASSUME NEW S, IsFiniteSet(S), NEW g \in [S -> Nat]
    PROVE  SumFunction(g) \in Nat
<1>1. DOMAIN g = S /\ \A x \in S : g[x] \in Nat
  OBVIOUS
<1> QED
  BY <1>1, SumOfNaturals

(* Larger parts, a larger sum.                                              *)
LEMMA SumGrows ==
    ASSUME NEW S, IsFiniteSet(S), NEW f \in [S -> Nat], NEW g \in [S -> Nat],
           \A x \in S : f[x] <= g[x]
    PROVE  /\ SumFunction(f) \in Nat /\ SumFunction(g) \in Nat
           /\ SumFunction(f) <= SumFunction(g)
<1>1. /\ SumFunction(f) = Cardinality(Units(f, S)) /\ Cardinality(Units(f, S)) \in Nat
      /\ SumFunction(g) = Cardinality(Units(g, S)) /\ Cardinality(Units(g, S)) \in Nat
      /\ IsFiniteSet(Units(g, S))
  BY SumOfNaturals
<1>2. Units(f, S) \subseteq Units(g, S)
  BY DEF Units
<1>3. Cardinality(Units(f, S)) <= Cardinality(Units(g, S))
  BY <1>1, <1>2, FS_Subset
<1> QED
  BY <1>1, <1>3

---------------------------------------------------------------------------
(* Rows and counts *)

(* A sequence with one more element.                                        *)
LEMMA Appended ==
    ASSUME NEW s, s \in Seq(Range(s)), NEW x
    PROVE  LET t == Append(s, x) IN
           /\ Len(s) \in Nat /\ DOMAIN s = 1..Len(s)
           /\ t \in Seq(Range(t)) /\ Range(t) = Range(s) \cup {x}
           /\ Len(t) = Len(s) + 1 /\ DOMAIN t = 1..(Len(s) + 1)
           /\ t[Len(s) + 1] = x /\ \A n \in 1..Len(s) : t[n] = s[n]
<1> DEFINE t == Append(s, x)
           S == Range(s) \cup {x}
<1>1. s \in Seq(S)
  <2> PICK R : R = Range(s)
    OBVIOUS
  <2>1. s \in Seq(R)
    OBVIOUS
  <2> QED
    BY <2>1
<1>2. /\ Len(s) \in Nat /\ DOMAIN s = 1..Len(s) /\ t \in Seq(S)
      /\ Len(t) = Len(s) + 1 /\ DOMAIN t = 1..(Len(s) + 1)
      /\ t[Len(s) + 1] = x /\ \A n \in 1..Len(s) : t[n] = s[n]
  BY <1>1, AppendProperties
<1>3. Range(t) = S
  BY <1>2 DEF Range
<1>4. t \in Seq(Range(t))
  BY <1>2, <1>3
<1> QED
  BY <1>2, <1>3, <1>4

LEMMA Lengthened ==
    ASSUME NEW s, s \in Seq(Range(s)), NEW t, t = s \/ \E x : t = Append(s, x)
    PROVE  t \in Seq(Range(t))
<1>1. CASE t = s
  <2> PICK R : R = Range(s)
    OBVIOUS
  <2>1. s \in Seq(R) /\ Range(t) = R
    BY <1>1
  <2> QED
    BY <1>1, <2>1
<1>2. ASSUME NEW x, t = Append(s, x)
      PROVE  t \in Seq(Range(t))
  <2>1. Append(s, x) \in Seq(Range(Append(s, x)))
    BY Appended
  <2> QED
    BY <1>2, <2>1, Zenon
<1> QED
  BY <1>1, <1>2

(* Trials are finite in number, and each is one of one surface.             *)
LEMMA TrialsFinite ==
    ASSUME Len(audits) \in Nat, DOMAIN audits = 1..Len(audits), NEW S
    PROVE  /\ IsFiniteSet(TrialsOn(S)) /\ Cardinality(TrialsOn(S)) \in Nat
           /\ TrialsOn({}) = {}
           /\ \A x \in S : /\ TrialsOn(S) = TrialsOn(S \ {x}) \cup TrialsOn({x})
                           /\ TrialsOn(S \ {x}) \cap TrialsOn({x}) = {}
<1>1. IsFiniteSet(1..Len(audits)) /\ TrialsOn(S) \subseteq 1..Len(audits)
  BY FS_Interval DEF TrialsOn
<1>2. IsFiniteSet(TrialsOn(S)) /\ Cardinality(TrialsOn(S)) \in Nat
  BY <1>1, FS_Subset, FS_CardinalityType
<1> QED
  BY <1>2 DEF TrialsOn

(* What is on record added up per surface counts each trial once: the sum   *)
(* is the number of trials on the surfaces together.                        *)
LEMMA TrialsBySurface ==
    ASSUME Len(audits) \in Nat, DOMAIN audits = 1..Len(audits), NEW S, IsFiniteSet(S)
    PROVE  SumFunction(OnRecord(S)) = Cardinality(TrialsOn(S))
<1> PICK g : g = OnRecord(S) /\ g = [s \in S |-> Cardinality(TrialsOn({s}))]
  BY DEF OnRecord
<1> PICK count : count = [U \in SUBSET S |-> Cardinality(TrialsOn(U))]
  OBVIOUS
<1>1. count = [U \in SUBSET S |-> count[U]] /\ DOMAIN g = S
  OBVIOUS
<1>2. count[{}] = 0
  <2>1. TrialsOn({}) = {}
    BY DEF TrialsOn
  <2> QED
    BY <2>1, FS_EmptySet
<1>3. ASSUME NEW U \in SUBSET S, NEW x \in U
      PROVE  count[U] = g[x] + count[U \ {x}]
  <2> PICK A, B, C : A = TrialsOn(U \ {x}) /\ B = TrialsOn({x}) /\ C = TrialsOn(U)
    OBVIOUS
  <2>1. /\ C = A \cup B /\ A \cap B = {}
        /\ IsFiniteSet(A) /\ IsFiniteSet(B)
    BY TrialsFinite
  <2>2. Cardinality(C) = Cardinality(A) + Cardinality(B)
    <3>1. Cardinality(A) \in Nat /\ Cardinality(B) \in Nat /\ Cardinality(A \cap B) = 0
      BY <2>1, FS_CardinalityType, FS_EmptySet
    <3>2. Cardinality(A \cup B) = Cardinality(A) + Cardinality(B) - Cardinality(A \cap B)
      BY <2>1, FS_Union
    <3> PICK a, b, c, d : /\ a = Cardinality(A) /\ b = Cardinality(B)
                          /\ c = Cardinality(A \cup B) /\ d = Cardinality(A \cap B)
      OBVIOUS
    <3>3. c = a + b
      BY <3>1, <3>2
    <3> QED
      BY <2>1, <3>3
  <2>3. Cardinality(A) \in Nat /\ Cardinality(B) \in Nat
    BY <2>1, FS_CardinalityType
  <2>4. /\ count[U] = Cardinality(C) /\ count[U \ {x}] = Cardinality(A)
        /\ g[x] = Cardinality(B)
    OBVIOUS
  <2> QED
    BY <2>2, <2>3, <2>4
<1>4. Adding(count, g)
  BY <1>1, <1>2, <1>3 DEF Adding
<1>5. SumFunction(g) = count[S]
  BY <1>1, <1>4, SumIs
<1> QED
  BY <1>5

(* What a request body may say of a book, and of its walk-forward.          *)
LEMMA BooksAre ==
    /\ \A b \in Books : /\ b.external \in Nat /\ b.end \in Date
                        /\ b.sleeves \in Seq([surface : Surfaces, from : Date])
                        /\ Len(b.sleeves) \in 2..5
    /\ \A w \in BookWalks : w.train \in 1..60 /\ w.test \in 1..24 /\ w.step \in 1..24 /\ w.n \in 1..20
<1>1. ASSUME NEW b \in Books
      PROVE  b \in [sleeves : Seq([surface : Surfaces, from : Date]), end : Date, external : Nat]
  BY BookAssumption
<1>2. ASSUME NEW w \in BookWalks
      PROVE  w \in [train : 1..60, test : 1..24, step : 1..24, n : 1..20, override : BOOLEAN]
  BY BookAssumption
<1>3. \A b \in Books : Len(b.sleeves) \in 2..5
  BY BookAssumption
<1> QED
  BY <1>1, <1>2, <1>3

LEMMA SurfacesFinite ==
    ASSUME NEW b \in Books
    PROVE  IsFiniteSet(SurfacesOf(b)) /\ SurfacesOf(b) \subseteq Surfaces
<1> DEFINE surface == [n \in 1..Len(b.sleeves) |-> b.sleeves[n].surface]
<1>1. b.sleeves \in Seq([surface : Surfaces, from : Date])
  BY BooksAre
<1>2. Len(b.sleeves) \in Nat /\ DOMAIN b.sleeves = 1..Len(b.sleeves)
  BY <1>1
<1>3. SurfacesOf(b) = {surface[n] : n \in 1..Len(b.sleeves)}
  BY <1>2 DEF SurfacesOf, Range
<1>4. IsFiniteSet(1..Len(b.sleeves))
  <2> PICK h : h = Len(b.sleeves)
    OBVIOUS
  <2>1. h \in Nat
    BY <1>2
  <2>2. IsFiniteSet(1..h)
    BY <2>1, FS_Interval
  <2> QED
    BY <2>2
<1>5. surface \in Surjection(1..Len(b.sleeves), SurfacesOf(b))
  BY <1>3 DEF Surjection
<1>6. SurfacesOf(b) \subseteq Surfaces
  <2> PICK q : q = b.sleeves
    OBVIOUS
  <2>1. \A n \in 1..Len(q) : q[n] \in [surface : Surfaces, from : Date]
    BY <1>1, ElementOfSeq
  <2> QED
    BY <1>2, <2>1 DEF SurfacesOf, Range
<1> QED
  BY <1>4, <1>5, <1>6, FS_Surjection

(* What a request has counted, or would now, over the surfaces of its book. *)
LEMMA LeastIs ==
    ASSUME audits \in Seq(Audit), NEW k \in AnalysisJob
    PROVE  /\ Cardinality(TrialsOn(SurfacesOf(k.book))) \in Nat
           /\ Least(k) \in [SurfacesOf(k.book) -> Nat] /\ SumFunction(Least(k)) \in Nat
           /\ OnRecord(SurfacesOf(k.book)) \in [SurfacesOf(k.book) -> Nat]
           /\ SumFunction(OnRecord(SurfacesOf(k.book))) = Cardinality(TrialsOn(SurfacesOf(k.book)))
           /\ (\A s \in SurfacesOf(k.book) :
                  k.counts[s] # None => k.counts[s] <= Cardinality(TrialsOn({s})))
              => SumFunction(Least(k)) <= Cardinality(TrialsOn(SurfacesOf(k.book)))
<1> PICK S, c : S = SurfacesOf(k.book) /\ c = k.counts
  OBVIOUS
<1>1. Len(audits) \in Nat /\ DOMAIN audits = 1..Len(audits)
  OBVIOUS
<1>2. IsFiniteSet(S) /\ S \subseteq Surfaces /\ c \in [Surfaces -> Nat \cup {None}]
  BY SurfacesFinite DEF AnalysisJob
<1>3. Cardinality(TrialsOn(S)) \in Nat /\ \A s \in S : Cardinality(TrialsOn({s})) \in Nat
  BY <1>1, TrialsFinite
<1>4. SumFunction(OnRecord(S)) = Cardinality(TrialsOn(S))
  BY <1>1, <1>2, TrialsBySurface
<1> PICK f, g : /\ f = [s \in S |-> IF c[s] = None THEN Cardinality(TrialsOn({s})) ELSE c[s]]
                /\ g = [s \in S |-> Cardinality(TrialsOn({s}))]
  OBVIOUS
<1>5. f \in [S -> Nat] /\ g \in [S -> Nat]
  BY <1>2, <1>3
<1>6. f = Least(k) /\ g = OnRecord(S)
  BY DEF Least, OnRecord
<1>7. SumFunction(f) \in Nat
  BY <1>2, <1>5, SumIsNatural
<1>8. ASSUME \A s \in S : c[s] # None => c[s] <= Cardinality(TrialsOn({s}))
      PROVE  SumFunction(f) <= SumFunction(g)
  <2>1. ASSUME NEW s \in S
        PROVE  f[s] <= g[s]
    <3> PICK n : n = Cardinality(TrialsOn({s}))
      OBVIOUS
    <3>1. n \in Nat /\ (c[s] # None => c[s] <= n)
      BY <1>3, <1>8
    <3>2. f[s] = (IF c[s] = None THEN n ELSE c[s]) /\ g[s] = n
      OBVIOUS
    <3> QED
      BY <3>1, <3>2
  <2> QED
    BY <1>2, <1>5, <2>1, SumGrows
<1> QED
  BY <1>3, <1>4, <1>5, <1>6, <1>7, <1>8

---------------------------------------------------------------------------
(* Handlers *)

(* A step changes the job of one handler.                                   *)
LEMMA JobUpdated ==
    ASSUME JobsShaped, NEW j \in Jobs, NEW l, job' = [job EXCEPT ![j] = l]
    PROVE  /\ DOMAIN job' = Jobs /\ job'[j] = l
           /\ \A i \in Jobs \ {j} : job'[i] = job[i]
BY DEF JobsShaped

(* A request that begins has the shape of its kind.                         *)
LEMMA RequestBegins ==
    ASSUME TypeInv, NEW j \in Jobs, Request(j)
    PROVE  /\ \E l : /\ job' = [job EXCEPT ![j] = l] /\ Shaped(l)
                     /\ l.kind = "analyze" =>
                           /\ l.evidence = <<>> /\ l.results = <<>> /\ l.trials = None
                           /\ l.seen = 0 /\ \A s \in Surfaces : l.counts[s] = None
                     /\ l.kind = "signal" => l.prior = None /\ l.seen = Cardinality(Screened(l.family))
                     /\ l.kind = "bookwalk" => RequestBookWalk(j)
                     /\ l.kind = "drain" => l = [kind |-> "drain", ticks |-> <<>>, tally |-> NewTally]
           /\ UNCHANGED <<audits, iterations, certificates, journal, digests, reviewed, crashes>>
           /\ spent' \in 0..MaxCost
<1> DEFINE Rest == /\ UNCHANGED <<audits, iterations, certificates, journal, digests,
                                  reviewed, crashes>>
                   /\ spent' \in 0..MaxCost
<1>1. ASSUME NEW l, Begin(j, l), l.kind \in Kinds
      PROVE  job' = [job EXCEPT ![j] = l] /\ Rest
  <2>1. spent \in 0..MaxCost /\ Cost[l.kind] \in Nat /\ MaxCost \in Nat
    BY <1>1, GauntletAssumption DEF TypeInv, TypeOK
  <2>2. spent' \in 0..MaxCost
    BY <1>1, <2>1 DEF Begin
  <2> QED
    BY <1>1, <2>2 DEF Begin, rows
<1>2. CASE RequestWalkForward(j)
  <2>1. PICK w, f : Begin(j, [kind |-> "walk", input |-> w, results |-> <<>>, folds |-> f])
    BY <1>2 DEF RequestWalkForward
  <2> DEFINE l == [kind |-> "walk", input |-> w, results |-> <<>>, folds |-> f]
  <2>2. Shaped(l) /\ l.kind = "walk" /\ l.kind \in Kinds
    BY DEF Shaped, Kinds
  <2> HIDE DEF l
  <2> QED
    BY <1>1, <2>1, <2>2 DEF l
<1>3. CASE RequestAnalyze(j)
  <2>1. PICK b \in Books : Begin(j, [kind |-> "analyze", book |-> b, evidence |-> <<>>,
                                     results |-> <<>>, counts |-> [s \in Surfaces |-> None],
                                     trials |-> None, seen |-> 0])
    BY <1>3 DEF RequestAnalyze
  <2> DEFINE l == [kind |-> "analyze", book |-> b, evidence |-> <<>>, results |-> <<>>,
                   counts |-> [s \in Surfaces |-> None], trials |-> None, seen |-> 0]
  <2>2. /\ Shaped(l) /\ l.kind = "analyze" /\ l.kind \in Kinds
        /\ l.evidence = <<>> /\ l.results = <<>> /\ l.trials = None /\ l.seen = 0
        /\ \A s \in Surfaces : l.counts[s] = None
    BY DEF Shaped, Kinds, AnalysisJob
  <2>3. Begin(j, l)
    BY <2>1
  <2> HIDE DEF l
  <2> QED
    BY <1>1, <2>2, <2>3
<1>4. CASE RequestBookWalk(j)
  <2>1. PICK i, b, f : Begin(j, [kind |-> "bookwalk", iteration |-> i, book |-> b, folds |-> f,
                                 results |-> <<>>, parts |-> <<>>, part |-> <<>>])
    BY <1>4 DEF RequestBookWalk
  <2> DEFINE l == [kind |-> "bookwalk", iteration |-> i, book |-> b, folds |-> f,
                   results |-> <<>>, parts |-> <<>>, part |-> <<>>]
  <2>2. Shaped(l) /\ l.kind = "bookwalk" /\ l.kind \in Kinds
    BY DEF Shaped, Kinds
  <2>3. Begin(j, l)
    BY <2>1
  <2> HIDE DEF l
  <2> QED
    BY <1>1, <1>4, <2>2, <2>3
<1>5. CASE RequestCrossWindow(j)
  <2>1. PICK first : Begin(j, [kind |-> "cross", first |-> first, results |-> <<>>])
    BY <1>5 DEF RequestCrossWindow
  <2> DEFINE l == [kind |-> "cross", first |-> first, results |-> <<>>]
  <2>2. Shaped(l) /\ l.kind = "cross" /\ l.kind \in Kinds
    BY DEF Shaped, Kinds
  <2>3. Begin(j, l)
    BY <2>1
  <2> HIDE DEF l
  <2> QED
    BY <1>1, <2>2, <2>3
<1>6. CASE RequestNullScreen(j)
  <2>1. PICK s \in Surfaces : Begin(j, [kind |-> "null", surface |-> s, results |-> <<>>,
                                        owes |-> FALSE])
    BY <1>6 DEF RequestNullScreen
  <2> DEFINE l == [kind |-> "null", surface |-> s, results |-> <<>>, owes |-> FALSE]
  <2>2. Shaped(l) /\ l.kind = "null" /\ l.kind \in Kinds
    BY DEF Shaped, Kinds
  <2>3. Begin(j, l)
    BY <2>1
  <2> HIDE DEF l
  <2> QED
    BY <1>1, <2>2, <2>3
<1>7. CASE RequestSignalScreen(j)
  <2>1. PICK f \in Families : Begin(j, [kind |-> "signal", family |-> f, prior |-> None,
                                        seen |-> Cardinality(Screened(f))])
    BY <1>7 DEF RequestSignalScreen
  <2> PICK n : n = Cardinality(Screened(f))
    OBVIOUS
  <2> DEFINE l == [kind |-> "signal", family |-> f, prior |-> None, seen |-> n]
  <2>2. n \in Nat
    <3>1. IsFiniteSet(1..Len(journal)) /\ Screened(f) \subseteq 1..Len(journal)
      BY FS_Interval DEF TypeInv, RowsTyped, Screened
    <3> QED
      BY <3>1, FS_Subset, FS_CardinalityType
  <2>3. /\ Shaped(l) /\ l.kind = "signal" /\ l.kind \in Kinds
        /\ l.prior = None /\ l.seen = n /\ l.family = f
    BY <2>2 DEF Shaped, Kinds, ScreenJob
  <2>4. Begin(j, l)
    BY <2>1
  <2> HIDE DEF l
  <2> QED
    BY <1>1, <2>3, <2>4
<1>8. CASE RequestCapacitySweep(j)
  <2> DEFINE l == [kind |-> "capacity", results |-> <<>>]
  <2>1. Shaped(l) /\ l.kind = "capacity" /\ l.kind \in Kinds
    BY DEF Shaped, Kinds
  <2>2. Begin(j, l)
    BY <1>8 DEF RequestCapacitySweep
  <2> HIDE DEF l
  <2> QED
    BY <1>1, <2>1, <2>2
<1>9. CASE RequestDrain(j)
  <2> DEFINE l == [kind |-> "drain", ticks |-> <<>>, tally |-> NewTally]
  <2>1. /\ Shaped(l) /\ l.kind = "drain" /\ l.kind \in Kinds
        /\ l = [kind |-> "drain", ticks |-> <<>>, tally |-> NewTally]
    BY DEF Shaped, Kinds
  <2>2. Begin(j, l)
    BY <1>9 DEF RequestDrain
  <2> HIDE DEF l
  <2> QED
    BY <1>1, <2>1, <2>2
<1> QED
  BY <1>2, <1>3, <1>4, <1>5, <1>6, <1>7, <1>8, <1>9 DEF Request

(* A handler that notes something more keeps the shape of its kind.         *)
Noting(k, l) ==
    \E x, y, z : \/ l = [k EXCEPT !.results = x]
                 \/ l = [k EXCEPT !.part = x]
                 \/ l = [k EXCEPT !.owes = x]
                 \/ l = [k EXCEPT !.part = x, !.parts = y, !.results = z]
                 \/ l = [k EXCEPT !.results = x, !.owes = y]
                 \/ l = [k EXCEPT !.ticks = x, !.tally = y]

LEMMA NotesKeepShape ==
    ASSUME NEW k, Shaped(k), k.kind \notin {"analyze", "signal"}, NEW l, Noting(k, l)
    PROVE  Shaped(l) /\ l.kind = k.kind
<1> DEFINE Like == /\ DOMAIN l = DOMAIN k
                   /\ "kind" \in DOMAIN k => l.kind = k.kind
                   /\ "surface" \in DOMAIN k => l.surface = k.surface
<1>1. Like => Shaped(l) /\ l.kind = k.kind
  BY DEF Shaped
<1>2. PICK x, y, z : \/ l = [k EXCEPT !.results = x]
                     \/ l = [k EXCEPT !.part = x]
                     \/ l = [k EXCEPT !.owes = x]
                     \/ l = [k EXCEPT !.part = x, !.parts = y, !.results = z]
                     \/ l = [k EXCEPT !.results = x, !.owes = y]
                     \/ l = [k EXCEPT !.ticks = x, !.tally = y]
  BY DEF Noting
<1>3. ASSUME l = [k EXCEPT !.results = x] PROVE Like
  BY <1>3
<1>4. ASSUME l = [k EXCEPT !.part = x] PROVE Like
  BY <1>4
<1>5. ASSUME l = [k EXCEPT !.owes = x] PROVE Like
  BY <1>5
<1>6. ASSUME l = [k EXCEPT !.part = x, !.parts = y, !.results = z] PROVE Like
  BY <1>6
<1>7. ASSUME l = [k EXCEPT !.results = x, !.owes = y] PROVE Like
  BY <1>7
<1>8. ASSUME l = [k EXCEPT !.ticks = x, !.tally = y] PROVE Like
  BY <1>8
<1> HIDE DEF Like
<1> QED
  BY <1>1, <1>2, <1>3, <1>4, <1>5, <1>6, <1>7, <1>8

(* What the other certifications do; none of them touches a book's rows.    *)
OtherWork(j) ==
    \/ RunFold(j) \/ InsertWalkForward(j) \/ RunSleeveOfFold(j) \/ CloseFold(j)
    \/ InsertBookWalk(j) \/ RunWindow(j) \/ InsertCrossWindow(j) \/ RunDraw(j) \/ AuditDraw(j)
    \/ ConcludeNullScreen(j) \/ RunScale(j) \/ PersistSweep(j) \/ RunTick(j) \/ StopDrain(j)

Moved(j) ==
    /\ \E l : /\ job' = [job EXCEPT ![j] = l]
              /\ l = None \/ (Shaped(l) /\ l.kind = job[j].kind /\ l.kind \notin {"analyze", "signal"})
    /\ UNCHANGED <<reviewed, spent, crashes>>

(* One note of such a handler.                                              *)
LEMMA Noted ==
    ASSUME TypeInv, NEW j \in Jobs, NEW kind \in Kinds \ {"analyze", "signal"}, Working(j, kind),
           NEW l, Noting(job[j], l), Advance(j, l)
    PROVE  Moved(j)
<1> PICK k : k = job[j]
  OBVIOUS
<1>1. Shaped(k) /\ k.kind = kind
  BY DEF Working, TypeInv, JobsShaped
<1>2. Shaped(l) /\ l.kind = kind
  BY <1>1, NotesKeepShape
<1>3. l.kind = job[j].kind /\ l.kind \notin {"analyze", "signal"}
  BY <1>1, <1>2
<1> QED
  BY <1>2, <1>3 DEF Moved, Advance

LEMMA Ended ==
    ASSUME NEW j, End(j)
    PROVE  Moved(j)
BY DEF End, Advance, Moved

LEMMA OtherWorkMoves ==
    ASSUME TypeInv, NEW j \in Jobs, OtherWork(j)
    PROVE  Moved(j) /\ UNCHANGED iterations
<1>1. CASE RunFold(j)
  <2>1. PICK x : Working(j, "walk") /\ Advance(j, [job[j] EXCEPT !.results = x])
    BY <1>1 DEF RunFold
  <2>2. Moved(j)
    BY <2>1, Noted DEF Kinds, Noting
  <2> QED
    BY <1>1, <2>2 DEF RunFold, rows
<1>2. CASE RunWindow(j)
  <2>1. PICK x : Working(j, "cross") /\ Advance(j, [job[j] EXCEPT !.results = x])
    BY <1>2 DEF RunWindow
  <2>2. Moved(j)
    BY <2>1, Noted DEF Kinds, Noting
  <2> QED
    BY <1>2, <2>2 DEF RunWindow, rows
<1>3. CASE RunScale(j)
  <2>1. PICK x : Working(j, "capacity") /\ Advance(j, [job[j] EXCEPT !.results = x])
    BY <1>3 DEF RunScale
  <2>2. Moved(j)
    BY <2>1, Noted DEF Kinds, Noting
  <2> QED
    BY <1>3, <2>2 DEF RunScale, rows
<1>4. CASE RunSleeveOfFold(j)
  <2>1. Working(j, "bookwalk") /\ \E x : Advance(j, [job[j] EXCEPT !.part = x])
    BY <1>4 DEF RunSleeveOfFold
  <2>2. PICK x : Advance(j, [job[j] EXCEPT !.part = x])
    BY <2>1
  <2>3. Moved(j)
    BY <2>1, <2>2, Noted DEF Kinds, Noting
  <2> QED
    BY <1>4, <2>3 DEF RunSleeveOfFold, rows
<1>5. CASE CloseFold(j)
  <2>1. PICK x, y : /\ Working(j, "bookwalk")
                    /\ Advance(j, [job[j] EXCEPT !.part = <<>>, !.parts = x, !.results = y])
    BY <1>5 DEF CloseFold
  <2>2. Moved(j)
    BY <2>1, Noted DEF Kinds, Noting
  <2> QED
    BY <1>5, <2>2 DEF CloseFold, rows
<1>6. CASE RunDraw(j)
  <2>1. PICK x, y : Working(j, "null") /\ Advance(j, [job[j] EXCEPT !.results = x, !.owes = y])
    BY <1>6 DEF RunDraw
  <2>2. Moved(j)
    BY <2>1, Noted DEF Kinds, Noting
  <2> QED
    BY <1>6, <2>2 DEF RunDraw, rows
<1>7. CASE AuditDraw(j)
  <2>1. Working(j, "null") /\ Advance(j, [job[j] EXCEPT !.owes = FALSE])
    BY <1>7 DEF AuditDraw
  <2>2. Moved(j)
    BY <2>1, Noted DEF Kinds, Noting
  <2> QED
    BY <1>7, <2>2 DEF AuditDraw
<1>8. CASE RunTick(j)
  <2>1. PICK t : IF NextAction(t) = "CONTINUE"
                 THEN /\ Working(j, "drain")
                      /\ Advance(j, [job[j] EXCEPT !.ticks = Append(job[j].ticks, t),
                                                   !.tally = Account(job[j].tally, t)])
                      /\ UNCHANGED rows
                 ELSE Answer(j, Append(job[j].ticks, t), Account(job[j].tally, t), NextAction(t))
    BY <1>8 DEF RunTick
  <2>2. CASE NextAction(t) = "CONTINUE"
    <3>1. Moved(j)
      BY <2>1, <2>2, Noted DEF Kinds, Noting
    <3> QED
      BY <2>1, <2>2, <3>1 DEF rows
  <2>3. CASE NextAction(t) # "CONTINUE"
    BY <2>1, <2>3, Ended DEF Answer
  <2> QED
    BY <2>2, <2>3
<1>9. CASE StopDrain(j)
  BY <1>9, Ended DEF StopDrain, Answer
<1>10. CASE InsertWalkForward(j) \/ InsertBookWalk(j) \/ InsertCrossWindow(j)
              \/ ConcludeNullScreen(j) \/ PersistSweep(j)
  BY <1>10, Ended DEF InsertWalkForward, InsertBookWalk, InsertCrossWindow, ConcludeNullScreen,
     PersistSweep
<1> QED
  BY <1>1, <1>2, <1>3, <1>4, <1>5, <1>6, <1>7, <1>8, <1>9, <1>10 DEF OtherWork

(* And the rows it writes: one at most, and no book's.                      *)
Certified(c) ==
    /\ c.kind \in {"walk", "bookwalk", "cross", "capacity"}
    /\ c.kind \in {"walk", "bookwalk"} => c.verdict \in Verdicts
    /\ c.kind \in {"walk", "bookwalk"} => Len(c.folds) = Len(c.results)

Entered(e) ==
    e.kind = "signal" => e.seen <= e.prior /\ e.prior <= Cardinality(Screened(e.family))

Wrote ==
    /\ audits' = audits \/ \E s \in Surfaces : audits' = Append(audits, Trial(s, TRUE))
    /\ certificates' = certificates
          \/ \E c : Certified(c) /\ certificates' = Append(certificates, c)
    /\ journal' = journal \/ \E e : Entered(e) /\ journal' = Append(journal, e)
    /\ digests' = digests \/ \E d : digests' = Append(digests, d)

LEMMA VerdictsAre ==
    /\ \A r : StabilityVerdict(r) \in Verdicts
    /\ \A r, d, e, s : WalkForwardVerdict(r, d, e, s) \in Verdicts
<1>1. ASSUME NEW r
      PROVE  StabilityVerdict(r) \in Verdicts
  BY DEF StabilityVerdict, Verdicts
<1>2. ASSUME NEW r, NEW e, NEW s
      PROVE  LowFreqVerdict(r, e, s) \in Verdicts
  BY DEF LowFreqVerdict, Verdicts
<1> QED
  BY <1>1, <1>2 DEF WalkForwardVerdict

LEMMA OtherWorkWrites ==
    ASSUME TypeInv, NEW j \in Jobs, OtherWork(j)
    PROVE  Wrote
<1>1. CASE UNCHANGED rows
  BY <1>1 DEF rows, Wrote
<1>2. CASE InsertWalkForward(j)
  <2>1. PICK c : /\ certificates' = Append(certificates, c) /\ Certified(c)
                 /\ UNCHANGED <<audits, iterations, journal, digests>>
    <3> PICK results, folds, input : results = job[j].results /\ folds = job[j].folds
                                     /\ input = job[j].input
      OBVIOUS
    <3>1. PICK enough, significant \in BOOLEAN :
             certificates' = Append(certificates,
                [kind |-> "walk", iteration |-> input.iteration, folds |-> folds,
                 results |-> results,
                 verdict |-> WalkForwardVerdict(results, input.daily, enough, significant)])
      BY <1>2 DEF InsertWalkForward
    <3>2. PICK v : v = WalkForwardVerdict(results, input.daily, enough, significant)
      OBVIOUS
    <3>3. v \in Verdicts
      BY <3>2, VerdictsAre
    <3>4. Len(results) = Len(folds) /\ UNCHANGED <<audits, iterations, journal, digests>>
      BY <1>2 DEF InsertWalkForward
    <3> DEFINE c == [kind |-> "walk", iteration |-> input.iteration, folds |-> folds,
                     results |-> results, verdict |-> v]
    <3>5. Certified(c)
      BY <3>3, <3>4 DEF Certified
    <3>6. certificates' = Append(certificates, c)
      BY <3>1, <3>2
    <3> HIDE DEF c
    <3> QED
      BY <3>4, <3>5, <3>6
  <2> QED
    BY <2>1 DEF Wrote
<1>3. CASE InsertBookWalk(j)
  <2> PICK results, folds, parts, i, v : /\ results = job[j].results /\ folds = job[j].folds
                                         /\ parts = job[j].parts /\ i = job[j].iteration
                                         /\ v = StabilityVerdict(results)
    OBVIOUS
  <2> DEFINE c == [kind |-> "bookwalk", iteration |-> i, folds |-> folds, parts |-> parts,
                   results |-> results, verdict |-> v]
  <2>1. v \in Verdicts
    BY VerdictsAre
  <2>2. /\ certificates' = Append(certificates, c) /\ Len(results) = Len(folds)
        /\ UNCHANGED <<audits, iterations, journal, digests>>
    BY <1>3 DEF InsertBookWalk
  <2>3. Certified(c)
    BY <2>1, <2>2 DEF Certified
  <2> HIDE DEF c
  <2> QED
    BY <2>2, <2>3 DEF Wrote
<1>4. CASE InsertCrossWindow(j)
  <2> PICK results, v : results = job[j].results /\ v = CrossWindowVerdict(results)
    OBVIOUS
  <2> DEFINE c == [kind |-> "cross", results |-> results, verdict |-> v]
  <2>1. /\ certificates' = Append(certificates, c)
        /\ UNCHANGED <<audits, iterations, journal, digests>>
    BY <1>4 DEF InsertCrossWindow
  <2>2. Certified(c)
    BY DEF Certified
  <2> HIDE DEF c
  <2> QED
    BY <2>1, <2>2 DEF Wrote
<1>5. CASE PersistSweep(j)
  <2> DEFINE results == job[j].results
             viable == MaxViable(results)
             c == [kind |-> "capacity", results |-> results, viable |-> viable,
                   verdict |-> JudgeVerdict(EdgeDecay(results), viable, Floor),
                   atFloor |-> EdgeAtFloor(results, Floor),
                   atMax |-> IF viable = None THEN None ELSE EdgeAt(results, viable)]
  <2>1. /\ certificates' = Append(certificates, c) \/ UNCHANGED certificates
        /\ UNCHANGED <<audits, iterations, journal, digests>>
    BY <1>5, Zenon DEF PersistSweep
  <2>2. c.kind = "capacity"
    OBVIOUS
  <2> HIDE DEF c
  <2>3. Certified(c)
    BY <2>2 DEF Certified
  <2> QED
    BY <2>1, <2>3 DEF Wrote
<1>6. CASE AuditDraw(j)
  <2>1. job[j].surface \in Surfaces
    BY <1>6 DEF AuditDraw, Working, TypeInv, JobsShaped, Shaped
  <2> QED
    BY <1>6, <2>1 DEF AuditDraw, Wrote
<1>7. CASE ConcludeNullScreen(j)
  <2> DEFINE verdict == IF Bails(job[j].results) THEN "INSUFFICIENT_DATA"
                        ELSE NullScreenVerdict(job[j].results, Draws)
             e == [kind |-> "null", verdict |-> verdict, type |-> JournalTypeOfNullScreen(verdict)]
  <2>1. /\ journal' = Append(journal, e)
        /\ UNCHANGED <<audits, iterations, certificates, digests>>
    BY <1>7, Zenon DEF ConcludeNullScreen
  <2>2. e.kind = "null"
    OBVIOUS
  <2> HIDE DEF e
  <2> QED
    BY <2>1, <2>2 DEF Wrote, Entered
<1>8. CASE RunTick(j) \/ StopDrain(j)
  <2>1. ASSUME NEW t, NEW y, NEW q, Answer(j, t, y, q)
        PROVE  Wrote
    <3>1. \E d : digests' = Append(digests, d)
      BY <2>1, Zenon DEF Answer
    <3> QED
      BY <2>1, <3>1 DEF Answer, Wrote
  <2> QED
    BY <1>1, <1>8, <2>1 DEF RunTick, StopDrain
<1>9. CASE \/ RunFold(j) \/ RunSleeveOfFold(j) \/ CloseFold(j) \/ RunWindow(j) \/ RunDraw(j)
           \/ RunScale(j)
  <2>1. UNCHANGED rows
    BY <1>9 DEF RunFold, RunSleeveOfFold, CloseFold, RunWindow, RunDraw, RunScale
  <2> QED
    BY <1>1, <2>1
<1> QED
  BY <1>2, <1>3, <1>4, <1>5, <1>6, <1>7, <1>8, <1>9 DEF OtherWork

(* A screen is counted by every screen of its family that comes after it.   *)
LEMMA ScreensGrow ==
    ASSUME TypeInv, journal' = journal \/ \E e : journal' = Append(journal, e)
    PROVE  /\ DOMAIN journal = 1..Len(journal) /\ DOMAIN journal' = 1..Len(journal')
           /\ Len(journal) \in Nat /\ Len(journal') \in Nat /\ Len(journal) <= Len(journal')
           /\ \A i \in 1..Len(journal) : journal'[i] = journal[i]
           /\ \A f : /\ Cardinality(Screened(f)) \in Nat /\ Cardinality(Screened(f)') \in Nat
                     /\ Cardinality(Screened(f)) <= Cardinality(Screened(f)')
                     /\ \A i \in 1..(Len(journal) + 1) :
                           {k \in Screened(f)' : k < i} = {k \in Screened(f) : k < i}
<1>1. /\ DOMAIN journal = 1..Len(journal) /\ DOMAIN journal' = 1..Len(journal')
      /\ Len(journal) \in Nat /\ Len(journal') \in Nat /\ Len(journal) <= Len(journal')
      /\ \A i \in 1..Len(journal) : journal'[i] = journal[i]
  <2>1. journal \in Seq(Range(journal))
    BY DEF TypeInv, RowsTyped
  <2> PICK s, t : s = journal /\ t = journal'
    OBVIOUS
  <2>2. s \in Seq(Range(s)) /\ (t = s \/ \E e : t = Append(s, e))
    BY <2>1
  <2>3. /\ DOMAIN s = 1..Len(s) /\ DOMAIN t = 1..Len(t) /\ Len(s) \in Nat /\ Len(t) \in Nat
        /\ Len(s) <= Len(t) /\ \A i \in 1..Len(s) : t[i] = s[i]
    BY <2>2, Appended
  <2> QED
    BY <2>3
<1>2. ASSUME NEW f
      PROVE  /\ Cardinality(Screened(f)) \in Nat /\ Cardinality(Screened(f)') \in Nat
             /\ Cardinality(Screened(f)) <= Cardinality(Screened(f)')
             /\ \A i \in 1..(Len(journal) + 1) :
                   {k \in Screened(f)' : k < i} = {k \in Screened(f) : k < i}
  <2>1. Screened(f) \subseteq Screened(f)'
    <3> SUFFICES ASSUME NEW k \in Screened(f)
                 PROVE  k \in Screened(f)'
      OBVIOUS
    <3>1. k \in 1..Len(journal) /\ journal[k].kind = "signal" /\ journal[k].family = f
      BY <1>1 DEF Screened
    <3> PICK n, m : n = Len(journal) /\ m = Len(journal')
      OBVIOUS
    <3>2. k \in 1..m /\ journal'[k] = journal[k]
      BY <1>1, <3>1
    <3>3. k \in DOMAIN journal'
      BY <1>1, <3>2, Zenon
    <3> QED
      BY <3>1, <3>2, <3>3 DEF Screened
  <2>2. Screened(f) \subseteq 1..Len(journal) /\ Screened(f)' \subseteq 1..Len(journal')
    BY <1>1 DEF Screened
  <2>3. IsFiniteSet(Screened(f)) /\ IsFiniteSet(Screened(f)')
    <3> PICK n, m : n = Len(journal) /\ m = Len(journal')
      OBVIOUS
    <3>1. IsFiniteSet(1..n) /\ IsFiniteSet(1..m)
      BY <1>1, FS_Interval
    <3> QED
      BY <2>2, <3>1, FS_Subset
  <2>4. \A i \in 1..(Len(journal) + 1), k \in 1..Len(journal') :
           k < i => (k \in Screened(f)' <=> k \in Screened(f))
    <3> SUFFICES ASSUME NEW i \in 1..(Len(journal) + 1), NEW k \in 1..Len(journal'), k < i
                 PROVE  k \in Screened(f)' <=> k \in Screened(f)
      OBVIOUS
    <3> PICK n, m : n = Len(journal) /\ m = Len(journal')
      OBVIOUS
    <3>1. k \in 1..n /\ k \in 1..m /\ journal'[k] = journal[k]
      BY <1>1
    <3>2. k \in DOMAIN journal /\ k \in DOMAIN journal'
      BY <1>1, <3>1, Zenon
    <3> QED
      BY <3>1, <3>2 DEF Screened
  <2>5. \A i \in 1..(Len(journal) + 1) :
           {k \in Screened(f)' : k < i} = {k \in Screened(f) : k < i}
    BY <1>1, <2>1, <2>2, <2>4
  <2> QED
    BY <2>1, <2>3, <2>5, FS_Subset, FS_CardinalityType
<1> QED
  BY <1>1, <1>2

(* A step that leaves the certifications of books where they are, but for   *)
(* requests that begin or end.                                              *)
Fresh(k) ==
    /\ k.kind = "analyze" =>
          /\ k.evidence = <<>> /\ k.results = <<>> /\ k.trials = None /\ k.seen = 0
          /\ \A s \in Surfaces : k.counts[s] = None
    /\ k.kind = "signal" => Compared(k)

Kept(i) == job'[i] = job[i] \/ job'[i] = None \/ (Shaped(job'[i]) /\ Fresh(job'[i]))

QuietStep ==
    /\ DOMAIN job' = Jobs /\ \A i \in Jobs : Kept(i)
    /\ Wrote /\ UNCHANGED iterations
    /\ reviewed' \subseteq DOMAIN TickTrades \cup DOMAIN iterations
    /\ spent' \in 0..MaxCost /\ crashes' \in 0..MaxCrashes

LEMMA QuietSteps ==
    ASSUME TypeInv, CountInv,
           \/ \E j \in Jobs : \/ Request(j) \/ OtherWork(j)
                              \/ CountScreens(j) \/ InsertScreen(j)
                              \/ End(j) /\ UNCHANGED rows
           \/ GrantReview \/ Crash \/ UNCHANGED vars
    PROVE  QuietStep
<1>1. /\ JobsShaped /\ reviewed \subseteq DOMAIN TickTrades \cup DOMAIN iterations
      /\ spent \in 0..MaxCost /\ crashes \in 0..MaxCrashes
  BY DEF TypeInv, TypeOK
<1>2. ASSUME NEW j \in Jobs, NEW l, job' = [job EXCEPT ![j] = l],
             l = None \/ (Shaped(l) /\ Fresh(l))
      PROVE  DOMAIN job' = Jobs /\ \A i \in Jobs : Kept(i)
  <2>1. DOMAIN job' = Jobs /\ job'[j] = l /\ \A i \in Jobs \ {j} : job'[i] = job[i]
    BY <1>1, <1>2, JobUpdated
  <2> QED
    BY <1>2, <2>1 DEF Kept
<1>3. ASSUME NEW j \in Jobs, Request(j)
      PROVE  QuietStep
  <2>1. PICK l : job' = [job EXCEPT ![j] = l] /\ Shaped(l) /\ Fresh(l)
    <3>1. PICK l : /\ job' = [job EXCEPT ![j] = l] /\ Shaped(l)
                   /\ l.kind = "analyze" =>
                         /\ l.evidence = <<>> /\ l.results = <<>> /\ l.trials = None
                         /\ l.seen = 0 /\ \A s \in Surfaces : l.counts[s] = None
                   /\ l.kind = "signal" =>
                         l.prior = None /\ l.seen = Cardinality(Screened(l.family))
      BY <1>3, RequestBegins
    <3>2. l.kind = "signal" => l.seen \in Nat
      BY <3>1 DEF Shaped, ScreenJob
    <3>3. l.kind = "signal" => Compared(l)
      <4> PICK n : n = Cardinality(Screened(l.family))
        OBVIOUS
      <4> SUFFICES ASSUME l.kind = "signal"
                   PROVE  Compared(l)
        OBVIOUS
      <4>1. l.prior = None /\ l.seen <= n
        BY <3>1, <3>2
      <4> QED
        BY <4>1 DEF Compared
    <3> QED
      BY <3>1, <3>3 DEF Fresh
  <2>2. DOMAIN job' = Jobs /\ \A i \in Jobs : Kept(i)
    BY <1>2, <2>1
  <2> QED
    BY <1>1, <1>3, <2>2, RequestBegins DEF QuietStep, Wrote
<1>4. ASSUME NEW j \in Jobs, OtherWork(j)
      PROVE  QuietStep
  <2>1. Moved(j) /\ UNCHANGED iterations /\ Wrote
    BY <1>4, OtherWorkMoves, OtherWorkWrites
  <2>2. PICK l : job' = [job EXCEPT ![j] = l] /\ (l = None \/ (Shaped(l) /\ Fresh(l)))
    BY <2>1 DEF Moved, Fresh
  <2>3. DOMAIN job' = Jobs /\ \A i \in Jobs : Kept(i)
    BY <1>2, <2>2
  <2> QED
    BY <1>1, <2>1, <2>3 DEF QuietStep, Moved
<1>5. ASSUME NEW j \in Jobs, CountScreens(j)
      PROVE  QuietStep
  <2> PICK k : k = job[j]
    OBVIOUS
  <2> PICK n : n = Cardinality(Screened(k.family))
    OBVIOUS
  <2> DEFINE l == [k EXCEPT !.prior = n]
  <2>1. k \in ScreenJob /\ Compared(k)
    BY <1>5 DEF CountScreens, Working, TypeInv, JobsShaped, Shaped, CountInv
  <2>2. n \in Nat
    BY ScreensGrow, <1>5 DEF CountScreens, rows
  <2>3. /\ l \in ScreenJob /\ "kind" \in DOMAIN l /\ l.kind = "signal"
        /\ l.prior = n /\ l.seen = k.seen /\ l.family = k.family
    BY <2>1, <2>2 DEF ScreenJob
  <2>4. job' = [job EXCEPT ![j] = l] /\ UNCHANGED <<rows, reviewed, spent, crashes>>
    BY <1>5 DEF CountScreens, Advance
  <2> HIDE DEF l
  <2>5. Shaped(l)
    BY <2>3 DEF Shaped, Kinds
  <2>6. Compared(l)
    BY <2>1, <2>2, <2>3 DEF Compared, ScreenJob
  <2>7. Fresh(l)
    BY <2>3, <2>6 DEF Fresh
  <2>8. DOMAIN job' = Jobs /\ \A i \in Jobs : Kept(i)
    BY <1>2, <2>4, <2>5, <2>7
  <2> QED
    BY <1>1, <2>4, <2>8 DEF QuietStep, Wrote, rows
<1>6. ASSUME NEW j \in Jobs, End(j)
      PROVE  /\ DOMAIN job' = Jobs /\ \A i \in Jobs : Kept(i)
             /\ UNCHANGED <<reviewed, spent, crashes>>
  BY <1>2, <1>6 DEF End, Advance
<1>7. ASSUME NEW j \in Jobs, InsertScreen(j)
       PROVE  QuietStep
  <2> PICK k : k = job[j]
    OBVIOUS
  <2>1. PICK v : journal' = Append(journal,
                    [kind |-> "signal", family |-> k.family, prior |-> k.prior, seen |-> k.seen,
                     verdict |-> v, type |-> JournalTypeOfScreen(v)])
    BY <1>7 DEF InsertScreen
  <2> PICK t : t = JournalTypeOfScreen(v)
    OBVIOUS
  <2> DEFINE e == [kind |-> "signal", family |-> k.family, prior |-> k.prior, seen |-> k.seen,
                   verdict |-> v, type |-> t]
  <2>2. k \in ScreenJob /\ Compared(k) /\ k.prior # None
    BY <1>7 DEF InsertScreen, Working, TypeInv, JobsShaped, Shaped, CountInv
  <2>3. k.seen <= k.prior /\ k.prior <= Cardinality(Screened(k.family))
    <3> PICK n : n = Cardinality(Screened(k.family))
      OBVIOUS
    <3>1. k.prior \in k.seen..n /\ k.seen \in Nat /\ k.prior \in Nat
      BY <2>2 DEF Compared, ScreenJob
    <3> QED
      BY <3>1
  <2>4. Entered(e)
    BY <2>3 DEF Entered
  <2>5. journal' = Append(journal, e)
    BY <2>1
  <2> HIDE DEF e
  <2>6. Wrote /\ UNCHANGED iterations
    BY <1>7, <2>4, <2>5 DEF InsertScreen, Wrote
  <2> QED
    BY <1>1, <1>6, <1>7, <2>6 DEF QuietStep, InsertScreen
<1>8. ASSUME NEW j \in Jobs, End(j), UNCHANGED rows
       PROVE  QuietStep
  BY <1>1, <1>6, <1>8 DEF QuietStep, Wrote, rows
<1>9. CASE GrantReview
  BY <1>1, <1>9 DEF GrantReview, QuietStep, Wrote, Kept, JobsShaped, rows
<1>10. CASE Crash
  <2>1. crashes' \in 0..MaxCrashes
    BY <1>1, <1>10, GauntletAssumption DEF Crash
  <2> QED
    BY <1>1, <1>10, <2>1 DEF Crash, QuietStep, Wrote, Kept, rows
<1>11. CASE UNCHANGED vars
  BY <1>1, <1>11 DEF vars, QuietStep, Wrote, Kept, JobsShaped
<1> QED
  BY <1>3, <1>4, <1>9, <1>10, <1>11, <1>5, <1>7, <1>8

---------------------------------------------------------------------------
(* The tables grow *)

(* An audit is added to the table or none is.                               *)
Extended ==
    /\ audits' \in Seq(Audit) /\ Len(audits) <= Len(audits')
    /\ \A a \in 1..Len(audits) : audits'[a] = audits[a]
    /\ \A a \in 1..Len(audits') : a \notin 1..Len(audits) => audits'[a].iteration = None

LEMMA AuditsExtended ==
    ASSUME TypeInv,
           \/ audits' = audits
           \/ \E s \in Surfaces, d \in BOOLEAN : audits' = Append(audits, Trial(s, d))
    PROVE  Extended
<1>1. audits \in Seq(Audit) /\ Len(audits) \in Nat
  BY DEF TypeInv, RowsTyped
<1>2. CASE audits' = audits
  BY <1>1, <1>2 DEF Extended
<1>3. CASE \E s \in Surfaces, d \in BOOLEAN : audits' = Append(audits, Trial(s, d))
  <2>1. PICK s \in Surfaces, d \in BOOLEAN : audits' = Append(audits, Trial(s, d))
    BY <1>3
  <2>2. PICK t : t = Trial(s, d)
    OBVIOUS
  <2>3. t \in Audit /\ t.iteration = None
    BY <2>2 DEF Trial, Audit
  <2>4. audits' = Append(audits, t)
    BY <2>1, <2>2
  <2>5. /\ audits' \in Seq(Audit) /\ Len(audits') = Len(audits) + 1
        /\ \A a \in 1..Len(audits) : audits'[a] = audits[a]
        /\ audits'[Len(audits) + 1] = t
    BY <1>1, <2>3, <2>4, AppendProperties
  <2> QED
    BY <1>1, <2>3, <2>5 DEF Extended
<1> QED
  BY <1>2, <1>3

(* Trials that were on record stay so.                                      *)
LEMMA TrialsGrow ==
    ASSUME TypeInv, Extended, NEW S
    PROVE  /\ TrialsOn(S) \subseteq TrialsOn(S)' /\ IsFiniteSet(TrialsOn(S)')
           /\ Cardinality(TrialsOn(S)) \in Nat /\ Cardinality(TrialsOn(S)') \in Nat
           /\ Cardinality(TrialsOn(S)) <= Cardinality(TrialsOn(S)')
<1>1. /\ Len(audits) \in Nat /\ DOMAIN audits = 1..Len(audits)
      /\ Len(audits') \in Nat /\ DOMAIN audits' = 1..Len(audits')
  BY DEF TypeInv, RowsTyped, Extended
<1>2. TrialsOn(S) \subseteq TrialsOn(S)'
  BY <1>1 DEF TrialsOn, CountsAsTrial, Extended
<1>3. TrialsOn(S) \subseteq 1..Len(audits) /\ TrialsOn(S)' \subseteq 1..Len(audits')
  BY <1>1 DEF TrialsOn
<1>4. IsFiniteSet(TrialsOn(S)) /\ IsFiniteSet(TrialsOn(S)')
  <2>1. IsFiniteSet(1..Len(audits)) /\ IsFiniteSet(1..Len(audits'))
    <3> PICK n, m : n = Len(audits) /\ m = Len(audits')
      OBVIOUS
    <3> QED
      BY <1>1, FS_Interval
  <2> QED
    BY <1>3, <2>1, FS_Subset
<1> QED
  BY <1>2, <1>4, FS_Subset, FS_CardinalityType

(* A book's evidence stays in place when an audit is added.                 *)
LEMMA EvidenceKept ==
    ASSUME TypeInv, Extended, UNCHANGED iterations
    PROVE  /\ BookEvidence => BookEvidence'
           /\ \A k : InHand(k) => InHand(k)'
<1>1. /\ Len(audits) \in Nat /\ DOMAIN audits = 1..Len(audits)
      /\ Len(audits') \in Nat /\ DOMAIN audits' = 1..Len(audits')
      /\ Len(audits) <= Len(audits')
  BY DEF TypeInv, RowsTyped, Extended
<1>2. ASSUME NEW k, InHand(k)
      PROVE  InHand(k)'
  <2>1. ASSUME NEW n \in 1..Len(k.evidence)
        PROVE  /\ k.evidence[n] \in 1..Len(audits')
               /\ audits'[k.evidence[n]] = Trial(k.book.sleeves[n].surface, FALSE)
    <3> PICK a, t : a = k.evidence[n] /\ t = Trial(k.book.sleeves[n].surface, FALSE)
      OBVIOUS
    <3>1. a \in 1..Len(audits) /\ audits[a] = t
      BY <1>2 DEF InHand
    <3>2. audits'[a] = audits[a]
      BY <3>1 DEF Extended
    <3>3. a \in 1..Len(audits')
      BY <1>1, <3>1
    <3> QED
      BY <3>1, <3>2, <3>3
  <2> QED
    BY <1>2, <2>1 DEF InHand, Trial
<1>3. ASSUME BookEvidence
      PROVE  BookEvidence'
  <2>1. ASSUME NEW i \in DOMAIN iterations
        PROVE  LET it == iterations[i] IN
               /\ Len(it.evidence) = Len(it.book.sleeves)
               /\ \A k \in DOMAIN it.evidence :
                    audits'[it.evidence[k]] =
                       [surface |-> it.book.sleeves[k].surface, draw |-> FALSE,
                        iteration |-> i, verdict |-> it.verdict]
    <3> PICK it : it = iterations[i]
      OBVIOUS
    <3>1. \A k \in DOMAIN it.evidence : it.evidence[k] \in 1..Len(audits)
      BY <1>1 DEF TypeInv, TypeOK, Range
    <3>2. /\ Len(it.evidence) = Len(it.book.sleeves)
          /\ \A k \in DOMAIN it.evidence :
                audits[it.evidence[k]] =
                   [surface |-> it.book.sleeves[k].surface, draw |-> FALSE,
                    iteration |-> i, verdict |-> it.verdict]
      BY <1>3 DEF BookEvidence
    <3> QED
      BY <3>1, <3>2 DEF Extended
  <2>2. ASSUME NEW a \in DOMAIN audits', audits'[a].iteration # None
        PROVE  \E k \in DOMAIN iterations[audits'[a].iteration].evidence :
                  iterations[audits'[a].iteration].evidence[k] = a
    <3>1. a \in DOMAIN audits /\ audits'[a] = audits[a]
      BY <1>1, <2>2 DEF Extended
    <3> QED
      BY <1>3, <2>2, <3>1 DEF BookEvidence
  <2> QED
    BY <2>1, <2>2 DEF BookEvidence
<1> QED
  BY <1>2, <1>3

(* What a step has to keep for the tables and the handlers to be in order.  *)
LEMMA TypeKept ==
    ASSUME TypeInv, DOMAIN job' = Jobs, \A i \in Jobs : job'[i] # None => Shaped(job'[i]),
           audits' \in Seq(Audit), iterations' \in Seq(BookRow),
           \A a \in 1..Len(audits') : audits'[a].iteration \in 1..Len(iterations') \cup {None},
           \A i \in 1..Len(iterations') : \A k \in 1..Len(iterations'[i].evidence) :
              iterations'[i].evidence[k] \in 1..Len(audits'),
           \/ certificates' = certificates
           \/ \E c : Certified(c) /\ certificates' = Append(certificates, c),
           journal' = journal \/ \E e : journal' = Append(journal, e),
           digests' = digests \/ \E d : digests' = Append(digests, d),
           reviewed' \subseteq DOMAIN TickTrades \cup 1..Len(iterations'),
           spent' \in 0..MaxCost, crashes' \in 0..MaxCrashes
    PROVE  TypeInv'
<1>1. /\ certificates \in Seq(Range(certificates)) /\ journal \in Seq(Range(journal))
      /\ digests \in Seq(Range(digests)) /\ \A c \in Range(certificates) : Certified(c)
  BY DEF TypeInv, TypeOK, RowsTyped, Certified
<1>2. JobsShaped'
  BY DEF JobsShaped
<1>3. RowsTyped'
  <2>1. certificates' \in Seq(Range(certificates'))
    <3> PICK t : t = certificates'
      OBVIOUS
    <3>1. t \in Seq(Range(t))
      BY <1>1, Lengthened
    <3> QED
      BY <3>1, Zenon
  <2>2. journal' \in Seq(Range(journal'))
    <3> PICK t : t = journal'
      OBVIOUS
    <3>1. t \in Seq(Range(t))
      BY <1>1, Lengthened
    <3> QED
      BY <3>1, Zenon
  <2>3. digests' \in Seq(Range(digests'))
    <3> PICK t : t = digests'
      OBVIOUS
    <3>1. t \in Seq(Range(t))
      BY <1>1, Lengthened
    <3> QED
      BY <3>1, Zenon
  <2> QED
    BY <2>1, <2>2, <2>3 DEF RowsTyped
<1>4. TypeOK'
  <2>1. \A j \in Jobs : job'[j] # None => job'[j].kind \in Kinds
    BY DEF Shaped
  <2>2. ASSUME NEW a \in DOMAIN audits'
        PROVE  /\ audits'[a].surface \in Surfaces /\ audits'[a].draw \in BOOLEAN
               /\ audits'[a].iteration \in DOMAIN iterations' \cup {None}
    <3>1. a \in 1..Len(audits') /\ DOMAIN iterations' = 1..Len(iterations')
      OBVIOUS
    <3>2. audits'[a] \in Audit
      BY <3>1
    <3> QED
      BY <3>1, <3>2 DEF Audit
  <2>3. ASSUME NEW i \in DOMAIN iterations'
        PROVE  /\ iterations'[i].verdict \in {"PASS", "ITERATE", "DISCARD"}
               /\ Range(iterations'[i].evidence) \subseteq DOMAIN audits'
    <3>1. i \in 1..Len(iterations') /\ DOMAIN audits' = 1..Len(audits')
      OBVIOUS
    <3> PICK it : it = iterations'[i]
      OBVIOUS
    <3>2. it \in BookRow
      BY <3>1
    <3>3. it.verdict \in Decisions /\ DOMAIN it.evidence = 1..Len(it.evidence)
      BY <3>2 DEF BookRow
    <3>4. \A k \in 1..Len(it.evidence) : it.evidence[k] \in 1..Len(audits')
      BY <3>1
    <3>5. Range(it.evidence) \subseteq DOMAIN audits'
      BY <3>1, <3>3, <3>4 DEF Range
    <3> QED
      BY <3>3, <3>5 DEF Decisions
  <2>4. \A c \in Range(certificates') : Certified(c)
    <3>1. CASE certificates' = certificates
      BY <1>1, <3>1
    <3>2. ASSUME NEW c, Certified(c), certificates' = Append(certificates, c)
          PROVE  \A d \in Range(certificates') : Certified(d)
      <4>1. Range(Append(certificates, c)) = Range(certificates) \cup {c}
        BY <1>1, Appended
      <4>2. Range(certificates') = Range(certificates) \cup {c}
        BY <3>2, <4>1, Zenon
      <4> QED
        BY <1>1, <3>2, <4>2
    <3> QED
      BY <3>1, <3>2
  <2>5. DOMAIN iterations' = 1..Len(iterations')
    OBVIOUS
  <2> QED
    BY <2>1, <2>2, <2>3, <2>4, <2>5 DEF TypeOK, Certified
<1> QED
  BY <1>2, <1>3, <1>4 DEF TypeInv

LEMMA QuietKeepsType ==
    ASSUME TypeInv, QuietStep
    PROVE  TypeInv' /\ Extended
<1>1. Extended
  BY AuditsExtended DEF QuietStep, Wrote
<1>2. /\ audits \in Seq(Audit) /\ audits' \in Seq(Audit) /\ Len(audits) <= Len(audits')
      /\ iterations \in Seq(BookRow) /\ UNCHANGED iterations
      /\ DOMAIN audits = 1..Len(audits) /\ DOMAIN iterations = 1..Len(iterations)
      /\ Len(audits) \in Nat /\ Len(audits') \in Nat
  BY <1>1 DEF QuietStep, Extended, TypeInv, RowsTyped
<1>3. \A i \in Jobs : job'[i] # None => Shaped(job'[i])
  BY DEF QuietStep, Kept, TypeInv, JobsShaped
<1>4. \A a \in 1..Len(audits') : audits'[a].iteration \in 1..Len(iterations') \cup {None}
  BY <1>1, <1>2 DEF Extended, TypeInv, TypeOK
<1>5. ASSUME NEW i \in 1..Len(iterations'), NEW k \in 1..Len(iterations'[i].evidence)
      PROVE  iterations'[i].evidence[k] \in 1..Len(audits')
  <2> PICK it : it = iterations[i]
    OBVIOUS
  <2>1. it \in BookRow /\ Range(it.evidence) \subseteq 1..Len(audits) /\ k \in 1..Len(it.evidence)
    BY <1>2, <1>5 DEF TypeInv, TypeOK
  <2>2. it.evidence[k] \in 1..Len(audits)
    BY <2>1 DEF BookRow, Range
  <2> QED
    BY <1>2, <2>2
<1>6. /\ DOMAIN job' = Jobs
      /\ reviewed' \subseteq DOMAIN TickTrades \cup 1..Len(iterations')
      /\ spent' \in 0..MaxCost /\ crashes' \in 0..MaxCrashes
  BY <1>2 DEF QuietStep
<1>7. /\ \/ certificates' = certificates
         \/ \E c : Certified(c) /\ certificates' = Append(certificates, c)
      /\ journal' = journal \/ \E e : journal' = Append(journal, e)
      /\ digests' = digests \/ \E d : digests' = Append(digests, d)
  BY DEF QuietStep, Wrote
<1> QED
  BY <1>1, <1>2, <1>3, <1>4, <1>5, <1>6, <1>7, TypeKept

(* Requests that a step does not concern keep what they have in hand.       *)
LEMMA QuietKeepsEvidence ==
    ASSUME TypeInv, EvidenceInv, BookEvidence, QuietStep
    PROVE  EvidenceInv' /\ BookEvidence'
<1>1. Extended /\ UNCHANGED iterations
  BY QuietKeepsType DEF QuietStep
<1>2. BookEvidence' /\ \A k : InHand(k) => InHand(k)'
  BY <1>1, EvidenceKept
<1>3. ASSUME NEW i \in Jobs, Working(i, "analyze")'
      PROVE  \/ Working(i, "analyze") /\ job'[i] = job[i]
             \/ job'[i].evidence = <<>> /\ InHand(job[i])'
  <2>1. Kept(i)
    BY DEF QuietStep
  <2>2. CASE job'[i] = job[i]
    BY <1>3, <2>2 DEF Working
  <2>3. CASE Shaped(job'[i]) /\ Fresh(job'[i])
    <3> PICK k : k = job'[i]
      OBVIOUS
    <3>1. /\ k \in AnalysisJob /\ k.evidence = <<>> /\ k.results = <<>> /\ k.trials = None
          /\ \A s \in Surfaces : k.counts[s] = None
      BY <1>3, <2>3 DEF Shaped, Fresh, Working
    <3>2. Len(k.evidence) = 0 /\ k.book \in Books /\ Len(k.book.sleeves) \in 2..5
      BY <3>1, BooksAre DEF AnalysisJob
    <3> QED
      BY <3>1, <3>2 DEF InHand
  <2> QED
    BY <1>3, <2>1, <2>2, <2>3 DEF Kept, Working
<1>4. \A i \in Jobs : Working(i, "analyze")' => InHand(job[i])'
  BY <1>2, <1>3 DEF EvidenceInv
<1>5. Disjoint'
  <2> SUFFICES ASSUME NEW i \in Jobs, NEW j \in Jobs,
                      Working(i, "analyze")', Working(j, "analyze")',
                      NEW m \in 1..Len(job'[i].evidence), NEW n \in 1..Len(job'[j].evidence),
                      job'[i].evidence[m] = job'[j].evidence[n]
               PROVE  i = j /\ m = n
    BY DEF Disjoint
  <2>1. Working(i, "analyze") /\ job'[i] = job[i] /\ Working(j, "analyze") /\ job'[j] = job[j]
    BY <1>3
  <2> QED
    BY <2>1 DEF EvidenceInv, Disjoint
<1> QED
  BY <1>2, <1>4, <1>5 DEF EvidenceInv

(* The two halves of MultiplicityIsCurrent, a row at a time.                *)
Deflated(it) ==
    it.trials - it.book.external - 1
        \in it.seen..Cardinality(TrialsOn(SurfacesOf(it.book)) \ Range(it.evidence))

Preceded(i) ==
    journal[i].kind = "signal" =>
        /\ journal[i].prior >= journal[i].seen
        /\ journal[i].prior <= Cardinality({k \in Screened(journal[i].family) : k < i})

(* No step takes a trial off the record.                                    *)
TrialsKept ==
    \A S : /\ TrialsOn(S) \subseteq TrialsOn(S)' /\ IsFiniteSet(TrialsOn(S)')
           /\ Cardinality(TrialsOn(S)) \in Nat /\ Cardinality(TrialsOn(S)') \in Nat
           /\ Cardinality(TrialsOn(S)) <= Cardinality(TrialsOn(S)')

LEMMA CountsKept ==
    ASSUME TypeInv, TrialsKept
    PROVE  /\ \A it \in BookRow : Deflated(it) => Deflated(it)'
           /\ \A k \in AnalysisJob : Counted(k) => Counted(k)'
<1>1. ASSUME NEW it \in BookRow, Deflated(it)
      PROVE  Deflated(it)'
  <2> PICK S, A, B, R : /\ S = SurfacesOf(it.book) /\ R = Range(it.evidence)
                        /\ A = TrialsOn(S) /\ B = TrialsOn(S)'
    OBVIOUS
  <2>1. A \subseteq B /\ IsFiniteSet(B)
    BY DEF TrialsKept
  <2>2. IsFiniteSet(B \ R) /\ (A \ R) \subseteq (B \ R)
    BY <2>1, FS_Subset
  <2>3. /\ Cardinality(A \ R) \in Nat /\ Cardinality(B \ R) \in Nat
        /\ Cardinality(A \ R) <= Cardinality(B \ R)
    BY <2>2, FS_Subset, FS_CardinalityType
  <2>4. it.trials \in Nat /\ it.seen \in Nat /\ it.book.external \in Nat
    BY BooksAre DEF BookRow
  <2>5. it.trials - it.book.external - 1 \in it.seen..Cardinality(A \ R)
    BY <1>1 DEF Deflated
  <2>6. it.trials - it.book.external - 1 \in it.seen..Cardinality(B \ R)
    BY <2>3, <2>4, <2>5
  <2> QED
    BY <2>6 DEF Deflated, SurfacesOf
<1>2. ASSUME NEW k \in AnalysisJob, Counted(k)
      PROVE  Counted(k)'
  <2> PICK S, n, m : /\ S = SurfacesOf(k.book)
                     /\ n = Cardinality(TrialsOn(S)) /\ m = Cardinality(TrialsOn(S)')
    OBVIOUS
  <2> PICK c : c = k.counts
    OBVIOUS
  <2>1. n \in Nat /\ m \in Nat /\ n <= m
    BY DEF TrialsKept
  <2>2. /\ k.trials \in Nat \cup {None} /\ k.seen \in Nat /\ k.book.external \in Nat
        /\ c \in [Surfaces -> Nat \cup {None}] /\ IsFiniteSet(S) /\ S \subseteq Surfaces
    BY BooksAre, SurfacesFinite DEF AnalysisJob
  <2>3. /\ k.seen <= n /\ k.seen <= SumFunction(Least(k))
        /\ k.trials # None => k.trials - k.book.external - 1 \in k.seen..n
        /\ \A s \in S : c[s] # None => c[s] <= Cardinality(TrialsOn({s}))
    BY <1>2 DEF Counted
  <2>4. k.seen <= m /\ (k.trials # None => k.trials - k.book.external - 1 \in k.seen..m)
    BY <2>1, <2>2, <2>3
  <2>5. ASSUME NEW s \in S
        PROVE  /\ Cardinality(TrialsOn({s})) \in Nat /\ Cardinality(TrialsOn({s})') \in Nat
               /\ Cardinality(TrialsOn({s})) <= Cardinality(TrialsOn({s})')
    BY DEF TrialsKept
  <2>6. \A s \in S : c[s] # None => c[s] <= Cardinality(TrialsOn({s})')
    BY <2>2, <2>3, <2>5
  <2> PICK f, g :
        /\ f = [s \in S |-> IF c[s] = None THEN Cardinality(TrialsOn({s})) ELSE c[s]]
        /\ g = [s \in S |-> IF c[s] = None THEN Cardinality(TrialsOn({s})') ELSE c[s]]
    OBVIOUS
  <2>7. f = Least(k) /\ g = Least(k)'
    BY DEF Least, SurfacesOf
  <2>8. f \in [S -> Nat] /\ g \in [S -> Nat] /\ \A s \in S : f[s] <= g[s]
    <3>1. ASSUME NEW s \in S
          PROVE  f[s] \in Nat /\ g[s] \in Nat /\ f[s] <= g[s]
      <4> PICK x, y : x = Cardinality(TrialsOn({s})) /\ y = Cardinality(TrialsOn({s})')
        OBVIOUS
      <4>1. x \in Nat /\ y \in Nat /\ x <= y
        BY <2>5
      <4>2. c[s] \in Nat \cup {None}
        BY <2>2
      <4>3. f[s] = (IF c[s] = None THEN x ELSE c[s]) /\ g[s] = (IF c[s] = None THEN y ELSE c[s])
        OBVIOUS
      <4> QED
        BY <4>1, <4>2, <4>3
    <3> QED
      BY <3>1
  <2>9. /\ SumFunction(f) \in Nat /\ SumFunction(g) \in Nat
        /\ SumFunction(f) <= SumFunction(g)
    BY <2>2, <2>8, SumGrows
  <2>10. k.seen <= SumFunction(Least(k)')
    <3> PICK x, y : x = SumFunction(f) /\ y = SumFunction(g)
      OBVIOUS
    <3>1. x \in Nat /\ y \in Nat /\ x <= y /\ k.seen \in Nat
      BY <2>2, <2>9
    <3>2. k.seen <= x
      BY <2>3, <2>7
    <3>3. y = SumFunction(Least(k)')
      BY <2>7
    <3>4. k.seen <= y
      BY <3>1, <3>2
    <3> QED
      BY <3>3, <3>4
  <2> QED
    BY <2>4, <2>6, <2>10 DEF Counted, SurfacesOf
<1> QED
  BY <1>1, <1>2

(* The same of the screens, and of one that is entered.                     *)
LEMMA ScreensKept ==
    ASSUME TypeInv, journal' = journal \/ \E e : Entered(e) /\ journal' = Append(journal, e)
    PROVE  /\ (\A i \in DOMAIN journal : Preceded(i)) => \A i \in DOMAIN journal' : Preceded(i)'
           /\ \A k \in ScreenJob : Compared(k) => Compared(k)'
<1>1. /\ DOMAIN journal = 1..Len(journal) /\ DOMAIN journal' = 1..Len(journal')
      /\ Len(journal) \in Nat /\ Len(journal') \in Nat /\ Len(journal) <= Len(journal')
      /\ \A i \in 1..Len(journal) : journal'[i] = journal[i]
      /\ \A f : /\ Cardinality(Screened(f)) \in Nat /\ Cardinality(Screened(f)') \in Nat
                /\ Cardinality(Screened(f)) <= Cardinality(Screened(f)')
                /\ \A i \in 1..(Len(journal) + 1) :
                      {k \in Screened(f)' : k < i} = {k \in Screened(f) : k < i}
  BY ScreensGrow
<1>2. ASSUME \A i \in DOMAIN journal : Preceded(i), NEW i \in DOMAIN journal'
      PROVE  Preceded(i)'
  <2>1. CASE i \in DOMAIN journal
    <3> PICK n : n = Len(journal)
      OBVIOUS
    <3>0. i \in 1..n
      BY <1>1, <2>1, Zenon
    <3>1. journal'[i] = journal[i] /\ i \in 1..(Len(journal) + 1)
      <4>1. Len(journal) \in Nat /\ \A k \in 1..Len(journal) : journal'[k] = journal[k]
        BY <1>1, Zenon
      <4> QED
        BY <3>0, <4>1
    <3> PICK e : e = journal[i]
      OBVIOUS
    <3>2. {k \in Screened(e.family)' : k < i} = {k \in Screened(e.family) : k < i}
      BY <1>1, <3>1
    <3>3. e.kind = "signal" =>
             e.prior >= e.seen /\ e.prior <= Cardinality({k \in Screened(e.family) : k < i})
      BY <1>2, <2>1 DEF Preceded
    <3>4. e.kind = "signal" =>
             e.prior >= e.seen /\ e.prior <= Cardinality({k \in Screened(e.family)' : k < i})
      BY <3>2, <3>3
    <3> QED
      BY <3>1, <3>4 DEF Preceded
  <2>2. CASE i \notin DOMAIN journal
    <3>1. PICK e : Entered(e) /\ journal' = Append(journal, e)
      BY <2>2
    <3> PICK s, t, n : s = journal /\ t = journal' /\ n = Len(journal)
      OBVIOUS
    <3>2. /\ t = Append(s, e) /\ s \in Seq(Range(s)) /\ n \in Nat
          /\ i \in DOMAIN t /\ i \notin DOMAIN s
      BY <1>1, <2>2, <3>1 DEF TypeInv, RowsTyped
    <3>3. DOMAIN s = 1..n /\ DOMAIN t = 1..(n + 1) /\ t[n + 1] = e
      BY <3>2, Appended
    <3>4. i = n + 1
      <4>1. i \in 1..(n + 1) /\ i \notin 1..n
        BY <3>2, <3>3, Zenon
      <4> QED
        BY <3>2, <4>1
    <3>5. journal'[i] = e
      BY <3>3, <3>4
    <3>6. {m \in Screened(e.family)' : m < i} = Screened(e.family)
      <4>1. {m \in Screened(e.family)' : m < i} = {m \in Screened(e.family) : m < i}
        BY <1>1, <3>2, <3>4
      <4>2. \A m \in Screened(e.family) : m \in 1..n
        BY <3>2, <3>3, Zenon DEF Screened
      <4>3. \A m \in Screened(e.family) : m < i
        BY <3>2, <3>4, <4>2
      <4> QED
        BY <4>1, <4>3
    <3> QED
      BY <3>1, <3>5, <3>6 DEF Preceded, Entered
  <2> QED
    BY <2>1, <2>2
<1>3. ASSUME NEW k \in ScreenJob, Compared(k)
      PROVE  Compared(k)'
  <2> PICK n, m : n = Cardinality(Screened(k.family)) /\ m = Cardinality(Screened(k.family)')
    OBVIOUS
  <2>1. n \in Nat /\ m \in Nat /\ n <= m
    BY <1>1
  <2>2. k.prior \in Nat \cup {None} /\ k.seen \in Nat
    BY DEF ScreenJob
  <2>3. k.seen <= n /\ (k.prior # None => k.prior \in k.seen..n)
    BY <1>3 DEF Compared
  <2>4. k.seen <= m /\ (k.prior # None => k.prior \in k.seen..m)
    BY <2>1, <2>2, <2>3
  <2> QED
    BY <2>4 DEF Compared
<1> QED
  BY <1>2, <1>3

LEMMA RowsDeflated ==
    /\ MultiplicityIsCurrent <=> /\ \A i \in DOMAIN iterations : Deflated(iterations[i])
                                 /\ \A i \in DOMAIN journal : Preceded(i)
    /\ MultiplicityIsCurrent' <=> /\ \A i \in DOMAIN iterations' : Deflated(iterations[i])'
                                  /\ \A i \in DOMAIN journal' : Preceded(i)'
BY DEF MultiplicityIsCurrent, Deflated, Preceded

LEMMA QuietKeepsCounts ==
    ASSUME TypeInv, CountInv, MultiplicityIsCurrent, QuietStep
    PROVE  CountInv' /\ MultiplicityIsCurrent'
<1>1. Extended /\ TrialsKept
  <2>1. Extended
    BY QuietKeepsType
  <2> QED
    BY <2>1, TrialsGrow DEF TrialsKept
<1>2. /\ \A it \in BookRow : Deflated(it) => Deflated(it)'
      /\ \A k \in AnalysisJob : Counted(k) => Counted(k)'
  BY <1>1, CountsKept
<1>3. journal' = journal \/ \E e : Entered(e) /\ journal' = Append(journal, e)
  BY DEF QuietStep, Wrote
<1>4. /\ (\A i \in DOMAIN journal : Preceded(i)) => \A i \in DOMAIN journal' : Preceded(i)'
      /\ \A k \in ScreenJob : Compared(k) => Compared(k)'
  BY <1>3, ScreensKept
<1>5. MultiplicityIsCurrent'
  <2>1. \A i \in DOMAIN iterations : iterations[i] \in BookRow /\ Deflated(iterations[i])
    BY RowsDeflated DEF TypeInv, RowsTyped
  <2>2. iterations' = iterations
    BY DEF QuietStep
  <2>3. \A i \in DOMAIN iterations' : Deflated(iterations[i])'
    <3> SUFFICES ASSUME NEW i \in DOMAIN iterations'
                 PROVE  Deflated(iterations[i])'
      OBVIOUS
    <3> PICK it : it = iterations[i]
      OBVIOUS
    <3>1. it \in BookRow /\ Deflated(it) /\ iterations'[i] = it
      BY <2>1, <2>2
    <3>2. Deflated(it)'
      BY <1>2, <3>1
    <3> QED
      BY <3>1, <3>2 DEF Deflated
  <2> QED
    BY <1>4, <2>3, RowsDeflated
<1>6. ASSUME NEW i \in Jobs, Working(i, "analyze")'
      PROVE  Counted(job[i])'
  <2> PICK k : k = job'[i]
    OBVIOUS
  <2>1. CASE job'[i] = job[i]
    <3>1. k \in AnalysisJob /\ Counted(k)
      BY <1>6, <2>1 DEF Working, TypeInv, JobsShaped, Shaped, CountInv
    <3>2. Counted(k)'
      BY <1>2, <3>1
    <3> QED
      BY <3>2 DEF Counted
  <2>2. CASE Shaped(job'[i]) /\ Fresh(job'[i])
    <3>1. /\ k \in AnalysisJob /\ k.trials = None /\ k.seen = 0
          /\ \A s \in Surfaces : k.counts[s] = None
      BY <1>6, <2>2 DEF Shaped, Fresh, Working
    <3>2. Cardinality(TrialsOn(SurfacesOf(k.book))') \in Nat
      BY <1>1 DEF TrialsKept
    <3>3. SumFunction(Least(k)') \in Nat
      <4> PICK S : S = SurfacesOf(k.book)
        OBVIOUS
      <4> PICK g : g = [s \in S |-> Cardinality(TrialsOn({s})')]
        OBVIOUS
      <4>1. IsFiniteSet(S) /\ S \subseteq Surfaces
        BY <3>1, SurfacesFinite DEF AnalysisJob
      <4>2. g \in [S -> Nat]
        BY <1>1 DEF TrialsKept
      <4>3. g = Least(k)'
        BY <3>1, <4>1 DEF Least, SurfacesOf
      <4>4. SumFunction(g) \in Nat
        BY <4>1, <4>2, SumIsNatural
      <4> QED
        BY <4>3, <4>4
    <3>4. SurfacesOf(k.book) \subseteq Surfaces
      BY <3>1, SurfacesFinite DEF AnalysisJob
    <3> QED
      BY <3>1, <3>2, <3>3, <3>4 DEF Counted, SurfacesOf
  <2> QED
    BY <1>6, <2>1, <2>2 DEF QuietStep, Kept, Working
<1>7. ASSUME NEW i \in Jobs, Working(i, "signal")'
      PROVE  Compared(job[i])'
  <2> PICK k : k = job'[i]
    OBVIOUS
  <2>1. CASE job'[i] = job[i]
    <3>1. k \in ScreenJob /\ Compared(k)
      BY <1>7, <2>1 DEF Working, TypeInv, JobsShaped, Shaped, CountInv
    <3>2. Compared(k)'
      BY <1>4, <3>1
    <3> QED
      BY <3>2 DEF Compared
  <2>2. CASE Shaped(job'[i]) /\ Fresh(job'[i])
    <3>1. k \in ScreenJob /\ Compared(k)
      BY <1>7, <2>2 DEF Shaped, Fresh, Working
    <3>2. Compared(k)'
      BY <1>4, <3>1
    <3> QED
      BY <3>2 DEF Compared
  <2> QED
    BY <1>7, <2>1, <2>2 DEF QuietStep, Kept, Working
<1> QED
  BY <1>5, <1>6, <1>7 DEF CountInv

---------------------------------------------------------------------------
(* The certification of a book *)

(* What holds between any two steps.                                        *)
IInv == TypeInv /\ EvidenceInv /\ BookEvidence /\ CountInv /\ MultiplicityIsCurrent

LEMMA QuietKeepsAll ==
    ASSUME IInv, QuietStep
    PROVE  IInv'
BY QuietKeepsType, QuietKeepsEvidence, QuietKeepsCounts DEF IInv

(* A certification that goes on: it takes up one more audit at most.        *)
LEMMA AnalysisAdvances ==
    ASSUME IInv, NEW j \in Jobs, Working(j, "analyze"), NEW l \in AnalysisJob, Advance(j, l),
           UNCHANGED <<iterations, certificates, journal, digests>>,
           \/ audits' = audits /\ l.evidence = job[j].evidence
           \/ /\ \E s \in Surfaces : audits' = Append(audits, Trial(s, FALSE))
              /\ l.evidence = Append(job[j].evidence, Len(audits) + 1),
           TypeInv /\ Extended => InHand(l)' /\ Counted(l)'
    PROVE  IInv'
<1> PICK k : k = job[j]
  OBVIOUS
<1>1. TypeInv /\ EvidenceInv /\ BookEvidence /\ CountInv /\ MultiplicityIsCurrent
  BY DEF IInv
<1>2. Extended
  BY <1>1, AuditsExtended
<1>3. InHand(l)' /\ Counted(l)'
  BY <1>1, <1>2
<1>4. /\ DOMAIN job' = Jobs /\ job'[j] = l /\ \A i \in Jobs \ {j} : job'[i] = job[i]
      /\ UNCHANGED <<reviewed, spent, crashes>>
  BY <1>1, JobUpdated DEF Advance, TypeInv
<1>5. l.kind = "analyze" /\ Shaped(l)
  BY DEF AnalysisJob, Shaped, Kinds
<1>6. TypeInv'
  <2>1. /\ audits \in Seq(Audit) /\ audits' \in Seq(Audit) /\ Len(audits) <= Len(audits')
        /\ iterations \in Seq(BookRow) /\ iterations' = iterations
        /\ DOMAIN audits = 1..Len(audits) /\ DOMAIN iterations = 1..Len(iterations)
        /\ Len(audits) \in Nat /\ Len(audits') \in Nat
    BY <1>1, <1>2 DEF Extended, TypeInv, RowsTyped
  <2>2. \A i \in Jobs : job'[i] # None => Shaped(job'[i])
    BY <1>1, <1>4, <1>5 DEF TypeInv, JobsShaped
  <2>3. \A a \in 1..Len(audits') : audits'[a].iteration \in 1..Len(iterations') \cup {None}
    BY <1>1, <1>2, <2>1 DEF Extended, TypeInv, TypeOK
  <2>4. ASSUME NEW i \in 1..Len(iterations'), NEW n \in 1..Len(iterations'[i].evidence)
        PROVE  iterations'[i].evidence[n] \in 1..Len(audits')
    <3> PICK it : it = iterations[i]
      OBVIOUS
    <3>1. it \in BookRow /\ Range(it.evidence) \subseteq 1..Len(audits) /\ n \in 1..Len(it.evidence)
      BY <1>1, <2>1, <2>4 DEF TypeInv, TypeOK
    <3>2. it.evidence[n] \in 1..Len(audits)
      BY <3>1 DEF BookRow, Range
    <3> QED
      BY <2>1, <3>2
  <2>5. /\ reviewed' \subseteq DOMAIN TickTrades \cup 1..Len(iterations')
        /\ spent' \in 0..MaxCost /\ crashes' \in 0..MaxCrashes
    BY <1>1, <1>4, <2>1 DEF TypeInv, TypeOK
  <2> QED
    BY <1>1, <1>4, <2>1, <2>2, <2>3, <2>4, <2>5, TypeKept
<1>7. BookEvidence' /\ \A m : InHand(m) => InHand(m)'
  BY <1>1, <1>2, EvidenceKept
<1>8. EvidenceInv'
  <2>1. ASSUME NEW i \in Jobs, Working(i, "analyze")'
        PROVE  InHand(job[i])'
    <3>1. CASE i = j
      BY <1>3, <1>4, <3>1 DEF InHand
    <3>2. CASE i # j
      <4> PICK m : m = job[i]
        OBVIOUS
      <4>1. job'[i] = m /\ InHand(m)
        BY <1>1, <1>4, <2>1, <3>2 DEF EvidenceInv, Working
      <4>2. InHand(m)'
        BY <1>7, <4>1
      <4> QED
        BY <4>1, <4>2 DEF InHand
    <3> QED
      BY <3>1, <3>2
  <2>2. ASSUME NEW i \in Jobs, Working(i, "analyze")', NEW n \in 1..Len(job'[i].evidence)
        PROVE  \/ /\ Working(i, "analyze") /\ n \in 1..Len(job[i].evidence)
                  /\ job'[i].evidence[n] = job[i].evidence[n]
                  /\ job'[i].evidence[n] \in 1..Len(audits)
               \/ i = j /\ n = Len(k.evidence) + 1 /\ job'[i].evidence[n] = Len(audits) + 1
    <3>1. ASSUME Working(i, "analyze"), NEW m \in 1..Len(job[i].evidence)
          PROVE  job[i].evidence[m] \in 1..Len(audits)
      BY <1>1, <3>1 DEF EvidenceInv, InHand
    <3>2. CASE i # j
      <4>1. Working(i, "analyze") /\ job'[i] = job[i]
        BY <1>4, <2>2, <3>2 DEF Working
      <4> QED
        BY <2>2, <3>1, <4>1
    <3>3. CASE i = j /\ l.evidence = k.evidence
      BY <1>4, <2>2, <3>1, <3>3
    <3>4. CASE i = j /\ l.evidence = Append(k.evidence, Len(audits) + 1)
      <4>1. k.evidence \in Seq(Nat) /\ Len(audits) + 1 \in Nat
        BY <1>1 DEF TypeInv, RowsTyped, JobsShaped, Shaped, Working, AnalysisJob
      <4> PICK x, e : x = Len(audits) + 1 /\ e = k.evidence
        OBVIOUS
      <4>2. /\ Len(Append(e, x)) = Len(e) + 1 /\ Append(e, x)[Len(e) + 1] = x
            /\ \A m \in 1..Len(e) : Append(e, x)[m] = e[m]
            /\ Len(e) \in Nat
        BY <4>1, AppendProperties
      <4>3. n \in 1..(Len(e) + 1) /\ job'[i].evidence = Append(e, x)
        BY <1>4, <2>2, <3>4, <4>2
      <4>4. CASE n = Len(e) + 1
        BY <3>4, <4>2, <4>3, <4>4
      <4>5. CASE n \in 1..Len(e)
        BY <3>1, <3>4, <4>2, <4>3, <4>5
      <4> QED
        BY <4>2, <4>3, <4>4, <4>5
    <3> QED
      BY <3>2, <3>3, <3>4
  <2>3. Disjoint'
    <3> SUFFICES ASSUME NEW i \in Jobs, NEW h \in Jobs,
                        Working(i, "analyze")', Working(h, "analyze")',
                        NEW m \in 1..Len(job'[i].evidence), NEW n \in 1..Len(job'[h].evidence),
                        job'[i].evidence[m] = job'[h].evidence[n]
                 PROVE  i = h /\ m = n
      BY DEF Disjoint
    <3>1. Len(audits) \in Nat
      BY <1>1 DEF TypeInv, RowsTyped
    <3>2. \/ /\ Working(i, "analyze") /\ m \in 1..Len(job[i].evidence)
             /\ job'[i].evidence[m] = job[i].evidence[m]
             /\ job'[i].evidence[m] \in 1..Len(audits)
          \/ i = j /\ m = Len(k.evidence) + 1 /\ job'[i].evidence[m] = Len(audits) + 1
      BY <2>2
    <3>3. \/ /\ Working(h, "analyze") /\ n \in 1..Len(job[h].evidence)
             /\ job'[h].evidence[n] = job[h].evidence[n]
             /\ job'[h].evidence[n] \in 1..Len(audits)
          \/ h = j /\ n = Len(k.evidence) + 1 /\ job'[h].evidence[n] = Len(audits) + 1
      BY <2>2
    <3>4. Disjoint
      BY <1>1 DEF EvidenceInv
    <3> QED
      BY <3>1, <3>2, <3>3, <3>4 DEF Disjoint
  <2> QED
    BY <2>1, <2>3 DEF EvidenceInv
<1>9. TrialsKept
  BY <1>1, <1>2, TrialsGrow DEF TrialsKept
<1>10. /\ \A it \in BookRow : Deflated(it) => Deflated(it)'
       /\ \A m \in AnalysisJob : Counted(m) => Counted(m)'
  BY <1>1, <1>9, CountsKept
<1>11. journal' = journal
  OBVIOUS
<1>12. CountInv'
  <2>1. ASSUME NEW i \in Jobs, Working(i, "analyze")'
        PROVE  Counted(job[i])'
    <3>1. CASE i = j
      BY <1>3, <1>4, <3>1 DEF Counted
    <3>2. CASE i # j
      <4> PICK m : m = job[i]
        OBVIOUS
      <4>1. job'[i] = m /\ Counted(m) /\ m \in AnalysisJob
        BY <1>1, <1>4, <2>1, <3>2 DEF CountInv, Working, TypeInv, JobsShaped, Shaped
      <4>2. Counted(m)'
        BY <1>10, <4>1
      <4> QED
        BY <4>1, <4>2 DEF Counted
    <3> QED
      BY <3>1, <3>2
  <2>2. ASSUME NEW i \in Jobs, Working(i, "signal")'
        PROVE  Compared(job[i])'
    <3>1. i # j /\ job'[i] = job[i] /\ Working(i, "signal")
      BY <1>4, <1>5, <2>2 DEF Working
    <3>2. Compared(job[i])
      BY <1>1, <3>1 DEF CountInv
    <3> QED
      BY <1>11, <3>1, <3>2 DEF Compared, Screened
  <2> QED
    BY <2>1, <2>2 DEF CountInv
<1>13. MultiplicityIsCurrent'
  <2>1. ASSUME NEW i \in DOMAIN iterations'
        PROVE  Deflated(iterations[i])'
    <3> PICK it : it = iterations[i]
      OBVIOUS
    <3>1. it \in BookRow /\ Deflated(it) /\ iterations'[i] = it
      BY <1>1, RowsDeflated DEF TypeInv, RowsTyped
    <3>2. Deflated(it)'
      BY <1>10, <3>1
    <3> QED
      BY <3>1, <3>2 DEF Deflated
  <2>2. \A i \in DOMAIN journal' : Preceded(i)'
    BY <1>1, <1>11, RowsDeflated DEF Preceded, Screened
  <2> QED
    BY <2>1, <2>2, RowsDeflated
<1> QED
  BY <1>6, <1>7, <1>8, <1>12, <1>13 DEF IInv

(* What is known of the request that certifies a book.                      *)
LEMMA InAnalysis ==
    ASSUME IInv, NEW j \in Jobs, Working(j, "analyze"), NEW k, k = job[j]
    PROVE  /\ k \in AnalysisJob /\ InHand(k) /\ Counted(k)
           /\ Len(k.evidence) \in Nat /\ DOMAIN k.evidence = 1..Len(k.evidence)
           /\ Len(k.results) \in Nat
           /\ k.book \in Books /\ Len(k.book.sleeves) \in 2..5 /\ Len(k.book.sleeves) # 0
           /\ k.book.sleeves \in Seq([surface : Surfaces, from : Date])
           /\ Len(k.results) # 0 => Len(k.evidence) = Len(k.book.sleeves)
<1>1. k \in AnalysisJob /\ InHand(k) /\ Counted(k)
  BY DEF IInv, TypeInv, JobsShaped, Shaped, Working, EvidenceInv, CountInv
<1>2. /\ k.evidence \in Seq(Nat) /\ k.results \in Seq(SleeveRuns) /\ k.book \in Books
  BY <1>1 DEF AnalysisJob
<1>3. Len(k.results) # 0 => Len(k.evidence) = Len(k.book.sleeves)
  BY <1>1, <1>2 DEF InHand
<1>4. Len(k.evidence) \in Nat /\ DOMAIN k.evidence = 1..Len(k.evidence) /\ Len(k.results) \in Nat
  <2> PICK e, r : e = k.evidence /\ r = k.results
    OBVIOUS
  <2>1. e \in Seq(Nat) /\ r \in Seq(SleeveRuns)
    BY <1>2
  <2>2. Len(e) \in Nat /\ DOMAIN e = 1..Len(e) /\ Len(r) \in Nat
    BY <2>1
  <2> QED
    BY <2>2
<1>5. /\ Len(k.book.sleeves) \in 2..5
      /\ k.book.sleeves \in Seq([surface : Surfaces, from : Date])
  BY <1>2, BooksAre
<1>6. Len(k.book.sleeves) # 0
  <2>1. \A n \in 2..5 : n # 0
    OBVIOUS
  <2> QED
    BY <1>5, <2>1, Zenon
<1> QED
  BY <1>1, <1>2, <1>3, <1>4, <1>5, <1>6

LEMMA AuditAppended ==
    ASSUME audits \in Seq(Audit), NEW t \in Audit, audits' = Append(audits, t)
    PROVE  /\ Len(audits) \in Nat /\ Len(audits') = Len(audits) + 1
           /\ audits'[Len(audits) + 1] = t
           /\ \A a \in 1..Len(audits) : audits'[a] = audits[a]
BY AppendProperties

LEMMA AuditSleeveKeeps ==
    ASSUME IInv, NEW j \in Jobs, AuditSleeve(j)
    PROVE  IInv'
<1> PICK k : k = job[j]
  OBVIOUS
<1> PICK n, x, b : n = Len(k.evidence) /\ x = Len(audits) + 1 /\ b = k.book
  OBVIOUS
<1>1. /\ Working(j, "analyze") /\ n + 1 <= Len(b.sleeves)
      /\ audits' = Append(audits, Trial(b.sleeves[n + 1].surface, FALSE))
      /\ Advance(j, [k EXCEPT !.evidence = Append(k.evidence, x)])
      /\ UNCHANGED <<iterations, certificates, journal, digests>>
  BY DEF AuditSleeve
<1>2. /\ k \in AnalysisJob /\ InHand(k) /\ Counted(k) /\ n \in Nat
      /\ Len(k.results) \in Nat /\ b \in Books /\ Len(b.sleeves) # 0
      /\ b.sleeves \in Seq([surface : Surfaces, from : Date])
      /\ Len(k.results) # 0 => n = Len(b.sleeves)
  BY <1>1, InAnalysis
<1>3. audits \in Seq(Audit) /\ Len(audits) \in Nat
  BY DEF IInv, TypeInv, RowsTyped
<1> PICK s : s = b.sleeves[n + 1].surface
  OBVIOUS
<1>4. s \in Surfaces
  <2>1. b.sleeves[n + 1] \in [surface : Surfaces, from : Date]
    <3> PICK q, h : q = b.sleeves /\ h = Len(b.sleeves)
      OBVIOUS
    <3>1. q \in Seq([surface : Surfaces, from : Date]) /\ n + 1 \in 1..Len(q)
      BY <1>1, <1>2
    <3>2. q[n + 1] \in [surface : Surfaces, from : Date]
      BY <3>1, ElementOfSeq
    <3> QED
      BY <3>2
  <2> QED
    BY <2>1
<1> PICK e : e = Append(k.evidence, x)
  OBVIOUS
<1>5. /\ e \in Seq(Nat) /\ Len(e) = n + 1 /\ e[n + 1] = x
      /\ \A m \in 1..n : e[m] = k.evidence[m]
  <2>1. k.evidence \in Seq(Nat) /\ x \in Nat
    BY <1>2, <1>3 DEF AnalysisJob
  <2> QED
    BY <2>1, AppendProperties
<1> DEFINE l == [k EXCEPT !.evidence = e]
<1>6. /\ l \in AnalysisJob /\ l.evidence = e /\ l.book = b /\ l.results = k.results
      /\ l.counts = k.counts /\ l.trials = k.trials /\ l.seen = k.seen
  BY <1>2, <1>5 DEF AnalysisJob
<1>7. Advance(j, l)
  BY <1>1
<1> HIDE DEF l
<1>8. k.results = <<>> /\ k.trials = None /\ \A q \in Surfaces : k.counts[q] = None
  <2> PICK h : h = Len(b.sleeves)
    OBVIOUS
  <2>1. Len(k.results) = 0
    BY <1>1, <1>2
  <2>2. k.results = <<>>
    BY <1>2, <2>1 DEF AnalysisJob
  <2>3. /\ k.trials # None => Len(k.results) = h
        /\ \A q \in Surfaces : k.counts[q] # None => Len(k.results) = h
    BY <1>2 DEF InHand
  <2>4. h # 0
    BY <1>2, Zenon
  <2> QED
    BY <2>1, <2>2, <2>3, <2>4
<1>9. ASSUME TypeInv, Extended
      PROVE  InHand(l)' /\ Counted(l)'
  <2> PICK t : t = Trial(s, FALSE)
    OBVIOUS
  <2>1. /\ audits' = Append(audits, t) /\ t \in Audit
    BY <1>1, <1>4 DEF Trial, Audit
  <2>2. /\ Len(audits') = Len(audits) + 1 /\ audits'[Len(audits) + 1] = t
        /\ \A a \in 1..Len(audits) : audits'[a] = audits[a]
    BY <1>3, <2>1, AuditAppended
  <2>3. ASSUME NEW m \in 1..Len(e)
        PROVE  e[m] \in 1..Len(audits') /\ audits'[e[m]] = Trial(b.sleeves[m].surface, FALSE)
    <3>1. CASE m = n + 1
      <4>1. e[m] = x /\ audits'[x] = t /\ x \in 1..Len(audits')
        BY <1>3, <1>5, <2>2, <3>1
      <4>2. t = Trial(b.sleeves[m].surface, FALSE)
        BY <3>1
      <4> QED
        BY <4>1, <4>2
    <3>2. CASE m \in 1..n
      <4> PICK a, u : a = k.evidence[m] /\ u = Trial(b.sleeves[m].surface, FALSE)
        OBVIOUS
      <4>1. a \in 1..Len(audits) /\ audits[a] = u
        BY <1>2, <3>2 DEF InHand
      <4>2. e[m] = a
        BY <1>5, <3>2
      <4>3. audits'[a] = u
        BY <2>2, <4>1
      <4>4. a \in 1..Len(audits')
        BY <1>3, <2>2, <4>1
      <4> QED
        BY <4>2, <4>3, <4>4
    <3>3. m = n + 1 \/ m \in 1..n
      <4> PICK h : h = Len(e)
        OBVIOUS
      <4>1. h = n + 1 /\ n \in Nat /\ m \in 1..h
        BY <1>2, <1>5
      <4> QED
        BY <4>1
    <3> QED
      BY <3>1, <3>2, <3>3
  <2>4. InHand(l)'
    <3>1. Len(l.evidence) <= Len(b.sleeves)
      BY <1>1, <1>5, <1>6
    <3>2. l.results = <<>> /\ l.trials = None /\ \A q \in Surfaces : l.counts[q] = None
      BY <1>6, <1>8
    <3> QED
      BY <1>6, <2>3, <3>1, <3>2 DEF InHand, Trial
  <2>5. Counted(k)'
    <3>1. TrialsKept
      BY <1>9, TrialsGrow DEF TrialsKept
    <3> QED
      BY <1>2, <1>9, <3>1, CountsKept
  <2>6. Counted(l)'
    BY <1>6, <2>5 DEF Counted, Least
  <2> QED
    BY <2>4, <2>6
<1>10. audits' = Append(audits, Trial(s, FALSE)) /\ l.evidence = Append(k.evidence, Len(audits) + 1)
  BY <1>1, <1>6
<1> QED
  BY <1>1, <1>4, <1>6, <1>7, <1>9, <1>10, AnalysisAdvances

LEMMA RunSleeveKeeps ==
    ASSUME IInv, NEW j \in Jobs, RunSleeve(j)
    PROVE  IInv'
<1> PICK k : k = job[j]
  OBVIOUS
<1> PICK n, b, on : /\ n = Len(k.evidence) /\ b = k.book
                    /\ on = Cardinality(TrialsOn(SurfacesOf(k.book)))
  OBVIOUS
<1>1. /\ Working(j, "analyze") /\ n = Len(b.sleeves) /\ Len(k.results) < n
      /\ UNCHANGED rows
      /\ \/ End(j)
         \/ \E run \in SleeveRuns :
               Advance(j, [k EXCEPT !.results = Append(k.results, run), !.seen = on])
  BY DEF RunSleeve
<1>2. CASE End(j)
  <2>1. QuietStep
    BY <1>1, <1>2, QuietSteps DEF IInv
  <2> QED
    BY <2>1, QuietKeepsAll
<1>3. ASSUME NEW run \in SleeveRuns,
             Advance(j, [k EXCEPT !.results = Append(k.results, run), !.seen = on])
      PROVE  IInv'
  <2>1. /\ k \in AnalysisJob /\ InHand(k) /\ n \in Nat /\ b \in Books /\ Len(k.results) \in Nat
    BY <1>1, InAnalysis
  <2>2. /\ audits \in Seq(Audit) /\ UNCHANGED <<audits, iterations, certificates, journal, digests>>
    BY <1>1 DEF IInv, TypeInv, RowsTyped, rows
  <2>3. on \in Nat
    BY <2>1, <2>2, LeastIs
  <2> PICK r : r = Append(k.results, run)
    OBVIOUS
  <2>4. r \in Seq(SleeveRuns) /\ Len(r) = Len(k.results) + 1
    BY <2>1, AppendProperties DEF AnalysisJob
  <2>5. k.trials = None /\ \A s \in Surfaces : k.counts[s] = None
    <3> PICK h, g : h = Len(b.sleeves) /\ g = Len(k.results)
      OBVIOUS
    <3>1. /\ k.trials # None => g = h
          /\ \A s \in Surfaces : k.counts[s] # None => g = h
      BY <2>1 DEF InHand
    <3>2. n \in Nat /\ g \in Nat /\ n = h /\ g < n
      BY <1>1, <2>1, Zenon
    <3> QED
      BY <3>1, <3>2
  <2> DEFINE l == [k EXCEPT !.results = r, !.seen = on]
  <2>6. /\ l \in AnalysisJob /\ l.evidence = k.evidence /\ l.book = b
        /\ l.results = r /\ l.counts = k.counts /\ l.trials = None /\ l.seen = on
    BY <2>1, <2>3, <2>4, <2>5 DEF AnalysisJob
  <2>7. Advance(j, l)
    BY <1>3
  <2> HIDE DEF l
  <2>8. InHand(l)'
    <3>1. InHand(l)
      BY <1>1, <2>1, <2>5, <2>6 DEF InHand
    <3> QED
      BY <2>2, <3>1 DEF InHand, Trial
  <2>9. Counted(l)'
    <3> PICK S : S = SurfacesOf(b)
      OBVIOUS
    <3>1. S \subseteq Surfaces /\ SumFunction(OnRecord(S)) = on
      BY <2>1, <2>2, SurfacesFinite, LeastIs
    <3>2. Least(l) = OnRecord(S)
      BY <2>5, <2>6, <3>1 DEF Least, OnRecord
    <3>3. \A s \in S : l.counts[s] = None
      BY <2>5, <2>6, <3>1
    <3>4. Counted(l)
      BY <2>3, <2>6, <3>1, <3>2, <3>3 DEF Counted
    <3> QED
      BY <2>2, <3>4 DEF Counted, Least, TrialsOn, CountsAsTrial, SurfacesOf
  <2> QED
    BY <1>1, <2>2, <2>6, <2>7, <2>8, <2>9, AnalysisAdvances
<1> QED
  BY <1>1, <1>2, <1>3

LEMMA CountTrialsKeeps ==
    ASSUME IInv, NEW j \in Jobs, CountTrials(j)
    PROVE  IInv'
<1> PICK k : k = job[j]
  OBVIOUS
<1> PICK b, S, on : b = k.book /\ S = SurfacesOf(b) /\ on = Cardinality(TrialsOn(S))
  OBVIOUS
<1>1. PICK q, c, t :
         /\ q \in S
         /\ Working(j, "analyze") /\ Len(k.results) = Len(b.sleeves)
         /\ k.counts[q] = None /\ k.trials = None /\ UNCHANGED rows
         /\ c = [k.counts EXCEPT ![q] = Cardinality(TrialsOn({q}))] /\ t = PooledTrials(b, c)
         /\ Advance(j, [k EXCEPT !.counts = c, !.trials = t])
  BY DEF CountTrials
<1> q \in S
  BY <1>1
<1>2. /\ k \in AnalysisJob /\ InHand(k) /\ Counted(k) /\ b \in Books
  BY <1>1, InAnalysis
<1>3. /\ audits \in Seq(Audit) /\ UNCHANGED <<audits, iterations, certificates, journal, digests>>
  BY <1>1 DEF IInv, TypeInv, RowsTyped, rows
<1>4. IsFiniteSet(S) /\ S \subseteq Surfaces /\ b.external \in Nat
  BY <1>2, SurfacesFinite, BooksAre
<1>5. \A s \in S : Cardinality(TrialsOn({s})) \in Nat
  BY <1>3, TrialsFinite
<1>6. /\ c \in [Surfaces -> Nat \cup {None}] /\ c[q] = Cardinality(TrialsOn({q}))
      /\ \A s \in S \ {q} : c[s] = k.counts[s]
      /\ k.counts \in [Surfaces -> Nat \cup {None}] /\ k.seen \in Nat
  <2> PICK d, n : d = k.counts /\ n = Cardinality(TrialsOn({q}))
    OBVIOUS
  <2>1. d \in [Surfaces -> Nat \cup {None}] /\ k.seen \in Nat /\ n \in Nat /\ q \in Surfaces
    BY <1>2, <1>4, <1>5 DEF AnalysisJob
  <2>2. c = [d EXCEPT ![q] = n]
    BY <1>1
  <2>3. /\ c \in [Surfaces -> Nat \cup {None}] /\ c[q] = n
        /\ \A s \in Surfaces \ {q} : c[s] = d[s]
    BY <2>1, <2>2
  <2> QED
    BY <1>4, <2>1, <2>3
<1> PICK f : f = [s \in S |-> IF c[s] = None THEN Cardinality(TrialsOn({s})) ELSE c[s]]
  OBVIOUS
<1>7. f \in [S -> Nat] /\ f = Least(k)
  <2>1. Least(k) = [s \in S |-> IF k.counts[s] = None THEN Cardinality(TrialsOn({s}))
                                                        ELSE k.counts[s]]
    BY DEF Least
  <2>2. ASSUME NEW s \in S
        PROVE  f[s] \in Nat /\ f[s] = Least(k)[s]
    <3> PICK n, d : n = Cardinality(TrialsOn({s})) /\ d = k.counts
      OBVIOUS
    <3>1. n \in Nat /\ c[s] \in Nat \cup {None}
      BY <1>4, <1>5, <1>6
    <3>2. /\ f[s] = IF c[s] = None THEN n ELSE c[s]
          /\ Least(k)[s] = IF d[s] = None THEN n ELSE d[s]
      BY <2>1
    <3>3. IF s = q THEN d[s] = None /\ c[s] = n ELSE c[s] = d[s]
      BY <1>1, <1>6
    <3> QED
      BY <3>1, <3>2, <3>3
  <2> QED
    BY <2>1, <2>2
<1>8. /\ k.seen <= on /\ k.seen <= SumFunction(f)
      /\ \A s \in S : c[s] # None => c[s] <= Cardinality(TrialsOn({s}))
  <2>1. /\ k.seen <= on /\ k.seen <= SumFunction(Least(k))
        /\ \A s \in S : k.counts[s] # None => k.counts[s] <= Cardinality(TrialsOn({s}))
    BY <1>2 DEF Counted
  <2>2. ASSUME NEW s \in S, c[s] # None
        PROVE  c[s] <= Cardinality(TrialsOn({s}))
    <3>1. CASE s = q
      <4> PICK n : n = Cardinality(TrialsOn({q}))
        OBVIOUS
      <4>1. n \in Nat /\ c[q] = n
        BY <1>5, <1>6
      <4> QED
        BY <3>1, <4>1
    <3>2. CASE s # q
      <4>1. c[s] = k.counts[s]
        BY <1>6, <3>2
      <4> QED
        BY <2>1, <2>2, <4>1
    <3> QED
      BY <3>1, <3>2
  <2> QED
    BY <1>7, <2>1, <2>2
<1>9. SumFunction(f) \in Nat /\ on \in Nat /\ SumFunction(f) <= on
  <2>1. \A s \in S : k.counts[s] # None => k.counts[s] <= Cardinality(TrialsOn({s}))
    BY <1>2 DEF Counted
  <2>2. /\ on \in Nat /\ SumFunction(Least(k)) \in Nat
        /\ (\A s \in S : k.counts[s] # None => k.counts[s] <= Cardinality(TrialsOn({s})))
           => SumFunction(Least(k)) <= on
    BY <1>2, <1>3, LeastIs
  <2> QED
    BY <1>7, <2>1, <2>2
<1>10. t \in Nat \cup {None} /\ (t # None => t - b.external - 1 \in k.seen..on)
  <2>1. CASE \E s \in S : c[s] = None
    BY <1>1, <2>1 DEF PooledTrials
  <2>2. CASE \A s \in S : c[s] # None
    <3>1. f = [s \in S |-> c[s]]
      <4>1. \A s \in S : f[s] = c[s]
        BY <2>2, Zenon
      <4>2. f = [s \in S |-> f[s]]
        BY <1>7
      <4> QED
        BY <4>1, <4>2
    <3>2. t = SumFunction(f) + b.external + 1
      BY <1>1, <2>2, <3>1 DEF PooledTrials
    <3> QED
      BY <1>4, <1>6, <1>8, <1>9, <3>2
  <2> QED
    BY <2>1, <2>2
<1> DEFINE l == [k EXCEPT !.counts = c, !.trials = t]
<1>11. /\ l \in AnalysisJob /\ l.evidence = k.evidence /\ l.book = b
       /\ l.results = k.results /\ l.counts = c /\ l.trials = t /\ l.seen = k.seen
  <2>1. l \in AnalysisJob
    BY <1>2, <1>6, <1>10 DEF AnalysisJob
  <2>2. /\ l.evidence = k.evidence /\ l.book = b
        /\ l.results = k.results /\ l.counts = c /\ l.trials = t /\ l.seen = k.seen
    BY <1>2 DEF AnalysisJob
  <2> QED
    BY <2>1, <2>2
<1>12. Advance(j, l)
  BY <1>1, Zenon
<1> HIDE DEF l
<1>13. InHand(l)'
  <2> PICK n, h, e : n = Len(k.results) /\ h = Len(b.sleeves) /\ e = k.evidence
    OBVIOUS
  <2>1. n = h /\ l.book = b /\ l.results = k.results /\ l.evidence = e
    BY <1>1, <1>11
  <2>2. /\ Len(e) <= h /\ (k.results # <<>> => Len(e) = h)
        /\ \A m \in 1..Len(e) : /\ e[m] \in 1..Len(audits)
                                 /\ audits[e[m]] = Trial(b.sleeves[m].surface, FALSE)
    BY <1>2 DEF InHand
  <2>3. InHand(l)
    <3>1. Len(l.results) = Len(l.book.sleeves)
      BY <2>1
    <3>2. /\ Len(l.evidence) <= Len(l.book.sleeves)
          /\ l.results # <<>> => Len(l.evidence) = Len(l.book.sleeves)
      BY <2>1, <2>2
    <3>3. \A m \in 1..Len(l.evidence) :
             /\ l.evidence[m] \in 1..Len(audits)
             /\ audits[l.evidence[m]] = Trial(l.book.sleeves[m].surface, FALSE)
      <4> SUFFICES ASSUME NEW m \in 1..Len(l.evidence)
                   PROVE  /\ l.evidence[m] \in 1..Len(audits)
                          /\ audits[l.evidence[m]] = Trial(l.book.sleeves[m].surface, FALSE)
        OBVIOUS
      <4> PICK x : x = Trial(b.sleeves[m].surface, FALSE)
        OBVIOUS
      <4>1. e[m] \in 1..Len(audits) /\ audits[e[m]] = x
        BY <2>1, <2>2
      <4>2. Trial(l.book.sleeves[m].surface, FALSE) = x
        BY <2>1
      <4> QED
        BY <2>1, <4>1, <4>2
    <3> QED
      BY <3>1, <3>2, <3>3 DEF InHand
  <2> QED
    BY <1>3, <2>3 DEF InHand, Trial
<1>14. Counted(l)'
  <2>1. Least(l) = f
    BY <1>11 DEF Least
  <2>2. Counted(l)
    BY <1>8, <1>10, <1>11, <2>1 DEF Counted
  <2> QED
    BY <1>3, <2>2 DEF Counted, Least, TrialsOn, CountsAsTrial, SurfacesOf
<1> QED
  BY <1>1, <1>3, <1>11, <1>12, <1>13, <1>14, AnalysisAdvances

LEMMA BookVerdictsAre ==
    ASSUME NEW results
    PROVE  \A v \in BookVerdicts(results) : v.decision \in Decisions
<1>1. \A s, n, a : DecisionVerdict(s, n, a) \in Decisions
  BY DEF DecisionVerdict, Decisions
<1> PICK n : n = Total([i \in DOMAIN results |-> results[i].n])
  OBVIOUS
<1> QED
  BY <1>1, SMT DEF BookVerdicts, Field

(* What a commit writes: the rows of the sleeves it has in hand, and no     *)
(* other, get the iteration.                                                *)
LEMMA CommitWrites ==
    ASSUME IInv, NEW j \in Jobs, CommitAnalysis(j), NEW k, k = job[j],
           NEW i, i = Len(iterations) + 1
    PROVE  \E d \in Decisions, row \in BookRow :
              /\ Working(j, "analyze") /\ k.trials # None /\ Len(k.evidence) = Len(k.book.sleeves)
              /\ row.book = k.book /\ row.evidence = k.evidence /\ row.verdict = d
              /\ row.trials = k.trials /\ row.seen = k.seen
              /\ iterations' = Append(iterations, row) /\ End(j)
              /\ UNCHANGED <<certificates, journal, digests>>
              /\ audits' \in Seq(Audit) /\ Len(audits') = Len(audits)
              /\ \A a \in 1..Len(audits) : a \notin Range(k.evidence) => audits'[a] = audits[a]
              /\ \A n \in 1..Len(k.evidence) :
                    audits'[k.evidence[n]] =
                       [surface |-> k.book.sleeves[n].surface, draw |-> FALSE,
                        iteration |-> i, verdict |-> d]
<1> PICK E : E = Range(k.evidence)
  OBVIOUS
<1>1. PICK v \in BookVerdicts(k.results) :
         /\ iterations' = Append(iterations,
               [book |-> k.book, evidence |-> k.evidence, verdict |-> v.decision,
                trials |-> k.trials, seen |-> k.seen])
         /\ audits' = [a \in DOMAIN audits |->
               IF a \in E
               THEN [audits[a] EXCEPT !.iteration = i, !.verdict = v.decision]
               ELSE audits[a]]
  BY DEF CommitAnalysis
<1>2. /\ Working(j, "analyze") /\ k.trials # None /\ End(j)
      /\ UNCHANGED <<certificates, journal, digests>>
  BY DEF CommitAnalysis
<1>3. /\ k \in AnalysisJob /\ InHand(k) /\ Len(k.results) \in Nat
      /\ Len(k.evidence) \in Nat /\ DOMAIN k.evidence = 1..Len(k.evidence)
      /\ Len(k.book.sleeves) # 0
      /\ Len(k.results) # 0 => Len(k.evidence) = Len(k.book.sleeves)
  BY <1>2, InAnalysis
<1>4. Len(k.evidence) = Len(k.book.sleeves)
  <2>1. Len(k.results) = Len(k.book.sleeves)
    BY <1>2, <1>3 DEF InHand
  <2> QED
    BY <1>3, <2>1
<1> PICK d : d = v.decision
  OBVIOUS
<1>5. d \in Decisions
  BY BookVerdictsAre
<1> DEFINE row == [book |-> k.book, evidence |-> k.evidence, verdict |-> d,
                   trials |-> k.trials, seen |-> k.seen]
<1>6. /\ row \in BookRow
      /\ row.book = k.book /\ row.evidence = k.evidence /\ row.verdict = d
      /\ row.trials = k.trials /\ row.seen = k.seen
  BY <1>2, <1>3, <1>5 DEF BookRow, AnalysisJob
<1>7. iterations' = Append(iterations, row)
  BY <1>1
<1> HIDE DEF row
<1>8. /\ audits \in Seq(Audit) /\ Len(audits) \in Nat /\ DOMAIN audits = 1..Len(audits)
      /\ iterations \in Seq(BookRow) /\ i \in Nat
  BY DEF IInv, TypeInv, RowsTyped
<1>9. DOMAIN audits' = DOMAIN audits
  BY <1>1
<1>10. ASSUME NEW a \in 1..Len(audits)
       PROVE  /\ audits[a] \in Audit /\ audits'[a] \in Audit
              /\ a \notin E => audits'[a] = audits[a]
              /\ a \in E => audits'[a] = [audits[a] EXCEPT !.iteration = i, !.verdict = d]
  <2>1. a \in DOMAIN audits
    BY <1>8, <1>10, Zenon
  <2> PICK t : t = audits[a]
    OBVIOUS
  <2>2. t \in Audit
    BY <1>8, <1>10
  <2>3. audits'[a] = IF a \in E THEN [t EXCEPT !.iteration = i, !.verdict = d] ELSE t
    BY <1>1, <2>1, Zenon
  <2>4. [t EXCEPT !.iteration = i, !.verdict = d] \in Audit
    BY <1>5, <1>8, <2>2 DEF Audit
  <2> QED
    BY <2>2, <2>3, <2>4
<1>11. audits' \in Seq(Audit) /\ Len(audits') = Len(audits)
  <2> PICK n, t : n = Len(audits) /\ t = audits'
    OBVIOUS
  <2>1. n \in Nat /\ DOMAIN t = 1..n /\ \A a \in 1..n : t[a] \in Audit
    BY <1>8, <1>9, <1>10, Zenon
  <2>2. t = [a \in DOMAIN t |-> t[a]]
    BY <1>1, Zenon
  <2>3. t \in [1..n -> Audit]
    BY <2>1, <2>2
  <2>4. t \in Seq(Audit) /\ Len(t) = n
    BY <2>1, <2>3, SeqDef, LenProperties
  <2> QED
    BY <2>4
<1>12. ASSUME NEW n \in 1..Len(k.evidence)
       PROVE  audits'[k.evidence[n]] =
                 [surface |-> k.book.sleeves[n].surface, draw |-> FALSE,
                  iteration |-> i, verdict |-> d]
  <2> PICK a, s : a = k.evidence[n] /\ s = k.book.sleeves[n].surface
    OBVIOUS
  <2>1. a \in 1..Len(audits) /\ audits[a] = Trial(s, FALSE)
    BY <1>3 DEF InHand
  <2>2. a \in E
    BY <1>3, <1>12 DEF Range
  <2>3. audits'[a] = [audits[a] EXCEPT !.iteration = i, !.verdict = d]
    BY <1>10, <2>1, <2>2
  <2> PICK t, u : t = audits[a] /\ u = audits'[a]
    OBVIOUS
  <2>4. t \in Audit /\ t.surface = s /\ t.draw = FALSE /\ u \in Audit
    <3>1. t = Trial(s, FALSE) /\ t \in Audit /\ u \in Audit
      BY <1>10, <2>1
    <3> QED
      BY <3>1 DEF Trial
  <2>5. u = [t EXCEPT !.iteration = i, !.verdict = d]
    BY <2>3
  <2>6. u.surface = s /\ u.draw = FALSE /\ u.iteration = i /\ u.verdict = d
    BY <2>4, <2>5 DEF Audit
  <2>7. u = [surface |-> s, draw |-> FALSE, iteration |-> i, verdict |-> d]
    BY <2>4, <2>6 DEF Audit
  <2> QED
    BY <2>7
<1> QED
  BY <1>2, <1>4, <1>5, <1>6, <1>7, <1>10, <1>11, <1>12

LEMMA CommitKeeps ==
    ASSUME IInv, NEW j \in Jobs, CommitAnalysis(j)
    PROVE  IInv'
<1> PICK k : k = job[j]
  OBVIOUS
<1> PICK i : i = Len(iterations) + 1
  OBVIOUS
<1> PICK E : E = Range(k.evidence)
  OBVIOUS
<1>1. PICK d \in Decisions, row \in BookRow :
         /\ Working(j, "analyze") /\ k.trials # None /\ Len(k.evidence) = Len(k.book.sleeves)
         /\ row.book = k.book /\ row.evidence = k.evidence /\ row.verdict = d
         /\ row.trials = k.trials /\ row.seen = k.seen
         /\ iterations' = Append(iterations, row) /\ End(j)
         /\ UNCHANGED <<certificates, journal, digests>>
         /\ audits' \in Seq(Audit) /\ Len(audits') = Len(audits)
         /\ \A a \in 1..Len(audits) : a \notin E => audits'[a] = audits[a]
         /\ \A n \in 1..Len(k.evidence) :
               audits'[k.evidence[n]] =
                  [surface |-> k.book.sleeves[n].surface, draw |-> FALSE,
                   iteration |-> i, verdict |-> d]
  BY CommitWrites
<1>2. TypeInv /\ EvidenceInv /\ BookEvidence /\ CountInv /\ MultiplicityIsCurrent
  BY DEF IInv
<1>3. /\ k \in AnalysisJob /\ InHand(k) /\ Counted(k)
      /\ Len(k.evidence) \in Nat /\ DOMAIN k.evidence = 1..Len(k.evidence)
  BY <1>1, InAnalysis
<1>4. /\ audits \in Seq(Audit) /\ Len(audits) \in Nat /\ DOMAIN audits = 1..Len(audits)
      /\ DOMAIN audits' = 1..Len(audits)
      /\ iterations \in Seq(BookRow) /\ Len(iterations) \in Nat
      /\ DOMAIN iterations = 1..Len(iterations)
  BY <1>1, <1>2 DEF TypeInv, RowsTyped
<1>5. /\ iterations' \in Seq(BookRow) /\ Len(iterations') = i /\ iterations'[i] = row
      /\ \A n \in 1..Len(iterations) : iterations'[n] = iterations[n]
      /\ DOMAIN iterations' = 1..i /\ i \in Nat
  BY <1>1, <1>4, AppendProperties
<1>6. /\ DOMAIN job' = Jobs /\ job'[j] = None /\ \A h \in Jobs \ {j} : job'[h] = job[h]
      /\ UNCHANGED <<reviewed, spent, crashes>>
  BY <1>1, <1>2, JobUpdated DEF End, Advance, TypeInv
<1>7. ASSUME NEW a \in E
      PROVE  /\ a \in 1..Len(audits) /\ audits[a].iteration = None /\ audits[a].draw = FALSE
             /\ audits'[a].iteration = i
             /\ audits'[a].surface = audits[a].surface
             /\ \E n \in 1..Len(k.evidence) : k.evidence[n] = a
  <2>1. PICK n \in 1..Len(k.evidence) : k.evidence[n] = a
    BY <1>3, <1>7 DEF Range
  <2> PICK s : s = k.book.sleeves[n].surface
    OBVIOUS
  <2>2. a \in 1..Len(audits) /\ audits[a] = Trial(s, FALSE)
    BY <1>3, <2>1 DEF InHand
  <2>3. audits'[a] = [surface |-> s, draw |-> FALSE, iteration |-> i, verdict |-> d]
    BY <1>1, <2>1
  <2> QED
    BY <2>1, <2>2, <2>3 DEF Trial
<1>8. i # None /\ i \notin 1..Len(iterations)
  BY <1>4, GauntletAssumption
<1>9. TrialsKept
  <2> SUFFICES ASSUME NEW S
               PROVE  /\ TrialsOn(S) \subseteq TrialsOn(S)' /\ IsFiniteSet(TrialsOn(S)')
                      /\ Cardinality(TrialsOn(S)) \in Nat /\ Cardinality(TrialsOn(S)') \in Nat
                      /\ Cardinality(TrialsOn(S)) <= Cardinality(TrialsOn(S)')
    BY DEF TrialsKept
  <2>1. ASSUME NEW a \in TrialsOn(S)
        PROVE  a \in TrialsOn(S)'
    <3>1. /\ a \in 1..Len(audits) /\ audits[a].surface \in S
          /\ audits[a].iteration # None \/ audits[a].draw
      BY <1>4, <2>1 DEF TrialsOn, CountsAsTrial
    <3>2. a \notin E
      BY <1>7, <3>1
    <3>3. audits'[a] = audits[a] /\ a \in DOMAIN audits'
      BY <1>1, <1>4, <3>1, <3>2
    <3> QED
      BY <3>1, <3>3 DEF TrialsOn, CountsAsTrial
  <2>2. TrialsOn(S) \subseteq 1..Len(audits) /\ TrialsOn(S)' \subseteq 1..Len(audits)
    BY <1>4 DEF TrialsOn
  <2>3. IsFiniteSet(TrialsOn(S)) /\ IsFiniteSet(TrialsOn(S)')
    <3>1. IsFiniteSet(1..Len(audits))
      BY <1>4, FS_Interval
    <3> QED
      BY <2>2, <3>1, FS_Subset
  <2> QED
    BY <2>1, <2>3, FS_Subset, FS_CardinalityType
<1>10. \A S : TrialsOn(S) \cap E = {}
  <2> SUFFICES ASSUME NEW S, NEW a \in TrialsOn(S), a \in E
               PROVE  FALSE
    OBVIOUS
  <2>1. audits[a].iteration # None \/ audits[a].draw
    BY DEF TrialsOn, CountsAsTrial
  <2> QED
    BY <1>7, <2>1
<1>11. TypeInv'
  <2>1. \A h \in Jobs : job'[h] # None => Shaped(job'[h])
    BY <1>2, <1>6 DEF TypeInv, JobsShaped
  <2>2. ASSUME NEW a \in 1..Len(audits')
        PROVE  audits'[a].iteration \in 1..Len(iterations') \cup {None}
    <3>1. CASE a \in E
      <4>1. audits'[a].iteration = i
        BY <1>7, <3>1
      <4>2. i \in 1..Len(iterations')
        BY <1>4, <1>5
      <4> QED
        BY <4>1, <4>2
    <3>2. CASE a \notin E
      <4>1. a \in DOMAIN audits /\ audits'[a] = audits[a]
        BY <1>1, <1>4, <2>2, <3>2
      <4>2. audits[a].iteration \in 1..Len(iterations) \cup {None}
        BY <1>2, <1>4, <4>1 DEF TypeInv, TypeOK
      <4> QED
        BY <1>4, <1>5, <4>1, <4>2
    <3> QED
      BY <3>1, <3>2
  <2>3. ASSUME NEW h \in 1..Len(iterations'), NEW n \in 1..Len(iterations'[h].evidence)
        PROVE  iterations'[h].evidence[n] \in 1..Len(audits')
    <3>1. CASE h = i
      <4>1. iterations'[h].evidence = k.evidence
        BY <1>1, <1>5, <3>1
      <4>2. k.evidence[n] \in 1..Len(audits)
        BY <1>3, <2>3, <4>1 DEF InHand
      <4> QED
        BY <1>1, <4>1, <4>2
    <3>2. CASE h # i
      <4>1. h \in 1..Len(iterations) /\ iterations'[h] = iterations[h]
        BY <1>4, <1>5, <2>3, <3>2
      <4> PICK it : it = iterations[h]
        OBVIOUS
      <4>2. h \in DOMAIN iterations
        BY <1>4, <4>1, Zenon
      <4>3. it \in BookRow /\ Range(it.evidence) \subseteq DOMAIN audits
        BY <1>2, <1>4, <4>2 DEF TypeInv, TypeOK
      <4>4. it.evidence[n] \in 1..Len(audits)
        <5>1. n \in DOMAIN it.evidence
          BY <2>3, <4>1, <4>3 DEF BookRow
        <5> QED
          BY <1>4, <4>3, <5>1 DEF Range
      <4> QED
        BY <1>1, <4>1, <4>4
    <3> QED
      BY <3>1, <3>2
  <2>4. /\ reviewed' \subseteq DOMAIN TickTrades \cup 1..Len(iterations')
        /\ spent' \in 0..MaxCost /\ crashes' \in 0..MaxCrashes
    <3>1. 1..Len(iterations) \subseteq 1..Len(iterations')
      BY <1>4, <1>5
    <3>2. reviewed \subseteq DOMAIN TickTrades \cup 1..Len(iterations)
      BY <1>2, <1>4 DEF TypeInv, TypeOK
    <3>3. spent \in 0..MaxCost /\ crashes \in 0..MaxCrashes
      BY <1>2 DEF TypeInv, TypeOK
    <3> QED
      BY <1>6, <3>1, <3>2, <3>3
  <2>5. certificates' = certificates /\ journal' = journal /\ digests' = digests
    BY <1>1
  <2> QED
    BY <1>1, <1>2, <1>5, <1>6, <2>1, <2>2, <2>3, <2>4, <2>5, TypeKept
<1>12. EvidenceInv'
  <2>1. ASSUME NEW h \in Jobs, Working(h, "analyze")'
        PROVE  h # j /\ job'[h] = job[h] /\ Working(h, "analyze")
    BY <1>6, <2>1 DEF Working
  <2>2. ASSUME NEW h \in Jobs, Working(h, "analyze")'
        PROVE  InHand(job[h])'
    <3> PICK m : m = job[h]
      OBVIOUS
    <3>1. h # j /\ job'[h] = m /\ Working(h, "analyze") /\ InHand(m)
      BY <1>2, <2>1, <2>2 DEF EvidenceInv
    <3>2. ASSUME NEW n \in 1..Len(m.evidence)
          PROVE  /\ m.evidence[n] \in 1..Len(audits')
                 /\ audits'[m.evidence[n]] = Trial(m.book.sleeves[n].surface, FALSE)
      <4> PICK a, t : a = m.evidence[n] /\ t = Trial(m.book.sleeves[n].surface, FALSE)
        OBVIOUS
      <4>1. a \in 1..Len(audits) /\ audits[a] = t
        BY <3>1, <3>2 DEF InHand
      <4>2. a \notin E
        <5> SUFFICES ASSUME a \in E
                     PROVE  FALSE
          OBVIOUS
        <5>1. PICK q \in 1..Len(k.evidence) : k.evidence[q] = a
          BY <1>7
        <5>2. Disjoint
          BY <1>2 DEF EvidenceInv
        <5> QED
          BY <1>1, <3>1, <3>2, <5>1, <5>2 DEF Disjoint
      <4>3. audits'[a] = t
        BY <1>1, <4>1, <4>2
      <4>4. a \in 1..Len(audits')
        BY <1>1, <4>1
      <4> QED
        BY <4>3, <4>4
    <3> QED
      BY <3>1, <3>2 DEF InHand, Trial
  <2>3. Disjoint'
    <3> SUFFICES ASSUME NEW g \in Jobs, NEW h \in Jobs,
                        Working(g, "analyze")', Working(h, "analyze")',
                        NEW m \in 1..Len(job'[g].evidence), NEW n \in 1..Len(job'[h].evidence),
                        job'[g].evidence[m] = job'[h].evidence[n]
                 PROVE  g = h /\ m = n
      BY DEF Disjoint
    <3>1. job'[g] = job[g] /\ Working(g, "analyze") /\ job'[h] = job[h] /\ Working(h, "analyze")
      BY <2>1
    <3> QED
      BY <1>2, <3>1 DEF EvidenceInv, Disjoint
  <2> QED
    BY <2>2, <2>3 DEF EvidenceInv
<1>13. BookEvidence'
  <2>1. ASSUME NEW h \in DOMAIN iterations'
        PROVE  /\ Len(iterations'[h].evidence) = Len(iterations'[h].book.sleeves)
               /\ \A n \in DOMAIN iterations'[h].evidence :
                     audits'[iterations'[h].evidence[n]] =
                        [surface |-> iterations'[h].book.sleeves[n].surface, draw |-> FALSE,
                         iteration |-> h, verdict |-> iterations'[h].verdict]
    <3>1. CASE h = i
      <4> PICK it : it = iterations'[h]
        OBVIOUS
      <4>1. it.evidence = k.evidence /\ it.book = k.book /\ it.verdict = d
        BY <1>1, <1>5, <3>1
      <4>2. /\ Len(k.evidence) = Len(k.book.sleeves)
            /\ \A n \in DOMAIN k.evidence :
                  audits'[k.evidence[n]] =
                     [surface |-> k.book.sleeves[n].surface, draw |-> FALSE,
                      iteration |-> h, verdict |-> d]
        BY <1>1, <1>3, <3>1
      <4> QED
        BY <4>1, <4>2
    <3>2. CASE h # i
      <4> PICK it : it = iterations[h]
        OBVIOUS
      <4>1. h \in 1..Len(iterations) /\ iterations'[h] = it
        <5>1. h \in 1..i
          BY <1>5, <2>1, Zenon
        <5> QED
          BY <1>4, <1>5, <3>2, <5>1
      <4>2. h \in DOMAIN iterations
        BY <1>4, <4>1, Zenon
      <4>3. /\ Len(it.evidence) = Len(it.book.sleeves)
            /\ Range(it.evidence) \subseteq DOMAIN audits
            /\ \A n \in DOMAIN it.evidence :
                  audits[it.evidence[n]] =
                     [surface |-> it.book.sleeves[n].surface, draw |-> FALSE,
                      iteration |-> h, verdict |-> it.verdict]
        BY <1>2, <4>2 DEF BookEvidence, TypeInv, TypeOK
      <4>4. ASSUME NEW n \in DOMAIN it.evidence
            PROVE  audits'[it.evidence[n]] =
                     [surface |-> it.book.sleeves[n].surface, draw |-> FALSE,
                      iteration |-> h, verdict |-> it.verdict]
        <5> PICK a : a = it.evidence[n]
          OBVIOUS
        <5>1. a \in 1..Len(audits)
          BY <1>4, <4>3 DEF Range
        <5>2. audits[a] = [surface |-> it.book.sleeves[n].surface, draw |-> FALSE,
                           iteration |-> h, verdict |-> it.verdict]
          BY <4>3
        <5>3. h # None
          BY <4>1, GauntletAssumption, <1>4
        <5>4. a \notin E
          <6>1. audits[a].iteration = h
            BY <5>2
          <6> QED
            BY <1>7, <5>3, <6>1
        <5>5. audits'[a] = audits[a]
          BY <1>1, <5>1, <5>4
        <5> QED
          BY <5>2, <5>5
      <4> QED
        BY <4>1, <4>3, <4>4
    <3> QED
      BY <3>1, <3>2
  <2>2. ASSUME NEW a \in DOMAIN audits', audits'[a].iteration # None
        PROVE  \E n \in DOMAIN iterations'[audits'[a].iteration].evidence :
                  iterations'[audits'[a].iteration].evidence[n] = a
    <3>1. CASE a \in E
      <4>1. PICK n \in 1..Len(k.evidence) : k.evidence[n] = a
        BY <1>7, <3>1
      <4>2. audits'[a].iteration = i /\ iterations'[i].evidence = k.evidence
        BY <1>1, <1>5, <1>7, <3>1
      <4>3. n \in DOMAIN k.evidence
        BY <1>3, <4>1, Zenon
      <4> QED
        BY <4>1, <4>2, <4>3
    <3>2. CASE a \notin E
      <4>1. a \in DOMAIN audits /\ a \in 1..Len(audits)
        BY <1>4, <2>2, Zenon
      <4>2. audits'[a] = audits[a]
        BY <1>1, <3>2, <4>1
      <4> PICK h : h = audits[a].iteration
        OBVIOUS
      <4>3. h \in DOMAIN iterations
        BY <1>2, <2>2, <4>1, <4>2 DEF TypeInv, TypeOK
      <4>4. h \in 1..Len(iterations)
        BY <1>4, <4>3, Zenon
      <4>5. iterations'[h] = iterations[h]
        BY <1>5, <4>4
      <4>6. \E n \in DOMAIN iterations[h].evidence : iterations[h].evidence[n] = a
        BY <1>2, <2>2, <4>1, <4>2 DEF BookEvidence
      <4> QED
        BY <4>2, <4>5, <4>6
    <3> QED
      BY <3>1, <3>2
  <2> QED
    BY <2>1, <2>2 DEF BookEvidence
<1>14. /\ \A it \in BookRow : Deflated(it) => Deflated(it)'
       /\ \A m \in AnalysisJob : Counted(m) => Counted(m)'
  BY <1>2, <1>9, CountsKept
<1>15. journal' = journal
  BY <1>1
<1>16. CountInv'
  <2>1. ASSUME NEW h \in Jobs, Working(h, "analyze")'
        PROVE  Counted(job[h])'
    <3> PICK m : m = job[h]
      OBVIOUS
    <3>1. job'[h] = m /\ Counted(m) /\ m \in AnalysisJob
      BY <1>2, <1>6, <2>1 DEF CountInv, Working, TypeInv, JobsShaped, Shaped
    <3>2. Counted(m)'
      BY <1>14, <3>1
    <3> QED
      BY <3>1, <3>2 DEF Counted
  <2>2. ASSUME NEW h \in Jobs, Working(h, "signal")'
        PROVE  Compared(job[h])'
    <3>1. job'[h] = job[h] /\ Working(h, "signal")
      BY <1>6, <2>2 DEF Working
    <3>2. Compared(job[h])
      BY <1>2, <3>1 DEF CountInv
    <3> QED
      BY <1>15, <3>1, <3>2 DEF Compared, Screened
  <2> QED
    BY <2>1, <2>2 DEF CountInv
<1>17. Deflated(row)'
  <2> PICK S, on, B : /\ S = SurfacesOf(k.book) /\ on = Cardinality(TrialsOn(S))
                      /\ B = TrialsOn(S)' \ E
    OBVIOUS
  <2>1. on \in Nat /\ Cardinality(B) \in Nat /\ on <= Cardinality(B)
    <3>1. TrialsOn(S) \subseteq B /\ IsFiniteSet(TrialsOn(S)') /\ on \in Nat
      BY <1>9, <1>10 DEF TrialsKept
    <3>2. IsFiniteSet(B)
      BY <3>1, FS_Subset
    <3> QED
      BY <3>1, <3>2, FS_Subset, FS_CardinalityType
  <2>2. /\ k.trials \in Nat /\ k.seen \in Nat /\ k.book.external \in Nat
        /\ k.trials - k.book.external - 1 \in k.seen..on
    BY <1>1, <1>3, BooksAre DEF Counted, AnalysisJob
  <2>3. k.trials - k.book.external - 1 \in k.seen..Cardinality(B)
    BY <2>1, <2>2
  <2>4. S = SurfacesOf(row.book) /\ E = Range(row.evidence)
    BY <1>1
  <2>5. row.trials - row.book.external - 1
           \in row.seen..Cardinality(TrialsOn(SurfacesOf(row.book))' \ Range(row.evidence))
    BY <1>1, <2>3, <2>4
  <2> QED
    BY <2>5 DEF Deflated, SurfacesOf
<1>18. MultiplicityIsCurrent'
  <2>1. ASSUME NEW h \in DOMAIN iterations'
        PROVE  Deflated(iterations[h])'
    <3>1. CASE h = i
      BY <1>5, <1>17, <3>1 DEF Deflated
    <3>2. CASE h # i
      <4> PICK it : it = iterations[h]
        OBVIOUS
      <4>1. h \in 1..Len(iterations) /\ iterations'[h] = it
        <5>1. h \in 1..i
          BY <1>5, <2>1, Zenon
        <5> QED
          BY <1>4, <1>5, <3>2, <5>1
      <4>2. h \in DOMAIN iterations
        BY <1>4, <4>1, Zenon
      <4>3. it \in BookRow /\ Deflated(it)
        BY <1>2, <1>4, <4>2, RowsDeflated
      <4>4. Deflated(it)'
        BY <1>14, <4>3
      <4> QED
        BY <4>1, <4>4 DEF Deflated
    <3> QED
      BY <3>1, <3>2
  <2>2. \A h \in DOMAIN journal' : Preceded(h)'
    BY <1>2, <1>15, RowsDeflated DEF Preceded, Screened
  <2> QED
    BY <2>1, <2>2, RowsDeflated
<1> QED
  BY <1>11, <1>12, <1>13, <1>16, <1>18 DEF IInv

---------------------------------------------------------------------------
(* Dates *)

(* Where a year, and a month of it, begin.                                  *)
YearStart(y) == 365 * y + (y - 1) \div 4
MonthStart(y, m) == YearStart(y)
    + <<0, 31, 59, 90, 120, 151, 181, 212, 243, 273, 304, 334>>[m]
    + (IF m > 2 /\ y % 4 = 0 THEN 1 ELSE 0)

LEMMA DayInMonth ==
    ASSUME NEW d \in Date
    PROVE  /\ d[1] \in Nat /\ d[2] \in 1..12 /\ d[3] \in 1..LastDay(d[1], d[2])
           /\ DayNumber(d) = MonthStart(d[1], d[2]) + d[3]
<1>1. /\ d[1] \in Nat /\ d[2] \in 1..12 /\ d[3] \in 1..31 /\ d[3] <= LastDay(d[1], d[2])
  BY DEF Date
<1>2. LastDay(d[1], d[2]) \in 1..31
  BY <1>1 DEF LastDay
<1> PICK y, m, n, o : /\ y = d[1] /\ m = d[2] /\ n = d[3]
                      /\ o = <<0, 31, 59, 90, 120, 151, 181, 212, 243, 273, 304, 334>>
  OBVIOUS
<1>3. \A k \in 1..12 : o[k] \in Nat
  OBVIOUS
<1>4. DayNumber(d) = n + o[m] + 365 * y + (y - 1) \div 4 + (IF m > 2 /\ y % 4 = 0 THEN 1 ELSE 0)
  BY DEF DayNumber
<1>5. MonthStart(y, m) = 365 * y + (y - 1) \div 4 + o[m] + (IF m > 2 /\ y % 4 = 0 THEN 1 ELSE 0)
  BY DEF MonthStart, YearStart
<1>6. o[m] \in Nat
  BY <1>1, <1>3
<1>7. y \in Nat /\ n \in Nat /\ (y - 1) \div 4 \in Int
  BY <1>1
<1>8. DayNumber(d) = MonthStart(y, m) + n
  BY <1>4, <1>5, <1>6, <1>7
<1> QED
  BY <1>1, <1>2, <1>8

LEMMA MonthsInOrder ==
    ASSUME NEW y \in Nat, NEW m \in 1..12, NEW z \in Nat, NEW k \in 1..12,
           y < z \/ (y = z /\ m < k)
    PROVE  /\ MonthStart(y, m) \in Int /\ MonthStart(z, k) \in Int
           /\ MonthStart(y, m) + LastDay(y, m) <= MonthStart(z, k)
<1> PICK o : o = <<0, 31, 59, 90, 120, 151, 181, 212, 243, 273, 304, 334>>
  OBVIOUS
<1> DEFINE leap(x) == IF x % 4 = 0 THEN 1 ELSE 0
<1>1. /\ \A i \in 1..12 : o[i] \in 0..334
      /\ \A i \in 1..11 : o[i] + LastDay(1, i) = o[i + 1]
  <2>1. \A i \in 1..11 : i \in {1, 2, 3, 4, 5, 6, 7, 8, 9, 10, 11}
    OBVIOUS
  <2> QED
    BY <2>1 DEF LastDay
<1>2. \A i \in 1..12, j \in 1..12 : i < j => o[i] + LastDay(1, i) <= o[j]
  <2>1. \A i \in 1..12 : i \in {1, 2, 3, 4, 5, 6, 7, 8, 9, 10, 11, 12}
    OBVIOUS
  <2> QED
    BY <2>1 DEF LastDay
<1>3. \A i \in 1..12 : o[i] + LastDay(1, i) <= 365
  <2>1. \A i \in 1..12 : i \in {1, 2, 3, 4, 5, 6, 7, 8, 9, 10, 11, 12}
    OBVIOUS
  <2> QED
    BY <2>1 DEF LastDay
<1>4. LastDay(y, m) = LastDay(1, m) + (IF m = 2 THEN leap(y) ELSE 0) /\ LastDay(1, m) \in 1..31
  BY DEF LastDay
<1>5. ASSUME NEW x \in Nat, NEW i \in 1..12
      PROVE  MonthStart(x, i) = YearStart(x) + o[i] + (IF i > 2 THEN leap(x) ELSE 0)
  <2>1. (IF i > 2 /\ x % 4 = 0 THEN 1 ELSE 0) = (IF i > 2 THEN leap(x) ELSE 0)
    OBVIOUS
  <2> QED
    BY <2>1 DEF MonthStart
<1>6. \A x \in Nat : leap(x) \in 0..1
  OBVIOUS
<1>7. ASSUME NEW x \in Nat
      PROVE  /\ YearStart(x) \in Int
             /\ YearStart(x + 1) = YearStart(x) + 365 + leap(x)
  BY DEF YearStart
<1>8. \A x \in Nat : x > y => YearStart(y + 1) <= YearStart(x)
  BY DEF YearStart
<1>9. ASSUME NEW x \in Nat, NEW i \in 1..12
      PROVE  MonthStart(x, i) \in Int
  <2> PICK a, s, r : a = o[i] /\ s = YearStart(x) /\ r = leap(x)
    OBVIOUS
  <2>1. a \in Nat /\ s \in Int /\ r \in Nat
    BY <1>1, <1>6, <1>7
  <2>2. MonthStart(x, i) = s + a + (IF i > 2 THEN r ELSE 0)
    BY <1>5
  <2> QED
    BY <2>1, <2>2
<1>10. CASE y = z
  <2>1. m < k /\ o[m] + LastDay(1, m) <= o[k] /\ o[m] \in Nat /\ o[k] \in Nat
    BY <1>1, <1>2, <1>10
  <2>2. k > 2 \/ m # 2
    BY <2>1
  <2> PICK a, b, c, l, s, r : /\ a = o[m] /\ b = o[k] /\ c = LastDay(1, m) /\ l = LastDay(y, m)
                              /\ s = YearStart(y) /\ r = leap(y)
    OBVIOUS
  <2> HIDE DEF leap
  <2>3. /\ MonthStart(y, m) = s + a + (IF m > 2 THEN r ELSE 0)
        /\ MonthStart(y, k) = s + b + (IF k > 2 THEN r ELSE 0)
        /\ l = c + (IF m = 2 THEN r ELSE 0)
    BY <1>4, <1>5
  <2>4. s \in Int /\ r \in 0..1 /\ a \in Nat /\ b \in Nat /\ c \in Nat /\ a + c <= b
    BY <1>4, <1>6, <1>7, <2>1
  <2>5. MonthStart(y, m) + l <= MonthStart(y, k)
    BY <2>1, <2>2, <2>3, <2>4
  <2> QED
    BY <1>9, <1>10, <2>5
<1>11. CASE y < z
  <2> PICK a, b, c, l, s, e, r, q : /\ a = o[m] /\ b = o[k] /\ c = LastDay(1, m) /\ l = LastDay(y, m)
                                    /\ s = YearStart(y) /\ e = YearStart(z) /\ r = leap(y) /\ q = leap(z)
    OBVIOUS
  <2> HIDE DEF leap
  <2>1. /\ MonthStart(y, m) = s + a + (IF m > 2 THEN r ELSE 0)
        /\ MonthStart(z, k) = e + b + (IF k > 2 THEN q ELSE 0)
        /\ l = c + (IF m = 2 THEN r ELSE 0)
    BY <1>4, <1>5
  <2>2. s + 365 + r <= e
    BY <1>7, <1>8, <1>11
  <2>3. /\ s \in Int /\ e \in Int /\ r \in 0..1 /\ q \in 0..1 /\ a \in Nat /\ b \in Nat
        /\ c \in Nat /\ a + c <= 365
    BY <1>1, <1>3, <1>4, <1>6, <1>7
  <2>4. MonthStart(y, m) + l <= MonthStart(z, k)
    BY <2>1, <2>2, <2>3
  <2> QED
    BY <1>9, <2>4
<1> QED
  BY <1>10, <1>11

(* Any set of numbers that is not empty has a least.                        *)
LEMMA LeastNumber ==
    ASSUME NEW S \in SUBSET Nat, S # {}
    PROVE  \E m \in S : \A n \in S : m <= n
<1>1. PICK m \in S : \A n \in S : <<n, m>> \notin OpToRel(<, Nat)
  BY NatLessThanWellFounded, WFMin
<1>2. ASSUME NEW n \in S
      PROVE  m <= n
  <2>1. ~(n < m)
    BY <1>1 DEF OpToRel
  <2> QED
    BY <2>1
<1> QED
  BY <1>2

LEMMA MonthOf ==
    ASSUME NEW t \in Nat
    PROVE  t \div 12 \in Nat /\ (t % 12) + 1 \in 1..12 /\ t % 12 = t - 12 * (t \div 12)
<1>1. t \div 12 \in Nat
  OBVIOUS
<1>2. t % 12 \in 0..11
  OBVIOUS
<1>3. t % 12 = t - 12 * (t \div 12)
  OBVIOUS
<1> QED
  BY <1>1, <1>2, <1>3

(* Adding months to a day leads to a day, and to a later one.              *)
LEMMA LaterMonth ==
    ASSUME NEW d \in Date, NEW months \in Nat
    PROVE  /\ AddMonths(d, months) \in Date
           /\ months >= 1 => Before(d, AddMonths(d, months))
<1>1. PICK y, m, n : y = d[1] /\ m = d[2] /\ n = d[3]
  OBVIOUS
<1>2. /\ y \in Nat /\ m \in 1..12 /\ n \in 1..LastDay(y, m)
      /\ DayNumber(d) = MonthStart(y, m) + n
  BY <1>1, DayInMonth
<1>3. PICK total : total = y * 12 + (m - 1) + months
  OBVIOUS
<1>4. PICK z, r, k : z = total \div 12 /\ r = total % 12 /\ k = (total % 12) + 1
  OBVIOUS
<1>5. total \in Nat
  BY <1>2, <1>3
<1>6. z \in Nat /\ k \in 1..12 /\ r = total - 12 * z
  BY <1>4, <1>5, MonthOf
<1>7. r \in Int /\ k = r + 1
  BY <1>4, <1>5
<1>8. 12 * z + k = 12 * y + m + months
  BY <1>2, <1>3, <1>6, <1>7
<1>9. \A a, b \in Nat : LastDay(a, b) \in 28..31
  BY DEF LastDay
<1>10. PICK l, p, q : l = LastDay(z, k) /\ p = Min({n, l}) /\ q = LastDay(y, m)
  OBVIOUS
<1>11. l \in 28..31 /\ q \in 28..31 /\ n \in 1..q
  <2>1. y \in Nat /\ m \in Nat /\ z \in Nat /\ k \in Nat
    BY <1>2, <1>6
  <2> QED
    BY <1>2, <1>9, <1>10, <2>1
<1>12. p \in 1..31 /\ p <= l
  <2>1. \E x \in {n, l} : \A w \in {n, l} : x <= w
    BY <1>11
  <2>2. p \in {n, l} /\ \A w \in {n, l} : p <= w
    BY <1>10, <2>1 DEF Min
  <2> QED
    BY <1>11, <2>2
<1>13. AddMonths(d, months) = <<z, k, p>>
  BY <1>1, <1>3, <1>4, <1>10 DEF AddMonths
<1>14. <<z, k, p>> \in Date
  BY <1>6, <1>10, <1>12 DEF Date
<1>15. ASSUME months >= 1
       PROVE  DayNumber(d) < DayNumber(<<z, k, p>>)
  <2>1. y < z \/ (y = z /\ m < k)
    <3>1. y \in Int /\ z \in Int /\ m \in 1..12 /\ k \in 1..12
      BY <1>2, <1>6
    <3>2. 12 * z + k > 12 * y + m
      BY <1>8, <1>15, <3>1
    <3> HIDE <1>15
    <3> QED
      BY <3>1, <3>2
  <2>2. /\ MonthStart(y, m) \in Int /\ MonthStart(z, k) \in Int
        /\ MonthStart(y, m) + q <= MonthStart(z, k)
    BY <1>2, <1>6, <1>10, <2>1, MonthsInOrder
  <2>3. DayNumber(<<z, k, p>>) = MonthStart(z, k) + p
    BY <1>14, DayInMonth
  <2> QED
    BY <1>2, <1>11, <1>12, <2>2, <2>3
<1> QED
  BY <1>13, <1>14, <1>15 DEF Before

---------------------------------------------------------------------------
(* The drain *)

(* What a drain has noted of its ticks.                                     *)
Logged(ticks) == {i \in 1..Len(ticks) : ticks[i].outcome = "iterated"}
Discarded(ticks) == {i \in Logged(ticks) : ticks[i].verdict = "DISCARD"}

TallyRecord == [stats : [StatsCounted -> Nat], discards : Nat, iters : Nat,
                last : DOMAIN TickTrades \cup {None}, retryable : BOOLEAN \cup {None}]

LastLogged(ticks, last) ==
    \/ Logged(ticks) = {} /\ last = None
    \/ \E m \in Logged(ticks) : (\A i \in Logged(ticks) : i <= m) /\ last = ticks[m].iteration

Tallied(ticks, tally) ==
    /\ tally.iters = Cardinality(Logged(ticks))
    /\ tally.iters = tally.stats["SIGNIFICANT_EDGE"] + tally.stats["INSUFFICIENT_EVIDENCE"]
                     + tally.stats["NO_EDGE"]
    /\ tally.discards = Cardinality(Discarded(ticks))
    /\ LastLogged(ticks, tally.last)

DrainJob == [kind : {"drain"}, ticks : Seq(TickAnswers), tally : TallyRecord]

Draining(k) ==
    /\ k \in DrainJob /\ Len(k.ticks) <= MaxIters
    /\ \A i \in 1..Len(k.ticks) : NextAction(k.ticks[i]) = "CONTINUE"
    /\ Tallied(k.ticks, k.tally) /\ k.tally.retryable = None

DrainInv == \A j \in Jobs : Working(j, "drain") => Draining(job[j])

(* What run_tick may answer, and what the drain makes of it.                *)
LEMMA Answers ==
    ASSUME NEW t \in TickAnswers
    PROVE  \/ t.outcome = "empty_queue" /\ NextAction(t) = "EMPTY_QUEUE"
           \/ t.outcome = "sweep_exhausted" /\ NextAction(t) = "PIVOT"
           \/ /\ t.outcome = "raised" /\ t.retryable \in BOOLEAN
              /\ NextAction(t) \in {"CONFIG_FAIL", "INFRA_FAIL"}
           \/ /\ t.outcome = "iterated" /\ t.iteration \in DOMAIN TickTrades
              /\ t.stat \in StatsCounted /\ NextAction(t) \in {"GRADUATE", "PIVOT", "CONTINUE"}
<1>1. \/ t \in {EmptyQueue, Exhausted}
      \/ \E config, retryable \in BOOLEAN : t = Raised(config, retryable)
      \/ \E i \in DOMAIN TickTrades, stat \in StatsCounted, verdict \in {"PASS", "ITERATE", "DISCARD"} :
            t = Iterated(i, stat, verdict)
  BY AnswerAssumption
<1>2. CASE t = EmptyQueue
  BY <1>2 DEF EmptyQueue, NextAction
<1>3. CASE t = Exhausted
  BY <1>3 DEF Exhausted, NextAction
<1>4. ASSUME NEW config \in BOOLEAN, NEW retryable \in BOOLEAN, t = Raised(config, retryable)
      PROVE  /\ t.outcome = "raised" /\ t.retryable \in BOOLEAN
             /\ NextAction(t) \in {"CONFIG_FAIL", "INFRA_FAIL"}
  BY <1>4 DEF Raised, NextAction
<1>5. ASSUME NEW i \in DOMAIN TickTrades, NEW stat \in StatsCounted,
             NEW verdict \in {"PASS", "ITERATE", "DISCARD"}, t = Iterated(i, stat, verdict)
      PROVE  /\ t.outcome = "iterated" /\ t.iteration \in DOMAIN TickTrades
             /\ t.stat \in StatsCounted /\ NextAction(t) \in {"GRADUATE", "PIVOT", "CONTINUE"}
  BY <1>5 DEF Iterated, NextAction
<1> QED
  BY <1>1, <1>2, <1>3, <1>4, <1>5

(* What an iteration adds to a tally.                                       *)
LEMMA AccountAdds ==
    ASSUME NEW tally \in TallyRecord, NEW t \in TickAnswers
    PROVE  LET a == Account(tally, t) IN
           /\ a \in TallyRecord
           /\ t.outcome = "iterated" =>
                /\ a.iters = tally.iters + 1 /\ a.last = t.iteration
                /\ a.discards = tally.discards + (IF t.verdict = "DISCARD" THEN 1 ELSE 0)
                /\ a.stats["SIGNIFICANT_EDGE"] + a.stats["INSUFFICIENT_EVIDENCE"] + a.stats["NO_EDGE"]
                   = tally.stats["SIGNIFICANT_EDGE"] + tally.stats["INSUFFICIENT_EVIDENCE"]
                     + tally.stats["NO_EDGE"] + 1
                /\ a.retryable = tally.retryable
           /\ t.outcome # "iterated" =>
                /\ a.iters = tally.iters /\ a.last = tally.last /\ a.discards = tally.discards
                /\ a.stats = tally.stats
                /\ a.retryable = IF t.outcome = "raised" THEN t.retryable ELSE tally.retryable
<1> PICK st, di, it, la, re : /\ st = tally.stats /\ di = tally.discards /\ it = tally.iters
                              /\ la = tally.last /\ re = tally.retryable
  OBVIOUS
<1>1. /\ st \in [StatsCounted -> Nat] /\ di \in Nat /\ it \in Nat
      /\ la \in DOMAIN TickTrades \cup {None} /\ re \in BOOLEAN \cup {None}
      /\ tally = [stats |-> st, discards |-> di, iters |-> it, last |-> la, retryable |-> re]
  BY DEF TallyRecord
<1>2. CASE t.outcome = "iterated"
  <2> PICK s : s = [st EXCEPT ![t.stat] = @ + 1]
    OBVIOUS
  <2> PICK d : d = di + (IF t.verdict = "DISCARD" THEN 1 ELSE 0)
    OBVIOUS
  <2>1. t.stat \in StatsCounted /\ t.iteration \in DOMAIN TickTrades
    BY <1>2, Answers
  <2>2. Account(tally, t) = [stats |-> s, discards |-> d, iters |-> it + 1,
                             last |-> t.iteration, retryable |-> re]
    BY <1>1, <1>2 DEF Account
  <2>3. s \in [StatsCounted -> Nat] /\ d \in Nat /\ it + 1 \in Nat
    BY <1>1, <2>1
  <2>4. s["SIGNIFICANT_EDGE"] + s["INSUFFICIENT_EVIDENCE"] + s["NO_EDGE"]
        = st["SIGNIFICANT_EDGE"] + st["INSUFFICIENT_EVIDENCE"] + st["NO_EDGE"] + 1
    BY <1>1, <2>1 DEF StatsCounted
  <2> PICK a : a = Account(tally, t)
    OBVIOUS
  <2>5. a \in TallyRecord
    BY <1>1, <2>1, <2>2, <2>3 DEF TallyRecord
  <2>6. a.iters = it + 1 /\ a.last = t.iteration /\ a.discards = d /\ a.stats = s /\ a.retryable = re
    BY <2>2
  <2> QED
    BY <1>2, <2>4, <2>5, <2>6
<1>3. CASE t.outcome = "raised"
  <2>1. t.retryable \in BOOLEAN
    BY <1>3, Answers
  <2>2. Account(tally, t) = [stats |-> st, discards |-> di, iters |-> it, last |-> la,
                             retryable |-> t.retryable]
    BY <1>1, <1>3 DEF Account
  <2> QED
    BY <1>1, <1>3, <2>1, <2>2 DEF TallyRecord
<1>4. CASE t.outcome \notin {"iterated", "raised"}
  <2>1. Account(tally, t) = tally
    BY <1>4 DEF Account
  <2> QED
    BY <1>4, <2>1
<1> QED
  BY <1>2, <1>3, <1>4

LEMMA StatsSum ==
    ASSUME NEW st \in [StatsCounted -> Nat]
    PROVE  SumFunction(st) = st["SIGNIFICANT_EDGE"] + st["INSUFFICIENT_EVIDENCE"] + st["NO_EDGE"]
<1> PICK a, b, c : a = "SIGNIFICANT_EDGE" /\ b = "INSUFFICIENT_EVIDENCE" /\ c = "NO_EDGE"
  OBVIOUS
<1>1. StatsCounted = {a, b, c} /\ a # b /\ b # c /\ a # c
  BY DEF StatsCounted
<1>2. st[a] \in Nat /\ st[b] \in Nat /\ st[c] \in Nat /\ DOMAIN st = {a, b, c}
  BY <1>1
<1>3. IsFiniteSet({a, b, c})
  <2>1. IsFiniteSet({}) /\ {} \cup {a} = {a} /\ {a} \cup {b} = {a, b} /\ {a, b} \cup {c} = {a, b, c}
    BY FS_EmptySet
  <2>2. IsFiniteSet({a})
    BY FS_Singleton
  <2>3. IsFiniteSet({a, b})
    BY <2>1, <2>2, FS_AddElement
  <2> QED
    BY <2>1, <2>3, FS_AddElement
<1> DEFINE of(x, U) == IF x \in U THEN st[x] ELSE 0
<1> PICK count : count = [U \in SUBSET {a, b, c} |-> of(a, U) + of(b, U) + of(c, U)]
  OBVIOUS
<1>4. Adding(count, st)
  <2>1. count = [U \in SUBSET DOMAIN st |-> count[U]]
    BY <1>2
  <2>2. count[{}] = 0
    OBVIOUS
  <2>3. ASSUME NEW U \in SUBSET {a, b, c}, NEW x \in U
        PROVE  count[U] = st[x] + count[U \ {x}]
    BY <1>1, <1>2
  <2> QED
    BY <1>2, <2>1, <2>2, <2>3 DEF Adding
<1>5. count[{a, b, c}] = st[a] + st[b] + st[c]
  BY <1>2
<1> QED
  BY <1>2, <1>3, <1>4, <1>5, SumIs

(* A drain's tally after one more tick.                                     *)
LEMMA AfterTick ==
    ASSUME NEW k, Draining(k), NEW t \in TickAnswers
    PROVE  LET ticks == Append(k.ticks, t)
               tally == Account(k.tally, t)
           IN  /\ ticks \in Seq(TickAnswers) /\ Len(ticks) = Len(k.ticks) + 1
               /\ \A i \in 1..Len(k.ticks) : NextAction(ticks[i]) = "CONTINUE"
               /\ ticks[Len(ticks)] = t
               /\ tally \in TallyRecord /\ Tallied(ticks, tally)
               /\ (tally.retryable # None <=> NextAction(t) \in {"INFRA_FAIL", "CONFIG_FAIL"})
<1> PICK ts, u, b, a, n : /\ ts = k.ticks /\ u = Append(ts, t) /\ b = k.tally
                          /\ a = Account(b, t) /\ n = Len(ts)
  OBVIOUS
<1>1. /\ ts \in Seq(TickAnswers) /\ n \in Nat /\ b \in TallyRecord /\ b.retryable = None
      /\ Tallied(ts, b) /\ \A i \in 1..n : NextAction(ts[i]) = "CONTINUE"
  BY DEF Draining, DrainJob
<1>2. /\ u \in Seq(TickAnswers) /\ Len(u) = n + 1 /\ u[n + 1] = t
      /\ \A i \in 1..n : u[i] = ts[i]
  BY <1>1, AppendProperties
<1>3. IsFiniteSet(Logged(ts)) /\ IsFiniteSet(Discarded(ts)) /\ n + 1 \notin Logged(ts)
      /\ Logged(ts) \subseteq 1..n /\ Discarded(ts) \subseteq Logged(ts)
  <2>1. IsFiniteSet(1..n)
    BY <1>1, FS_Interval
  <2>2. Logged(ts) \subseteq 1..n /\ Discarded(ts) \subseteq Logged(ts)
    BY DEF Logged, Discarded
  <2> QED
    BY <1>1, <2>1, <2>2, FS_Subset
<1>4. /\ Logged(u) = IF t.outcome = "iterated" THEN Logged(ts) \cup {n + 1} ELSE Logged(ts)
      /\ t.outcome # "iterated" => Discarded(u) = Discarded(ts)
      /\ t.outcome = "iterated" =>
            Discarded(u) = IF t.verdict = "DISCARD" THEN Discarded(ts) \cup {n + 1} ELSE Discarded(ts)
  <2>1. Logged(u) = IF t.outcome = "iterated" THEN Logged(ts) \cup {n + 1} ELSE Logged(ts)
    BY <1>1, <1>2 DEF Logged
  <2> QED
    BY <1>1, <1>2, <1>3, <2>1 DEF Discarded
<1> DEFINE three(s) == s["SIGNIFICANT_EDGE"] + s["INSUFFICIENT_EVIDENCE"] + s["NO_EDGE"]
<1>5. /\ a \in TallyRecord
      /\ t.outcome = "iterated" =>
           /\ a.iters = b.iters + 1 /\ a.last = t.iteration
           /\ a.discards = b.discards + (IF t.verdict = "DISCARD" THEN 1 ELSE 0)
           /\ three(a.stats) = three(b.stats) + 1 /\ a.retryable = b.retryable
      /\ t.outcome # "iterated" =>
           /\ a.iters = b.iters /\ a.last = b.last /\ a.discards = b.discards /\ a.stats = b.stats
           /\ a.retryable = IF t.outcome = "raised" THEN t.retryable ELSE b.retryable
  BY <1>1, AccountAdds
<1>6. /\ b.iters = Cardinality(Logged(ts)) /\ b.iters = three(b.stats)
      /\ b.discards = Cardinality(Discarded(ts)) /\ LastLogged(ts, b.last)
      /\ b.iters \in Nat /\ b.discards \in Nat
  BY <1>1 DEF Tallied, TallyRecord
<1> HIDE DEF three
<1>7. a.retryable # None <=> NextAction(t) \in {"INFRA_FAIL", "CONFIG_FAIL"}
  BY <1>1, <1>5, Answers, GauntletAssumption
<1>8. CASE t.outcome = "iterated"
  <2> PICK L, D : L = Logged(ts) /\ D = Discarded(ts)
    OBVIOUS
  <2>1. Cardinality(Logged(u)) = b.iters + 1
    <3>1. IsFiniteSet(L) /\ n + 1 \notin L /\ Cardinality(L) = b.iters /\ Logged(u) = L \cup {n + 1}
      BY <1>3, <1>4, <1>6, <1>8
    <3> QED
      BY <3>1, FS_AddElement
  <2>2. Cardinality(Discarded(u)) = a.discards
    <3>1. n + 1 \notin Discarded(ts)
      BY <1>3
    <3>2. CASE t.verdict = "DISCARD"
      <4>1. /\ IsFiniteSet(D) /\ n + 1 \notin D /\ Cardinality(D) = b.discards
            /\ Discarded(u) = D \cup {n + 1} /\ a.discards = b.discards + 1
        BY <1>3, <1>4, <1>5, <1>6, <1>8, <3>1, <3>2
      <4> QED
        BY <4>1, FS_AddElement
    <3>3. CASE t.verdict # "DISCARD"
      BY <1>4, <1>5, <1>6, <1>8, <3>3
    <3> QED
      BY <3>2, <3>3
  <2>3. LastLogged(u, a.last)
    <3>1. n + 1 \in Logged(u) /\ (\A i \in Logged(u) : i <= n + 1)
      BY <1>1, <1>3, <1>4, <1>8
    <3> QED
      BY <1>2, <1>5, <1>8, <3>1 DEF LastLogged
  <2>4. a.iters = three(a.stats)
    BY <1>5, <1>6, <1>8
  <2> QED
    BY <1>1, <1>2, <1>5, <1>6, <1>7, <1>8, <2>1, <2>2, <2>3, <2>4 DEF Tallied, three
<1>9. CASE t.outcome # "iterated"
  <2>1. LastLogged(u, a.last)
    BY <1>2, <1>3, <1>4, <1>5, <1>6, <1>9 DEF LastLogged
  <2>2. a.iters = Cardinality(Logged(u)) /\ a.discards = Cardinality(Discarded(u)) /\ a.iters = three(a.stats)
    BY <1>4, <1>5, <1>6, <1>9
  <2> QED
    BY <1>1, <1>2, <1>5, <1>7, <2>1, <2>2 DEF Tallied, three
<1> QED
  BY <1>8, <1>9

---------------------------------------------------------------------------
(* One handler at a time *)

(* Work on a request keeps its kind, and leaves the other handlers alone.   *)
LEMMA WorkMoves ==
    ASSUME TypeInv, NEW j \in Jobs, Work(j)
    PROVE  /\ \E l : job' = [job EXCEPT ![j] = l] /\ (l = None \/ l.kind = job[j].kind)
           /\ UNCHANGED reviewed
<1>1. CASE OtherWork(j)
  BY <1>1, OtherWorkMoves DEF Moved
<1> PICK k : k = job[j]
  OBVIOUS
<1>2. k # None => "kind" \in DOMAIN k
  BY DEF TypeInv, JobsShaped, Shaped
<1> DEFINE Goes == /\ \E l : job' = [job EXCEPT ![j] = l] /\ (l = None \/ l.kind = k.kind)
                   /\ UNCHANGED reviewed
<1>3. ASSUME NEW l, Advance(j, l), l = None \/ l.kind = k.kind
      PROVE  Goes
  BY <1>3 DEF Advance
<1>4. End(j) => Goes
  BY <1>3 DEF End
<1>5. /\ \A x : k # None => [k EXCEPT !.evidence = x].kind = k.kind
      /\ \A x, y : k # None => [k EXCEPT !.results = x, !.seen = y].kind = k.kind
      /\ \A x, y : k # None => [k EXCEPT !.counts = x, !.trials = y].kind = k.kind
      /\ \A x : k # None => [k EXCEPT !.prior = x].kind = k.kind
  BY <1>2
<1> SUFFICES Goes
  OBVIOUS
<1> HIDE DEF Goes
<1>6. CASE AuditSleeve(j)
  <2>1. PICK x : Advance(j, [k EXCEPT !.evidence = x]) /\ k # None
    BY <1>6 DEF AuditSleeve, Working
  <2> QED
    BY <1>3, <1>5, <2>1
<1>7. CASE RunSleeve(j)
  <2>1. End(j) \/ (k # None /\ \E x, y : Advance(j, [k EXCEPT !.results = x, !.seen = y]))
    BY <1>7 DEF RunSleeve, Working
  <2>2. ASSUME NEW x, NEW y, k # None, Advance(j, [k EXCEPT !.results = x, !.seen = y])
        PROVE  Goes
    BY <1>3, <1>5, <2>2
  <2> QED
    BY <1>4, <2>1, <2>2
<1>8. CASE CountTrials(j)
  <2>1. PICK x, y : Advance(j, [k EXCEPT !.counts = x, !.trials = y]) /\ k # None
    BY <1>8 DEF CountTrials, Working
  <2> QED
    BY <1>3, <1>5, <2>1
<1>9. CASE CountScreens(j)
  <2>1. PICK x : Advance(j, [k EXCEPT !.prior = x]) /\ k # None
    BY <1>9 DEF CountScreens, Working
  <2> QED
    BY <1>3, <1>5, <2>1
<1>10. CASE CommitAnalysis(j)
  <2>1. End(j)
    BY <1>10 DEF CommitAnalysis
  <2> QED
    BY <1>4, <2>1
<1>11. CASE InsertScreen(j)
  <2>1. End(j)
    BY <1>11 DEF InsertScreen
  <2> QED
    BY <1>4, <2>1
<1>12. CASE Raise(j)
  BY <1>4, <1>12 DEF Raise
<1> QED
  BY <1>1, <1>6, <1>7, <1>8, <1>9, <1>10, <1>11, <1>12 DEF Work, OtherWork, Goes

(* Only a drain writes digests, and only the walk-forward of a book writes  *)
(* a certificate of one.                                                    *)
LEMMA WorkWrites ==
    ASSUME NEW j \in Jobs, Work(j)
    PROVE  /\ \/ RunTick(j) \/ StopDrain(j) \/ Raise(j)
              \/ job[j] # None /\ job[j].kind # "drain" /\ UNCHANGED digests
           /\ \/ RunSleeveOfFold(j) \/ CloseFold(j) \/ InsertBookWalk(j) \/ Raise(j)
              \/ /\ job[j] # None /\ job[j].kind # "bookwalk"
                 /\ \/ UNCHANGED certificates
                    \/ \E c : c.kind # "bookwalk" /\ certificates' = Append(certificates, c)
           /\ UNCHANGED iterations \/ \E r : iterations' = Append(iterations, r)
<1> DEFINE NotDrain == job[j] # None /\ job[j].kind # "drain" /\ UNCHANGED digests
           NotWalk == /\ job[j] # None /\ job[j].kind # "bookwalk"
                      /\ \/ UNCHANGED certificates
                         \/ \E c : c.kind # "bookwalk" /\ certificates' = Append(certificates, c)
           Grows == UNCHANGED iterations \/ \E r : iterations' = Append(iterations, r)
<1>1. CASE RunFold(j) \/ RunWindow(j) \/ RunDraw(j) \/ RunScale(j) \/ CountTrials(j)
           \/ RunSleeve(j) \/ CountScreens(j)
  <2>1. NotDrain
    BY <1>1 DEF RunFold, RunWindow, RunDraw, RunScale, CountTrials, RunSleeve, CountScreens, Working, rows
  <2>2. NotWalk
    BY <1>1 DEF RunFold, RunWindow, RunDraw, RunScale, CountTrials, RunSleeve, CountScreens, Working, rows
  <2>3. Grows
    BY <1>1 DEF RunFold, RunWindow, RunDraw, RunScale, CountTrials, RunSleeve, CountScreens, rows
  <2> QED
    BY <2>1, <2>2, <2>3
<1>2. CASE AuditSleeve(j) \/ AuditDraw(j) \/ ConcludeNullScreen(j) \/ InsertScreen(j)
  <2>1. CASE AuditSleeve(j)
    BY <2>1 DEF AuditSleeve, Working
  <2>2. CASE AuditDraw(j)
    BY <2>2 DEF AuditDraw, Working
  <2>3. CASE ConcludeNullScreen(j)
    BY <2>3 DEF ConcludeNullScreen, Working
  <2>4. CASE InsertScreen(j)
    BY <2>4 DEF InsertScreen, Working
  <2> QED
    BY <1>2, <2>1, <2>2, <2>3, <2>4
<1>3. CASE CommitAnalysis(j)
  BY <1>3 DEF CommitAnalysis, Working
<1>4. CASE RunSleeveOfFold(j) \/ CloseFold(j)
  BY <1>4 DEF RunSleeveOfFold, CloseFold, Working, rows
<1>5. CASE InsertBookWalk(j)
  BY <1>5 DEF InsertBookWalk, Working
<1>6. CASE InsertWalkForward(j)
  <2> PICK results, folds, input : results = job[j].results /\ folds = job[j].folds
                                   /\ input = job[j].input
    OBVIOUS
  <2>1. PICK enough, significant \in BOOLEAN :
           certificates' = Append(certificates,
              [kind |-> "walk", iteration |-> input.iteration, folds |-> folds, results |-> results,
               verdict |-> WalkForwardVerdict(results, input.daily, enough, significant)])
    BY <1>6 DEF InsertWalkForward
  <2>2. NotWalk
    BY <1>6, <2>1 DEF InsertWalkForward, Working
  <2> QED
    BY <1>6, <2>2 DEF InsertWalkForward, Working
<1>7. CASE InsertCrossWindow(j)
  <2>1. PICK r, v : certificates' = Append(certificates, [kind |-> "cross", results |-> r, verdict |-> v])
    BY <1>7 DEF InsertCrossWindow
  <2>2. NotWalk
    BY <1>7, <2>1 DEF InsertCrossWindow, Working
  <2> QED
    BY <1>7, <2>2 DEF InsertCrossWindow, Working
<1>8. CASE PersistSweep(j)
  <2>1. certificates' = certificates
        \/ \E r, w, v, a, b : certificates' = Append(certificates,
              [kind |-> "capacity", results |-> r, viable |-> w, verdict |-> v, atFloor |-> a, atMax |-> b])
    BY <1>8 DEF PersistSweep
  <2>2. NotWalk
    BY <1>8, <2>1 DEF PersistSweep, Working
  <2> QED
    BY <1>8, <2>2 DEF PersistSweep, Working
<1>9. CASE RunTick(j)
  <2>1. Working(j, "drain") /\ UNCHANGED <<certificates, iterations>>
    BY <1>9 DEF RunTick, Answer, rows
  <2> QED
    BY <1>9, <2>1 DEF Working
<1>10. CASE StopDrain(j)
  <2>1. Working(j, "drain") /\ UNCHANGED <<certificates, iterations>>
    BY <1>10 DEF StopDrain, Answer
  <2> QED
    BY <1>10, <2>1 DEF Working
<1>11. CASE Raise(j)
  BY <1>11 DEF Raise, rows
<1> QED
  BY <1>1, <1>2, <1>3, <1>4, <1>5, <1>6, <1>7, <1>8, <1>9, <1>10, <1>11 DEF Work

---------------------------------------------------------------------------
(* What a drain answers *)

Answered(ticks, tally, terminal) ==
    /\ ticks \in Seq(TickAnswers) /\ Len(ticks) >= 1
    /\ \A i \in 1..(Len(ticks) - 1) : NextAction(ticks[i]) = "CONTINUE"
    /\ NextAction(ticks[Len(ticks)]) \in {terminal, "CONTINUE"}
    /\ terminal = "MAX_ITERS_REACHED" => Len(ticks) = MaxIters
    /\ tally \in TallyRecord /\ Tallied(ticks, tally)
    /\ tally.retryable # None <=> terminal \in {"INFRA_FAIL", "CONFIG_FAIL"}

DigestInv == \A d \in Range(digests) : Answered(d.ticks, d.tally, d.terminal)

LEMMA AnswersAccount ==
    ASSUME DigestInv
    PROVE  DrainAccounts
<1> SUFFICES ASSUME NEW d \in Range(digests)
             PROVE  LET n == Len(d.ticks)
                        logged == {i \in 1..n : d.ticks[i].outcome = "iterated"}
                    IN  /\ \A i \in 1..(n - 1) : NextAction(d.ticks[i]) = "CONTINUE"
                        /\ NextAction(d.ticks[n]) \in {d.terminal, "CONTINUE"}
                        /\ d.terminal = "MAX_ITERS_REACHED" => n = MaxIters
                        /\ d.tally.iters = Cardinality(logged)
                        /\ d.tally.iters = SumFunction(d.tally.stats)
                        /\ d.tally.discards =
                              Cardinality({i \in logged : d.ticks[i].verdict = "DISCARD"})
                        /\ d.tally.last = IF logged = {} THEN None
                                          ELSE d.ticks[Max(logged)].iteration
                        /\ d.tally.retryable # None <=> d.terminal \in {"INFRA_FAIL", "CONFIG_FAIL"}
  BY DEF DrainAccounts
<1> PICK ticks, tally, terminal, n : /\ ticks = d.ticks /\ tally = d.tally /\ terminal = d.terminal
                                     /\ n = Len(ticks)
  OBVIOUS
<1> DEFINE logged == {i \in 1..n : ticks[i].outcome = "iterated"}
<1>1. Answered(ticks, tally, terminal)
  BY DEF DigestInv
<1>2. Logged(ticks) = logged
  BY DEF Logged
<1>3. Discarded(ticks) = {i \in logged : ticks[i].verdict = "DISCARD"}
  BY <1>2 DEF Discarded
<1>4. SumFunction(tally.stats) = tally.iters
  <2>1. tally.stats \in [StatsCounted -> Nat]
    BY <1>1 DEF Answered, TallyRecord
  <2> QED
    BY <1>1, <2>1, StatsSum DEF Answered, Tallied
<1>5. tally.last = IF logged = {} THEN None ELSE ticks[Max(logged)].iteration
  <2>1. LastLogged(ticks, tally.last)
    BY <1>1 DEF Answered, Tallied
  <2>2. CASE logged = {}
    BY <1>2, <2>1, <2>2 DEF LastLogged
  <2>3. CASE logged # {}
    <3>1. PICK m \in logged : (\A i \in logged : i <= m) /\ tally.last = ticks[m].iteration
      BY <1>2, <2>1, <2>3 DEF LastLogged
    <3>2. logged \subseteq Int
      OBVIOUS
    <3> HIDE DEF logged
    <3> PICK x : x = Max(logged)
      OBVIOUS
    <3>3. x \in logged /\ \A i \in logged : x >= i
      BY <3>1, <3>2 DEF Max
    <3>4. x >= m /\ m >= x /\ x \in Int /\ m \in Int
      BY <3>1, <3>2, <3>3
    <3>5. x = m
      BY <3>4
    <3> QED
      BY <2>3, <3>1, <3>5
  <2> QED
    BY <2>2, <2>3
<1> HIDE DEF logged
<1>6. tally.iters = Cardinality(logged) /\ tally.discards = Cardinality(Discarded(ticks))
  BY <1>1, <1>2 DEF Answered, Tallied
<1>7. /\ \A i \in 1..(n - 1) : NextAction(ticks[i]) = "CONTINUE"
      /\ NextAction(ticks[n]) \in {terminal, "CONTINUE"}
      /\ terminal = "MAX_ITERS_REACHED" => n = MaxIters
      /\ tally.retryable # None <=> terminal \in {"INFRA_FAIL", "CONFIG_FAIL"}
  BY <1>1 DEF Answered
<1> QED
  BY <1>3, <1>4, <1>5, <1>6, <1>7 DEF logged

LEMMA DigestIs ==
    ASSUME NEW ticks, NEW tally, NEW terminal
    PROVE  LET d == Digest(ticks, tally, terminal) IN
           d.ticks = ticks /\ d.tally = tally /\ d.terminal = terminal
<1> PICK call : call = NextCall(terminal)
  OBVIOUS
<1>1. Digest(ticks, tally, terminal) =
      [ticks |-> ticks, tally |-> tally, terminal |-> terminal, next |-> call]
  BY DEF Digest
<1> QED
  BY <1>1

LEMMA DigestKept ==
    ASSUME TypeInv, DigestInv, NEW j \in Jobs, NEW ticks, NEW tally, NEW terminal,
           Answered(ticks, tally, terminal), Answer(j, ticks, tally, terminal)
    PROVE  DigestInv'
<1> PICK s, t, d : s = digests /\ t = digests' /\ d = Digest(ticks, tally, terminal)
  OBVIOUS
<1>1. s \in Seq(Range(s)) /\ t = Append(s, d)
  BY DEF TypeInv, RowsTyped, Answer
<1>2. Range(t) = Range(s) \cup {d}
  BY <1>1, Appended
<1>3. d.ticks = ticks /\ d.tally = tally /\ d.terminal = terminal
  BY DigestIs
<1>4. \A e \in Range(s) : Answered(e.ticks, e.tally, e.terminal)
  BY DEF DigestInv
<1>5. \A e \in Range(t) : Answered(e.ticks, e.tally, e.terminal)
  BY <1>2, <1>3, <1>4
<1> QED
  BY <1>5 DEF DigestInv

LEMMA NewDrain == Draining([kind |-> "drain", ticks |-> <<>>, tally |-> NewTally])
<1> PICK k, ts, a : /\ k = [kind |-> "drain", ticks |-> <<>>, tally |-> NewTally]
                    /\ ts = k.ticks /\ a = k.tally
  OBVIOUS
<1>1. ts = <<>> /\ a = NewTally /\ ts \in Seq(TickAnswers) /\ Len(ts) = 0
  OBVIOUS
<1>2. a \in TallyRecord
  BY <1>1 DEF NewTally, TallyRecord
<1>3. k \in DrainJob
  BY <1>1, <1>2 DEF DrainJob
<1>4. Logged(ts) = {} /\ Discarded(ts) = {}
  BY <1>1 DEF Logged, Discarded
<1>5. /\ a.iters = 0 /\ a.discards = 0 /\ a.last = None /\ a.retryable = None
      /\ a.stats["SIGNIFICANT_EDGE"] = 0 /\ a.stats["INSUFFICIENT_EVIDENCE"] = 0
      /\ a.stats["NO_EDGE"] = 0
  BY <1>1 DEF NewTally, StatsCounted
<1>6. Tallied(ts, a)
  <2>1. Cardinality(Logged(ts)) = 0 /\ Cardinality(Discarded(ts)) = 0
    BY <1>4, FS_EmptySet
  <2>2. LastLogged(ts, a.last)
    BY <1>4, <1>5 DEF LastLogged
  <2>3. a.stats["SIGNIFICANT_EDGE"] + a.stats["INSUFFICIENT_EVIDENCE"] + a.stats["NO_EDGE"] = 0
    BY <1>5
  <2> QED
    BY <1>5, <2>1, <2>2, <2>3 DEF Tallied
<1>7. MaxIters \in Nat
  BY GauntletAssumption
<1> QED
  BY <1>1, <1>3, <1>5, <1>6, <1>7 DEF Draining

LEMMA RunTickKeeps ==
    ASSUME TypeInv, DrainInv, DigestInv, NEW j \in Jobs, RunTick(j)
    PROVE  DigestInv' /\ (job'[j] # None => Draining(job'[j]))
<1> PICK k : k = job[j]
  OBVIOUS
<1>1. Working(j, "drain") /\ Len(k.ticks) < MaxIters
  BY DEF RunTick
<1>2. PICK t \in TickAnswers :
         IF NextAction(t) = "CONTINUE"
         THEN /\ Advance(j, [k EXCEPT !.ticks = Append(k.ticks, t), !.tally = Account(k.tally, t)])
              /\ UNCHANGED rows
         ELSE Answer(j, Append(k.ticks, t), Account(k.tally, t), NextAction(t))
  BY DEF RunTick
<1> PICK ticks, tally : ticks = Append(k.ticks, t) /\ tally = Account(k.tally, t)
  OBVIOUS
<1>3. Draining(k)
  BY <1>1 DEF DrainInv
<1>4. /\ ticks \in Seq(TickAnswers) /\ Len(ticks) = Len(k.ticks) + 1
      /\ \A i \in 1..Len(k.ticks) : NextAction(ticks[i]) = "CONTINUE"
      /\ ticks[Len(ticks)] = t
      /\ tally \in TallyRecord /\ Tallied(ticks, tally)
      /\ (tally.retryable # None <=> NextAction(t) \in {"INFRA_FAIL", "CONFIG_FAIL"})
  BY <1>3, AfterTick
<1>5. Len(k.ticks) \in Nat /\ k \in DrainJob /\ MaxIters \in Nat
  BY <1>3, GauntletAssumption DEF Draining, DrainJob
<1>6. CASE NextAction(t) = "CONTINUE"
  <2> PICK l : l = [k EXCEPT !.ticks = ticks, !.tally = tally]
    OBVIOUS
  <2>1. l \in DrainJob /\ l.ticks = ticks /\ l.tally = tally
    BY <1>4, <1>5 DEF DrainJob
  <2>2. job'[j] = l
    <3>1. job' = [job EXCEPT ![j] = l]
      BY <1>2, <1>6 DEF Advance
    <3> QED
      BY <3>1 DEF TypeInv, JobsShaped
  <2>3. \A i \in 1..Len(ticks) : NextAction(ticks[i]) = "CONTINUE"
    BY <1>4, <1>5, <1>6
  <2>4. Len(ticks) <= MaxIters
    BY <1>1, <1>4, <1>5
  <2>5. Draining(l)
    BY <1>4, <1>6, <2>1, <2>3, <2>4 DEF Draining
  <2>6. DigestInv'
    BY <1>2, <1>6 DEF DigestInv, rows
  <2> QED
    BY <2>2, <2>5, <2>6
<1>7. CASE NextAction(t) # "CONTINUE"
  <2>1. Answer(j, ticks, tally, NextAction(t))
    BY <1>2, <1>7
  <2>2. job'[j] = None
    BY <2>1 DEF Answer, End, Advance, TypeInv, JobsShaped
  <2>3. NextAction(t) # "MAX_ITERS_REACHED"
    BY Answers
  <2> PICK n, m : n = Len(k.ticks) /\ m = Len(ticks)
    OBVIOUS
  <2>4. m >= 1 /\ \A i \in 1..(m - 1) : NextAction(ticks[i]) = "CONTINUE"
    BY <1>4, <1>5
  <2>5. Answered(ticks, tally, NextAction(t))
    BY <1>4, <2>3, <2>4 DEF Answered
  <2> QED
    BY <2>1, <2>2, <2>5, DigestKept
<1> QED
  BY <1>6, <1>7

LEMMA StopDrainKeeps ==
    ASSUME TypeInv, DrainInv, DigestInv, NEW j \in Jobs, StopDrain(j)
    PROVE  DigestInv' /\ job'[j] = None
<1> PICK k, terminal : /\ k = job[j]
                       /\ terminal = IF Len(k.ticks) < MaxIters THEN "MAX_WALL_CLOCK_REACHED"
                                     ELSE "MAX_ITERS_REACHED"
  OBVIOUS
<1>1. Working(j, "drain") /\ k.ticks # <<>> /\ Answer(j, k.ticks, k.tally, terminal)
  BY DEF StopDrain
<1>2. Draining(k)
  BY <1>1 DEF DrainInv
<1> PICK ticks, tally, n : ticks = k.ticks /\ tally = k.tally /\ n = Len(ticks)
  OBVIOUS
<1>3. /\ ticks \in Seq(TickAnswers) /\ tally \in TallyRecord /\ n <= MaxIters /\ MaxIters \in Nat
      /\ \A i \in 1..n : NextAction(ticks[i]) = "CONTINUE"
      /\ Tallied(ticks, tally) /\ tally.retryable = None
  BY <1>2, GauntletAssumption DEF Draining, DrainJob
<1>4. n \in Nat /\ n >= 1
  BY <1>1, <1>3
<1>5. terminal = "MAX_ITERS_REACHED" => n = MaxIters
  BY <1>3, <1>4
<1>6. terminal \notin {"INFRA_FAIL", "CONFIG_FAIL"}
  OBVIOUS
<1>7. Answered(ticks, tally, terminal)
  BY <1>3, <1>4, <1>5, <1>6 DEF Answered
<1> QED
  BY <1>1, <1>7, DigestKept DEF Answer, End, Advance, TypeInv, JobsShaped

LEMMA DrainNext ==
    ASSUME TypeInv, DrainInv, DigestInv, [Next]_vars
    PROVE  DrainInv' /\ DigestInv'
<1> DEFINE Good(i) == job'[i] = job[i] \/ job'[i] = None \/ job'[i].kind # "drain" \/ Draining(job'[i])
<1>1. (\A i \in Jobs : Good(i)) => DrainInv'
  <2> SUFFICES ASSUME \A i \in Jobs : Good(i), NEW i \in Jobs, Working(i, "drain")'
               PROVE  Draining(job'[i])
    BY DEF DrainInv
  <2>1. job'[i] # None /\ job'[i].kind = "drain"
    BY DEF Working
  <2>2. job'[i] = job[i] => Working(i, "drain")
    BY <2>1 DEF Working
  <2> QED
    BY <2>1, <2>2 DEF DrainInv
<1>2. JobsShaped
  BY DEF TypeInv
<1>3. ASSUME NEW j \in Jobs, Request(j)
      PROVE  (\A i \in Jobs : Good(i)) /\ DigestInv'
  <2>1. PICK l : /\ job' = [job EXCEPT ![j] = l]
                 /\ l.kind = "drain" => l = [kind |-> "drain", ticks |-> <<>>, tally |-> NewTally]
    BY <1>3, RequestBegins
  <2>2. l.kind = "drain" => Draining(l)
    BY <2>1, NewDrain, Zenon
  <2>3. UNCHANGED digests
    BY <1>3, RequestBegins
  <2>4. job'[j] = l /\ \A i \in Jobs \ {j} : job'[i] = job[i]
    BY <1>2, <2>1, JobUpdated
  <2> QED
    BY <2>2, <2>3, <2>4 DEF DigestInv
<1>4. ASSUME NEW j \in Jobs, Work(j)
      PROVE  (\A i \in Jobs : Good(i)) /\ DigestInv'
  <2>1. PICK l : job' = [job EXCEPT ![j] = l] /\ (l = None \/ l.kind = job[j].kind)
    BY <1>4, WorkMoves
  <2>2. job'[j] = l /\ \A i \in Jobs \ {j} : job'[i] = job[i]
    BY <1>2, <2>1, JobUpdated
  <2>3. CASE RunTick(j)
    BY <2>2, <2>3, RunTickKeeps
  <2>4. CASE StopDrain(j)
    BY <2>2, <2>4, StopDrainKeeps
  <2>5. CASE job[j] # None /\ job[j].kind # "drain" /\ UNCHANGED digests
    BY <2>1, <2>2, <2>5 DEF DigestInv
  <2>6. CASE Raise(j)
    <3>1. job' = [job EXCEPT ![j] = None] /\ UNCHANGED digests
      BY <2>6 DEF Raise, End, Advance, rows
    <3>2. job'[j] = None
      BY <1>2, <3>1, JobUpdated
    <3> QED
      BY <2>2, <3>1, <3>2 DEF DigestInv
  <2> QED
    BY <1>4, <2>3, <2>4, <2>5, <2>6, WorkWrites
<1>5. UNCHANGED digests => DigestInv'
  BY DEF DigestInv
<1> SUFFICES (\A i \in Jobs : Good(i)) /\ DigestInv'
  BY <1>1
<1>6. CASE GrantReview
  <2>1. UNCHANGED job /\ UNCHANGED digests
    BY <1>6 DEF GrantReview, rows
  <2> QED
    BY <1>5, <2>1
<1>7. CASE Crash
  <2>1. job' = [j \in Jobs |-> None] /\ UNCHANGED digests
    BY <1>7 DEF Crash, rows
  <2> QED
    BY <1>5, <2>1
<1>8. CASE UNCHANGED vars
  BY <1>5, <1>8 DEF vars
<1> QED
  BY <1>3, <1>4, <1>6, <1>7, <1>8 DEF Next

LEMMA DrainInit ==
    ASSUME Init
    PROVE  DrainInv /\ DigestInv
<1>1. \A j \in Jobs : job[j] = None
  BY DEF Init
<1>2. Range(digests) = {}
  BY DEF Init, Range
<1> QED
  BY <1>1, <1>2 DEF DrainInv, DigestInv, Working

---------------------------------------------------------------------------
(* Folds *)

Fold == [from : Date, to : Date]

LEMMA DaysCount == \A d \in Date : DayNumber(d) \in Nat
<1> SUFFICES ASSUME NEW d \in Date
             PROVE  DayNumber(d) \in Nat
  OBVIOUS
<1>1. PICK y, m, n, o : /\ y = d[1] /\ m = d[2] /\ n = d[3]
                        /\ o = <<0, 31, 59, 90, 120, 151, 181, 212, 243, 273, 304, 334>>
  OBVIOUS
<1>2. y \in Nat /\ m \in 1..12 /\ n \in 1..31
  BY <1>1 DEF Date
<1>3. \A k \in 1..12 : o[k] \in Nat
  BY <1>1
<1>4. DayNumber(d) = n + o[m] + 365 * y + (y - 1) \div 4 + (IF m > 2 /\ y % 4 = 0 THEN 1 ELSE 0)
  BY <1>1 DEF DayNumber
<1>5. (y - 1) \div 4 \in Int /\ (y - 1) \div 4 >= -1
  BY <1>2
<1> PICK q, a, e : /\ q = (y - 1) \div 4 /\ a = o[m]
                   /\ e = IF m > 2 /\ y % 4 = 0 THEN 1 ELSE 0
  OBVIOUS
<1>6. q \in Int /\ q >= -1 /\ a \in Nat /\ e \in Nat
  BY <1>2, <1>3, <1>5
<1>7. DayNumber(d) = n + a + 365 * y + q + e
  BY <1>4
<1> QED
  BY <1>2, <1>6, <1>7

(* The walk-forward of a book starts where its first sleeve does.           *)
LEMMA StartIs ==
    ASSUME NEW b \in Books
    PROVE  StartOf(b) \in Date
<1> DEFINE F == {s.from : s \in Range(b.sleeves)}
           N == {DayNumber(d) : d \in F}
<1>1. Range(b.sleeves) \subseteq [surface : Surfaces, from : Date] /\ Range(b.sleeves) # {}
  <2>1. b.sleeves \in Seq([surface : Surfaces, from : Date]) /\ Len(b.sleeves) \in 2..5
    BY BooksAre
  <2> PICK s, R : s = b.sleeves /\ R = [surface : Surfaces, from : Date]
    OBVIOUS
  <2>2. s \in Seq(R) /\ Len(s) \in 2..5
    BY <2>1
  <2>3. DOMAIN s = 1..Len(s) /\ 1 \in 1..Len(s) /\ \A i \in 1..Len(s) : s[i] \in R
    <3>1. DOMAIN s = 1..Len(s)
      BY <2>2, LenProperties
    <3>2. \A i \in 1..Len(s) : s[i] \in R
      BY <2>2, ElementOfSeq
    <3>3. 1 \in 1..Len(s)
      <4>1. \A n \in 2..5 : 1 \in 1..n
        OBVIOUS
      <4> QED
        BY <2>2, <4>1
    <3> QED
      BY <3>1, <3>2, <3>3
  <2>4. Range(s) \subseteq R /\ s[1] \in Range(s)
    BY <2>3 DEF Range
  <2> QED
    BY <2>4
<1>2. F \subseteq Date /\ F # {}
  BY <1>1
<1>3. N \in SUBSET Nat /\ N # {}
  BY <1>2, DaysCount
<1>4. PICK m \in N : \A n \in N : m <= n
  <2> HIDE DEF N
  <2> QED
    BY <1>3, LeastNumber
<1>5. PICK d \in F : m = DayNumber(d)
  BY <1>4
<1>6. \A s \in Range(b.sleeves) : ~Before(s.from, d)
  <2> SUFFICES ASSUME NEW s \in Range(b.sleeves)
               PROVE  ~Before(s.from, d)
    OBVIOUS
  <2>1. DayNumber(s.from) \in N /\ s.from \in F
    OBVIOUS
  <2>2. DayNumber(s.from) \in Nat /\ m \in Nat
    BY <1>2, <1>3, <1>4, <2>1, DaysCount
  <2>3. m <= DayNumber(s.from)
    BY <1>4, <2>1
  <2> QED
    BY <1>5, <2>2, <2>3 DEF Before
<1>7. StartOf(b) \in F
  BY <1>5, <1>6 DEF StartOf
<1> QED
  BY <1>2, <1>7

(* Test windows are as many as fit, and each of them ends after it begins.  *)
InOrder(folds) ==
    folds \in Seq(Fold) /\ \A f \in 1..Len(folds) : Before(folds[f].from, folds[f].to)

LEMMA FoldsAre ==
    ASSUME NEW start \in Date, NEW end \in Date, NEW train \in 1..60, NEW test \in 1..24,
           NEW step \in 1..24, NEW n \in 1..20
    PROVE  InOrder(BuildFolds(start, end, train, test, step, n))
<1> DEFINE Fits(i) == ~Before(end, TestWindow(start, train, test, step, i).to)
           Full(k) == (\A i \in 0..(k - 1) : Fits(i)) /\ (k = n \/ ~Fits(k))
<1>1. \E k \in 0..n : Full(k)
  <2> DEFINE Stops == {i \in 0..n : i = n \/ ~Fits(i)}
  <2>1. Stops \in SUBSET Nat /\ n \in Stops
    OBVIOUS
  <2>2. PICK k \in Stops : \A i \in Stops : k <= i
    <3> HIDE DEF Stops
    <3> QED
      BY <2>1, LeastNumber
  <2>3. k \in 0..n /\ (k = n \/ ~Fits(k))
    OBVIOUS
  <2>4. ASSUME NEW i \in 0..(k - 1)
        PROVE  Fits(i)
    <3>1. i \in 0..n /\ ~(k <= i)
      BY <2>3
    <3>2. i \notin Stops
      BY <2>2, <3>1
    <3> QED
      BY <3>1, <3>2
  <2> QED
    BY <2>3, <2>4
<1> PICK k : k = CHOOSE h \in 0..n : Full(h)
  OBVIOUS
<1>2. k \in 0..n
  BY <1>1
<1>3. BuildFolds(start, end, train, test, step, n)
      = [i \in 1..k |-> TestWindow(start, train, test, step, i - 1)]
  BY DEF BuildFolds
<1>4. ASSUME NEW i \in 1..k
      PROVE  LET w == TestWindow(start, train, test, step, i - 1) IN
             w \in Fold /\ Before(w.from, w.to)
  <2> PICK m : m = (i - 1) * step
    OBVIOUS
  <2>1. m \in Nat /\ train \in Nat /\ test \in Nat /\ test >= 1
    BY <1>2
  <2> PICK from, to : from = AddMonths(AddMonths(start, m), train) /\ to = AddMonths(from, test)
    OBVIOUS
  <2>2. AddMonths(start, m) \in Date
    BY <2>1, LaterMonth
  <2>3. from \in Date
    BY <2>1, <2>2, LaterMonth
  <2>4. to \in Date /\ Before(from, to)
    BY <2>1, <2>3, LaterMonth
  <2>5. TestWindow(start, train, test, step, i - 1) = [from |-> from, to |-> to]
    BY DEF TestWindow
  <2> QED
    BY <2>3, <2>4, <2>5 DEF Fold
<1> PICK folds : folds = BuildFolds(start, end, train, test, step, n)
  OBVIOUS
<1>5. \A i \in 1..k : folds[i] \in Fold /\ Before(folds[i].from, folds[i].to)
  BY <1>3, <1>4
<1>6. folds \in Seq(Fold) /\ Len(folds) = k
  <2>1. folds \in [1..k -> Fold] /\ k \in Nat
    BY <1>2, <1>3, <1>5
  <2>2. folds \in Seq(Fold)
    BY <2>1, SeqDef
  <2>3. Len(folds) = k
    BY <2>1, <2>2, LenProperties
  <2> QED
    BY <2>2, <2>3
<1> QED
  BY <1>5, <1>6 DEF InOrder

---------------------------------------------------------------------------
(* The walk-forward of a book *)

(* What a sleeve may come to in a fold, and a fold of all sleeves.          *)
SleeveRow == {Failed, Skipped} \cup {RanFrom(d, run) : d \in Date, run \in SleeveRuns \ {Failed}}
Outcome == {BookFold(fold, part) : fold \in Fold, part \in Seq(SleeveRow)}

WalkJob == [kind : {"bookwalk"}, iteration : Nat, book : Books, folds : Seq(Fold),
            results : Seq(Outcome), parts : Seq(Seq(SleeveRow)), part : Seq(SleeveRow)]

LaterStart(fold, sleeve) == IF Before(fold.from, sleeve.from) THEN sleeve.from ELSE fold.from

Placed(fold, sleeve, row) ==
    \/ row = Failed
    \/ row = Skipped /\ ~Before(sleeve.from, fold.to)
    \/ row.status = "ran" /\ row.run.n \in Nat /\ row.start = LaterStart(fold, sleeve)

Whole(fold, sleeves, part) ==
    Len(part) = Len(sleeves) /\ \A k \in 1..Len(sleeves) : Placed(fold, sleeves[k], part[k])

Walked(folds, sleeves, parts, results) ==
    /\ Len(parts) = Len(results) /\ Len(results) <= Len(folds)
    /\ \A f \in 1..Len(results) :
          Whole(folds[f], sleeves, parts[f]) /\ results[f] = BookFold(folds[f], parts[f])

(* The fold in hand has the rows of the sleeves before this one.            *)
Walking(k) ==
    /\ k \in WalkJob
    /\ Walked(k.folds, k.book.sleeves, k.parts, k.results)
    /\ Len(k.part) <= Len(k.book.sleeves) /\ (Len(k.results) = Len(k.folds) => k.part = <<>>)
    /\ \A n \in 1..Len(k.part) : Placed(k.folds[Len(k.results) + 1], k.book.sleeves[n], k.part[n])
    /\ \A f \in 1..Len(k.folds) : Before(k.folds[f].from, k.folds[f].to)

Begun(i, b) == i \in DOMAIN iterations /\ i \in reviewed /\ b = iterations[i].book

CertificateOf(c, b) ==
    /\ c.folds \in Seq(Fold) /\ c.parts \in Seq(Seq(SleeveRow)) /\ c.results \in Seq(Outcome)
    /\ Walked(c.folds, b.sleeves, c.parts, c.results)
    /\ c.verdict = StabilityVerdict(c.results)

Backed(c) == \E b \in Books : Begun(c.iteration, b) /\ CertificateOf(c, b)

WalkInv ==
    /\ \A j \in Jobs : Working(j, "bookwalk") =>
          Walking(job[j]) /\ Begun(job[j].iteration, job[j].book)
    /\ \A c \in Range(certificates) : c.kind = "bookwalk" => Backed(c)

(* What has begun is still so when the tables grow.                         *)
LEMMA BegunKept ==
    ASSUME TypeInv, iterations' = iterations \/ \E r : iterations' = Append(iterations, r),
           reviewed \subseteq reviewed'
    PROVE  \A i, b : Begun(i, b) => Begun(i, b)'
<1> PICK s, t : s = iterations /\ t = iterations'
  OBVIOUS
<1>1. s \in Seq(BookRow) /\ (t = s \/ \E r : t = Append(s, r))
  BY DEF TypeInv, RowsTyped
<1>2. s \in Seq(Range(s))
  <2>1. DOMAIN s = 1..Len(s) /\ s \in [1..Len(s) -> BookRow] /\ Len(s) \in Nat
    BY <1>1, LenProperties
  <2>2. s \in [1..Len(s) -> Range(s)]
    BY <2>1 DEF Range
  <2> QED
    BY <2>1, <2>2, SeqDef
<1>3. \A i \in DOMAIN s : i \in DOMAIN t /\ t[i] = s[i]
  <2>1. ASSUME NEW r, t = Append(s, r), NEW i \in DOMAIN s
        PROVE  i \in DOMAIN t /\ t[i] = s[i]
    <3> PICK u : u = Append(s, r)
      OBVIOUS
    <3>1. /\ Len(s) \in Nat /\ DOMAIN s = 1..Len(s) /\ DOMAIN u = 1..(Len(s) + 1)
          /\ \A m \in 1..Len(s) : u[m] = s[m]
      BY <1>2, Appended
    <3> PICK n, D, E : n = Len(s) /\ D = DOMAIN s /\ E = DOMAIN u
      OBVIOUS
    <3>2. n \in Nat /\ D = 1..n /\ E = 1..(n + 1) /\ \A m \in 1..n : u[m] = s[m]
      BY <3>1
    <3>3. i \in D /\ i \in 1..n /\ i \in E
      BY <3>2
    <3> QED
      BY <2>1, <3>2, <3>3
  <2> QED
    BY <1>1, <2>1
<1> QED
  BY <1>3 DEF Begun

(* The row a sleeve gets in a fold.                                         *)
LEMMA RowPlaced ==
    ASSUME NEW fold \in Fold, Before(fold.from, fold.to), NEW sleeve, sleeve.from \in Date, NEW row,
           IF ~Before(LaterStart(fold, sleeve), fold.to)
           THEN row = Skipped
           ELSE \E run \in SleeveRuns :
                   row = IF run = Failed THEN Failed ELSE RanFrom(LaterStart(fold, sleeve), run)
    PROVE  row \in SleeveRow /\ Placed(fold, sleeve, row)
<1> PICK start : start = LaterStart(fold, sleeve)
  OBVIOUS
<1>1. fold.from \in Date /\ start \in Date
  BY DEF Fold, LaterStart
<1>2. CASE ~Before(start, fold.to)
  <2>1. row = Skipped /\ start = sleeve.from
    BY <1>2 DEF LaterStart
  <2> QED
    BY <1>2, <2>1 DEF SleeveRow, Placed
<1>3. CASE Before(start, fold.to)
  <2>1. PICK run \in SleeveRuns : row = IF run = Failed THEN Failed ELSE RanFrom(start, run)
    BY <1>3
  <2>2. CASE run = Failed
    BY <2>1, <2>2 DEF SleeveRow, Placed
  <2>3. CASE run # Failed
    <3>1. row = RanFrom(start, run) /\ run \in SleeveRuns \ {Failed}
      BY <2>1, <2>3
    <3>2. run.n \in Nat
      BY <3>1, AnswerAssumption
    <3>3. row.status = "ran" /\ row.start = start /\ row.run = run
      BY <3>1 DEF RanFrom
    <3>4. row \in SleeveRow
      BY <1>1, <3>1 DEF SleeveRow
    <3> QED
      BY <3>2, <3>3, <3>4 DEF Placed
  <2> QED
    BY <2>2, <2>3
<1> QED
  BY <1>2, <1>3

LEMMA BookWalkBegins ==
    ASSUME TypeInv, NEW j \in Jobs, RequestBookWalk(j)
    PROVE  Walking(job'[j]) /\ Begun(job'[j].iteration, job'[j].book)
<1>1. PICK i \in BooksPassingReview, w \in BookWalks :
         LET book == iterations[i].book
             start == StartOf(book)
         IN  Begin(j, [kind |-> "bookwalk", iteration |-> i, book |-> book,
                       folds |-> BuildFolds(start, book.end, w.train, w.test, w.step, w.n),
                       results |-> <<>>, parts |-> <<>>, part |-> <<>>])
  BY DEF RequestBookWalk
<1>2. PICK book, start, end, train, test, step, n, folds :
         /\ book = iterations[i].book /\ start = StartOf(book) /\ end = book.end
         /\ train = w.train /\ test = w.test /\ step = w.step /\ n = w.n
         /\ folds = BuildFolds(start, end, train, test, step, n)
  OBVIOUS
<1>3. PICK l : l = [kind |-> "bookwalk", iteration |-> i, book |-> book, folds |-> folds,
                    results |-> <<>>, parts |-> <<>>, part |-> <<>>]
  OBVIOUS
<1>4. i \in DOMAIN iterations /\ i \in reviewed /\ i \in Nat /\ book \in Books
  <2>1. iterations \in Seq(BookRow) /\ i \in DOMAIN iterations /\ i \in reviewed
    BY DEF TypeInv, RowsTyped, BooksPassingReview
  <2>2. i \in 1..Len(iterations) /\ Len(iterations) \in Nat
    BY <2>1
  <2>3. iterations[i] \in BookRow
    BY <2>1, <2>2, ElementOfSeq
  <2> QED
    BY <1>2, <2>1, <2>2, <2>3 DEF BookRow
<1>5. /\ start \in Date /\ end \in Date
      /\ train \in 1..60 /\ test \in 1..24 /\ step \in 1..24 /\ n \in 1..20
  BY <1>2, <1>4, StartIs, BooksAre
<1>6. InOrder(folds)
  <2>1. folds = BuildFolds(start, end, train, test, step, n)
    BY <1>2
  <2> QED
    BY <1>5, <2>1, FoldsAre
<1>7. job'[j] = l
  <2>1. Begin(j, l)
    BY <1>1, <1>2, <1>3
  <2> QED
    BY <2>1 DEF Begin, TypeInv, JobsShaped
<1>8. /\ l.kind = "bookwalk" /\ l.iteration = i /\ l.book = book /\ l.folds = folds
      /\ l.results = <<>> /\ l.parts = <<>> /\ l.part = <<>>
  BY <1>3
<1>9. l \in WalkJob
  BY <1>3, <1>4, <1>6 DEF WalkJob, InOrder
<1>10. Len(folds) \in Nat /\ Len(book.sleeves) \in Nat
  BY <1>4, <1>6, BooksAre DEF InOrder
<1>11. Walked(folds, book.sleeves, <<>>, <<>>)
  BY <1>10 DEF Walked
<1>12. Walking(l)
  BY <1>6, <1>8, <1>9, <1>10, <1>11 DEF Walking, InOrder
<1> QED
  BY <1>2, <1>4, <1>7, <1>8, <1>12 DEF Begun

LEMMA SleeveOfFoldKeeps ==
    ASSUME TypeInv, NEW j \in Jobs, Walking(job[j]), RunSleeveOfFold(j)
    PROVE  /\ Walking(job'[j])
           /\ job'[j].iteration = job[j].iteration /\ job'[j].book = job[j].book
<1> PICK k, b, n, m : /\ k = job[j] /\ b = k.book.sleeves /\ n = Len(k.part) /\ m = Len(k.results)
  OBVIOUS
<1> PICK fold, sleeve : fold = k.folds[m + 1] /\ sleeve = b[n + 1]
  OBVIOUS
<1>1. m < Len(k.folds) /\ n < Len(b)
  BY DEF RunSleeveOfFold
<1>2. PICK row : /\ Advance(j, [k EXCEPT !.part = Append(@, row)])
                 /\ IF ~Before(LaterStart(fold, sleeve), fold.to)
                    THEN row = Skipped
                    ELSE \E run \in SleeveRuns :
                            row = IF run = Failed THEN Failed ELSE RanFrom(LaterStart(fold, sleeve), run)
  BY DEF RunSleeveOfFold, LaterStart
<1>3. /\ k \in WalkJob /\ Walked(k.folds, b, k.parts, k.results)
      /\ \A i \in 1..n : Placed(fold, b[i], k.part[i])
      /\ \A f \in 1..Len(k.folds) : Before(k.folds[f].from, k.folds[f].to)
  BY DEF Walking
<1>4. /\ k.folds \in Seq(Fold) /\ k.part \in Seq(SleeveRow) /\ k.results \in Seq(Outcome)
      /\ n \in Nat /\ m \in Nat /\ Len(k.folds) \in Nat
      /\ b \in Seq([surface : Surfaces, from : Date]) /\ Len(b) \in Nat
  <2>1. /\ k.folds \in Seq(Fold) /\ k.part \in Seq(SleeveRow) /\ k.results \in Seq(Outcome)
        /\ k.book \in Books
    BY <1>3 DEF WalkJob
  <2>2. b \in Seq([surface : Surfaces, from : Date])
    BY <2>1, BooksAre
  <2> QED
    BY <2>1, <2>2, LenProperties
<1>5. fold \in Fold /\ Before(fold.from, fold.to)
  <2>1. m + 1 \in 1..Len(k.folds)
    BY <1>1, <1>4
  <2> QED
    BY <1>3, <1>4, <2>1, ElementOfSeq
<1>6. sleeve.from \in Date
  <2>1. n + 1 \in 1..Len(b)
    BY <1>1, <1>4
  <2>2. sleeve \in [surface : Surfaces, from : Date]
    BY <1>4, <2>1, ElementOfSeq
  <2> QED
    BY <2>2
<1>7. row \in SleeveRow /\ Placed(fold, sleeve, row)
  BY <1>2, <1>5, <1>6, RowPlaced
<1> PICK part, l : part = Append(k.part, row) /\ l = [k EXCEPT !.part = part]
  OBVIOUS
<1>8. /\ part \in Seq(SleeveRow) /\ Len(part) = n + 1 /\ part[n + 1] = row
      /\ \A i \in 1..n : part[i] = k.part[i]
  BY <1>4, <1>7, AppendProperties
<1>9. job'[j] = l
  BY <1>2 DEF Advance, TypeInv, JobsShaped
<1>10. /\ l \in WalkJob /\ l.part = part /\ l.folds = k.folds /\ l.book = k.book
       /\ l.parts = k.parts /\ l.results = k.results /\ l.iteration = k.iteration
  BY <1>3, <1>8 DEF WalkJob
<1>11. \A i \in 1..(n + 1) : Placed(fold, b[i], part[i])
  BY <1>3, <1>4, <1>7, <1>8
<1>12. n + 1 <= Len(b) /\ Len(k.results) # Len(k.folds)
  BY <1>1, <1>4
<1>13. Walking(l)
  BY <1>3, <1>8, <1>10, <1>11, <1>12 DEF Walking
<1> QED
  BY <1>9, <1>10, <1>13

LEMMA CloseFoldKeeps ==
    ASSUME TypeInv, NEW j \in Jobs, Walking(job[j]), CloseFold(j)
    PROVE  /\ Walking(job'[j])
           /\ job'[j].iteration = job[j].iteration /\ job'[j].book = job[j].book
<1> PICK k, b, m : k = job[j] /\ b = k.book.sleeves /\ m = Len(k.results)
  OBVIOUS
<1> PICK fold, out : fold = k.folds[m + 1] /\ out = BookFold(fold, k.part)
  OBVIOUS
<1> PICK parts, results : parts = Append(k.parts, k.part) /\ results = Append(k.results, out)
  OBVIOUS
<1> PICK l : l = [k EXCEPT !.part = <<>>, !.parts = parts, !.results = results]
  OBVIOUS
<1>1. Len(k.part) = Len(b) /\ Advance(j, l)
  BY DEF CloseFold
<1>2. /\ k \in WalkJob /\ Walked(k.folds, b, k.parts, k.results)
      /\ Len(k.results) = Len(k.folds) => k.part = <<>>
      /\ \A i \in 1..Len(k.part) : Placed(fold, b[i], k.part[i])
      /\ \A f \in 1..Len(k.folds) : Before(k.folds[f].from, k.folds[f].to)
  BY DEF Walking
<1>3. /\ k.folds \in Seq(Fold) /\ k.part \in Seq(SleeveRow) /\ k.results \in Seq(Outcome)
      /\ k.parts \in Seq(Seq(SleeveRow)) /\ m \in Nat /\ Len(k.folds) \in Nat
      /\ Len(b) \in 2..5
  BY <1>2, BooksAre DEF WalkJob
<1>4. m + 1 <= Len(k.folds)
  <2>1. k.part # <<>>
    <3>1. Len(k.part) # 0
      <4>1. \A n \in 2..5 : n # 0
        OBVIOUS
      <4> QED
        BY <1>1, <1>3, <4>1
    <3> QED
      BY <3>1
  <2>2. m # Len(k.folds) /\ m <= Len(k.folds)
    BY <1>2, <2>1 DEF Walked
  <2> QED
    BY <1>3, <2>2
<1>5. fold \in Fold
  BY <1>3, <1>4, ElementOfSeq
<1>6. out \in Outcome
  BY <1>3, <1>5 DEF Outcome
<1>7. /\ results \in Seq(Outcome) /\ Len(results) = m + 1 /\ results[m + 1] = out
      /\ \A f \in 1..m : results[f] = k.results[f]
  BY <1>3, <1>6, AppendProperties
<1>8. /\ Len(k.parts) = m
      /\ \A f \in 1..m : Whole(k.folds[f], b, k.parts[f]) /\ k.results[f] = BookFold(k.folds[f], k.parts[f])
  BY <1>2 DEF Walked
<1>9. /\ parts \in Seq(Seq(SleeveRow)) /\ Len(parts) = m + 1 /\ parts[m + 1] = k.part
      /\ \A f \in 1..m : parts[f] = k.parts[f]
  BY <1>3, <1>8, AppendProperties
<1>10. Whole(fold, b, k.part)
  BY <1>1, <1>2 DEF Whole
<1>11. Walked(k.folds, b, parts, results)
  <2>1. ASSUME NEW f \in 1..(m + 1)
        PROVE  Whole(k.folds[f], b, parts[f]) /\ results[f] = BookFold(k.folds[f], parts[f])
    <3>1. CASE f = m + 1
      BY <1>7, <1>9, <1>10, <3>1
    <3>2. CASE f \in 1..m
      BY <1>7, <1>8, <1>9, <3>2
    <3>3. f = m + 1 \/ f \in 1..m
      BY <1>3
    <3> QED
      BY <3>1, <3>2, <3>3
  <2> QED
    BY <1>4, <1>7, <1>9, <2>1 DEF Walked
<1>12. /\ l \in WalkJob /\ l.part = <<>> /\ l.parts = parts /\ l.results = results
       /\ l.folds = k.folds /\ l.book = k.book /\ l.iteration = k.iteration
  <2> PICK h, i : h = [k EXCEPT !.part = <<>>] /\ i = [h EXCEPT !.parts = parts]
    OBVIOUS
  <2>1. l = [i EXCEPT !.results = results]
    OBVIOUS
  <2>2. /\ h \in WalkJob /\ h.part = <<>> /\ h.folds = k.folds /\ h.book = k.book
        /\ h.iteration = k.iteration
    <3>1. <<>> \in Seq(SleeveRow)
      BY EmptySeq
    <3> QED
      BY <1>2, <3>1 DEF WalkJob
  <2>3. /\ i \in WalkJob /\ i.part = <<>> /\ i.folds = k.folds /\ i.book = k.book
        /\ i.iteration = k.iteration /\ i.parts = parts
    BY <1>9, <2>2 DEF WalkJob
  <2> QED
    BY <1>7, <2>1, <2>3 DEF WalkJob
<1>13. job'[j] = l
  BY <1>1 DEF Advance, TypeInv, JobsShaped
<1>14. Walking(l)
  <2>1. Len(l.part) = 0 /\ 0 <= Len(b)
    <3>1. \A n \in 2..5 : 0 <= n
      OBVIOUS
    <3> QED
      BY <1>3, <1>12, <3>1
  <2>2. \A i \in 1..Len(l.part) : Placed(l.folds[Len(l.results) + 1], b[i], l.part[i])
    BY <2>1
  <2> QED
    BY <1>2, <1>11, <1>12, <2>1, <2>2 DEF Walking
<1> QED
  BY <1>12, <1>13, <1>14

(* The certificate has what the handler had in hand.                        *)
LEMMA InsertBookWalkKeeps ==
    ASSUME TypeInv, NEW j \in Jobs, Walking(job[j]), Begun(job[j].iteration, job[j].book),
           InsertBookWalk(j)
    PROVE  /\ job'[j] = None
           /\ \E c : certificates' = Append(certificates, c) /\ Backed(c)
<1> PICK k, v : k = job[j] /\ v = StabilityVerdict(k.results)
  OBVIOUS
<1> PICK c : c = [kind |-> "bookwalk", iteration |-> k.iteration, folds |-> k.folds, parts |-> k.parts,
                  results |-> k.results, verdict |-> v]
  OBVIOUS
<1>1. certificates' = Append(certificates, c) /\ End(j)
  BY DEF InsertBookWalk
<1>2. job'[j] = None
  BY <1>1 DEF End, Advance, TypeInv, JobsShaped
<1>3. /\ k.folds \in Seq(Fold) /\ k.parts \in Seq(Seq(SleeveRow)) /\ k.results \in Seq(Outcome)
      /\ k.book \in Books /\ Walked(k.folds, k.book.sleeves, k.parts, k.results)
  BY DEF Walking, WalkJob
<1>4. /\ c.iteration = k.iteration /\ c.folds = k.folds /\ c.parts = k.parts
      /\ c.results = k.results /\ c.verdict = StabilityVerdict(c.results)
  OBVIOUS
<1>5. CertificateOf(c, k.book)
  BY <1>3, <1>4 DEF CertificateOf
<1>6. Backed(c)
  BY <1>3, <1>4, <1>5 DEF Backed
<1> QED
  BY <1>1, <1>2, <1>6

(* What the trades of a fold are: those of the sleeves that ran.            *)
TradesOf(sleeves, part) ==
    SumFunction([k \in DOMAIN sleeves |-> IF part[k].status = "ran" THEN part[k].run.n ELSE 0])

LEMMA PoolCounts ==
    ASSUME NEW fold, NEW sleeves, Len(sleeves) \in Nat, DOMAIN sleeves = 1..Len(sleeves),
           NEW part \in Seq(SleeveRow), Whole(fold, sleeves, part),
           BookFold(fold, part).status = "completed"
    PROVE  /\ BookFold(fold, part).trades = TradesOf(sleeves, part)
           /\ TradesOf(sleeves, part) \in Nat
           /\ \A k \in DOMAIN sleeves : part[k] # Failed
<1>1. PICK n : n = Len(sleeves)
  OBVIOUS
<1> DEFINE ran == OfStatus("ran", part)
           g == [k \in ran |-> part[k].run.n]
           h == [k \in 1..n |-> IF part[k].status = "ran" THEN part[k].run.n ELSE 0]
<1>2. /\ n \in Nat /\ DOMAIN sleeves = 1..n /\ Len(part) = n /\ DOMAIN part = 1..n
      /\ \A k \in 1..n : Placed(fold, sleeves[k], part[k])
  BY <1>1, LenProperties DEF Whole
<1>3. ~(\E k \in 1..n : part[k] = Failed) /\ BookFold(fold, part) = Pool(fold, part)
  BY <1>2 DEF BookFold, Failed
<1>4. BookFold(fold, part).trades = SumFunction(g)
  <2>1. PICK pf, ret, days : Pool(fold, part) = Completed(pf, ret, SumFunction(g), days)
    BY DEF Pool
  <2> HIDE DEF g
  <2> QED
    BY <1>3, <2>1 DEF Completed
<1>5. ran = {k \in 1..n : part[k].status = "ran"}
  BY <1>2 DEF OfStatus
<1>6. \A k \in ran : part[k].run.n \in Nat
  <2> SUFFICES ASSUME NEW k \in 1..n, part[k].status = "ran"
               PROVE  part[k].run.n \in Nat
    BY <1>5
  <2>1. part[k] # Failed /\ part[k] # Skipped
    BY DEF Failed, Skipped
  <2> QED
    BY <1>2, <2>1 DEF Placed
<1>7. IsFiniteSet(1..n) /\ IsFiniteSet(ran)
  <2>1. IsFiniteSet(1..n)
    BY <1>2, FS_Interval
  <2> QED
    BY <1>5, <2>1, FS_Subset
<1>8. DOMAIN g = ran /\ \A k \in ran : g[k] = part[k].run.n /\ g[k] \in Nat
  BY <1>6
<1>9. DOMAIN h = 1..n /\ \A k \in 1..n : h[k] \in Nat /\ h[k] = IF k \in ran THEN g[k] ELSE 0
  BY <1>5, <1>6
<1> HIDE DEF g, h, ran
<1>10. Units(g, ran) = Units(h, 1..n)
  <2>1. ASSUME NEW k \in 1..n, NEW i \in Nat
        PROVE  i \in 1..h[k] <=> k \in ran /\ i \in 1..g[k]
    BY <1>8, <1>9
  <2>2. ran \subseteq 1..n
    BY <1>5
  <2> QED
    BY <2>1, <2>2 DEF Units
<1>11. /\ SumFunction(g) = Cardinality(Units(g, ran))
       /\ SumFunction(h) = Cardinality(Units(h, 1..n)) /\ Cardinality(Units(h, 1..n)) \in Nat
  <2>1. SumFunction(g) = Cardinality(Units(g, ran))
    BY <1>7, <1>8, SumOfNaturals
  <2> PICK S : S = 1..n
    OBVIOUS
  <2>2. IsFiniteSet(S) /\ DOMAIN h = S /\ \A k \in S : h[k] \in Nat
    BY <1>7, <1>9
  <2>3. SumFunction(h) = Cardinality(Units(h, S)) /\ Cardinality(Units(h, S)) \in Nat
    BY <2>2, SumOfNaturals
  <2> QED
    BY <2>1, <2>3
<1>12. TradesOf(sleeves, part) = SumFunction(h)
  BY <1>2 DEF h, TradesOf
<1> QED
  BY <1>2, <1>3, <1>4, <1>10, <1>11, <1>12

(* A robust verdict counts a hundred trades.                                *)
LEMMA RobustCounts ==
    ASSUME NEW results, TotalTrades(results) \in Nat, StabilityVerdict(results) = "ROBUST"
    PROVE  TotalTrades(results) >= 100
<1>1. TotalTrades(results) < 100 => StabilityVerdict(results) = "INSUFFICIENT_EVIDENCE"
  BY DEF StabilityVerdict
<1> QED
  BY <1>1

LEMMA CertificateIsWhole ==
    ASSUME NEW b \in Books, NEW c, CertificateOf(c, b)
    PROVE  LET whole == {f \in DOMAIN c.results : c.results[f].status = "completed"}
               trades(f) == SumFunction([k \in DOMAIN b.sleeves |->
                               IF c.parts[f][k].status = "ran" THEN c.parts[f][k].run.n ELSE 0])
           IN  /\ \A f \in whole, k \in DOMAIN b.sleeves :
                      LET row == c.parts[f][k]
                          from == b.sleeves[k].from
                      IN  \/ row = Skipped /\ ~Before(from, c.folds[f].to)
                          \/ /\ row.status = "ran"
                             /\ row.start = IF Before(c.folds[f].from, from) THEN from
                                            ELSE c.folds[f].from
               /\ c.verdict = "ROBUST" => SumFunction([f \in whole |-> trades(f)]) >= 100
<1> PICK s, n, results, parts, folds :
       s = b.sleeves /\ n = Len(s) /\ results = c.results /\ parts = c.parts /\ folds = c.folds
  OBVIOUS
<1> DEFINE whole == {f \in DOMAIN results : results[f].status = "completed"}
           trades(f) == SumFunction([k \in DOMAIN s |->
                           IF parts[f][k].status = "ran" THEN parts[f][k].run.n ELSE 0])
<1>1. /\ folds \in Seq(Fold) /\ parts \in Seq(Seq(SleeveRow)) /\ results \in Seq(Outcome)
      /\ Walked(folds, s, parts, results) /\ c.verdict = StabilityVerdict(results)
  BY DEF CertificateOf
<1>2. n \in Nat /\ DOMAIN s = 1..n
  <2>1. s \in Seq([surface : Surfaces, from : Date])
    BY BooksAre
  <2> QED
    BY <2>1, LenProperties
<1>3. Len(results) \in Nat /\ DOMAIN results = 1..Len(results) /\ Len(parts) = Len(results)
  BY <1>1, LenProperties DEF Walked
<1>4. ASSUME NEW f \in whole
      PROVE  /\ Whole(folds[f], s, parts[f]) /\ parts[f] \in Seq(SleeveRow)
             /\ results[f].trades = trades(f) /\ trades(f) \in Nat
             /\ \A k \in DOMAIN s : parts[f][k] # Failed
  <2> PICK fold, part : fold = folds[f] /\ part = parts[f]
    OBVIOUS
  <2>1. f \in 1..Len(results) /\ results[f].status = "completed"
    BY <1>3
  <2>2. Whole(fold, s, part) /\ results[f] = BookFold(fold, part)
    BY <1>1, <2>1 DEF Walked
  <2>3. part \in Seq(SleeveRow)
    BY <1>1, <1>3, <2>1, ElementOfSeq
  <2>4. BookFold(fold, part).status = "completed"
    BY <2>1, <2>2
  <2>5. /\ BookFold(fold, part).trades = TradesOf(s, part) /\ TradesOf(s, part) \in Nat
        /\ \A k \in DOMAIN s : part[k] # Failed
    <3>1. Len(s) \in Nat /\ DOMAIN s = 1..Len(s)
      BY <1>2
    <3> QED
      BY <2>2, <2>3, <2>4, <3>1, PoolCounts
  <2> QED
    BY <2>2, <2>3, <2>5 DEF TradesOf
<1>5. ASSUME NEW f \in whole, NEW k \in DOMAIN s
      PROVE  \/ parts[f][k] = Skipped /\ ~Before(s[k].from, folds[f].to)
             \/ /\ parts[f][k].status = "ran"
                /\ parts[f][k].start = IF Before(folds[f].from, s[k].from) THEN s[k].from
                                       ELSE folds[f].from
  <2> PICK fold, row, sleeve : fold = folds[f] /\ row = parts[f][k] /\ sleeve = s[k]
    OBVIOUS
  <2>1. Placed(fold, sleeve, row) /\ row # Failed
    BY <1>2, <1>4 DEF Whole
  <2> QED
    BY <2>1 DEF Placed, LaterStart
<1>6. ASSUME c.verdict = "ROBUST"
      PROVE  SumFunction([f \in whole |-> trades(f)]) >= 100
  <2> DEFINE g == [f \in whole |-> trades(f)]
  <2>1. OfStatus("completed", results) = whole
    BY DEF OfStatus
  <2>2. [f \in whole |-> results[f].trades] = g
    BY <1>4
  <2>3. TotalTrades(results) = SumFunction(g)
    BY <2>1, <2>2 DEF TotalTrades
  <2>4. IsFiniteSet(whole)
    <3>1. IsFiniteSet(1..Len(results)) /\ whole \subseteq 1..Len(results)
      BY <1>3, FS_Interval
    <3> QED
      BY <3>1, FS_Subset
  <2>5. DOMAIN g = whole /\ \A f \in whole : g[f] \in Nat
    BY <1>4
  <2>6. SumFunction(g) \in Nat
    <3> HIDE DEF g, whole
    <3>1. SumFunction(g) = Cardinality(Units(g, whole)) /\ Cardinality(Units(g, whole)) \in Nat
      BY <2>4, <2>5, SumOfNaturals
    <3> QED
      BY <3>1
  <2> HIDE DEF g
  <2>7. TotalTrades(results) >= 100
    BY <1>1, <1>6, <2>3, <2>6, RobustCounts
  <2> QED
    BY <2>3, <2>7 DEF g
<1> HIDE DEF whole
<1> QED
  BY <1>5, <1>6 DEF whole

LEMMA WalksAreWhole ==
    ASSUME WalkInv
    PROVE  WholeBookFolds
<1> SUFFICES ASSUME NEW c \in Range(certificates), c.kind = "bookwalk"
             PROVE  LET book == iterations[c.iteration].book
                        whole == {f \in DOMAIN c.results : c.results[f].status = "completed"}
                        trades(f) == SumFunction([k \in DOMAIN book.sleeves |->
                                        IF c.parts[f][k].status = "ran" THEN c.parts[f][k].run.n ELSE 0])
                    IN  /\ c.iteration \in reviewed
                        /\ \A f \in whole, k \in DOMAIN book.sleeves :
                               LET row == c.parts[f][k]
                                   from == book.sleeves[k].from
                               IN  \/ row = Skipped /\ ~Before(from, c.folds[f].to)
                                   \/ /\ row.status = "ran"
                                      /\ row.start = IF Before(c.folds[f].from, from) THEN from
                                                     ELSE c.folds[f].from
                        /\ c.verdict = "ROBUST" => SumFunction([f \in whole |-> trades(f)]) >= 100
  BY DEF WholeBookFolds
<1>1. PICK b \in Books : Begun(c.iteration, b) /\ CertificateOf(c, b)
  BY DEF WalkInv, Backed
<1>2. b = iterations[c.iteration].book /\ c.iteration \in reviewed
  BY <1>1 DEF Begun
<1> QED
  BY <1>1, <1>2, CertificateIsWhole

LEMMA WalkNext ==
    ASSUME TypeInv, WalkInv, [Next]_vars
    PROVE  WalkInv'
<1> DEFINE Good(i) == \/ job'[i] = job[i] \/ job'[i] = None \/ job'[i].kind # "bookwalk"
                      \/ Walking(job'[i]) /\ Begun(job[i].iteration, job[i].book)'
           Grew == iterations' = iterations \/ \E r : iterations' = Append(iterations, r)
           Certain == \/ UNCHANGED certificates
                      \/ \E c : /\ certificates' = Append(certificates, c)
                                /\ c.kind # "bookwalk" \/ Backed(c)
<1>1. ASSUME \A i \in Jobs : Good(i), Grew, reviewed \subseteq reviewed', Certain
      PROVE  WalkInv'
  <2>1. \A i, b : Begun(i, b) => Begun(i, b)'
    BY <1>1, BegunKept
  <2>2. ASSUME NEW i \in Jobs, Working(i, "bookwalk")'
        PROVE  Walking(job'[i]) /\ Begun(job[i].iteration, job[i].book)'
    <3>1. job'[i] # None /\ job'[i].kind = "bookwalk"
      BY <2>2 DEF Working
    <3>2. CASE job'[i] = job[i]
      <4>1. Working(i, "bookwalk")
        BY <3>1, <3>2 DEF Working
      <4>2. Walking(job[i]) /\ Begun(job[i].iteration, job[i].book)
        BY <4>1 DEF WalkInv
      <4> PICK k : k = job[i]
        OBVIOUS
      <4>3. Begun(k.iteration, k.book)'
        BY <2>1, <4>2
      <4> QED
        BY <3>2, <4>2, <4>3
    <3> QED
      BY <1>1, <3>1, <3>2
  <2>3. \A c : Backed(c) => Backed(c)'
    BY <2>1 DEF Backed
  <2>4. \A c \in Range(certificates') : c.kind = "bookwalk" => Backed(c)'
    <3> PICK s, t : s = certificates /\ t = certificates'
      OBVIOUS
    <3>1. \A c \in Range(s) : c.kind = "bookwalk" => Backed(c)'
      BY <2>3 DEF WalkInv
    <3>2. ASSUME NEW c, t = Append(s, c), c.kind # "bookwalk" \/ Backed(c)
          PROVE  \A e \in Range(t) : e.kind = "bookwalk" => Backed(e)'
      <4>1. s \in Seq(Range(s))
        BY DEF TypeInv, RowsTyped
      <4>2. Range(t) = Range(s) \cup {c}
        BY <3>2, <4>1, Appended
      <4> QED
        BY <2>3, <3>1, <3>2, <4>2
    <3> QED
      BY <1>1, <3>1, <3>2
  <2> QED
    BY <2>2, <2>4 DEF WalkInv
<1>2. JobsShaped
  BY DEF TypeInv
<1> SUFFICES (\A i \in Jobs : Good(i)) /\ Grew /\ reviewed \subseteq reviewed' /\ Certain
  BY <1>1
<1>3. ASSUME NEW j \in Jobs, Request(j)
      PROVE  (\A i \in Jobs : Good(i)) /\ Grew /\ reviewed \subseteq reviewed' /\ Certain
  <2>1. PICK l : /\ job' = [job EXCEPT ![j] = l]
                 /\ l.kind = "bookwalk" => RequestBookWalk(j)
    BY <1>3, RequestBegins
  <2>2. UNCHANGED <<iterations, certificates, reviewed>>
    BY <1>3, RequestBegins
  <2>3. job'[j] = l /\ \A i \in Jobs \ {j} : job'[i] = job[i]
    BY <1>2, <2>1, JobUpdated
  <2>4. l.kind = "bookwalk" => Walking(l) /\ Begun(l.iteration, l.book)
    BY <2>1, <2>3, BookWalkBegins
  <2>5. \A i, b : Begun(i, b) => Begun(i, b)'
    BY <2>2, BegunKept
  <2> QED
    BY <2>2, <2>3, <2>4, <2>5
<1>4. ASSUME NEW j \in Jobs, Work(j)
      PROVE  (\A i \in Jobs : Good(i)) /\ Grew /\ reviewed \subseteq reviewed' /\ Certain
  <2>1. PICK l : job' = [job EXCEPT ![j] = l] /\ (l = None \/ l.kind = job[j].kind)
    BY <1>4, WorkMoves
  <2>2. job'[j] = l /\ \A i \in Jobs \ {j} : job'[i] = job[i]
    BY <1>2, <2>1, JobUpdated
  <2>3. Grew /\ UNCHANGED reviewed
    BY <1>4, WorkMoves, WorkWrites
  <2>4. \A i, b : Begun(i, b) => Begun(i, b)'
    BY <2>3, BegunKept
  <2>5. Working(j, "bookwalk") => Walking(job[j]) /\ Begun(job[j].iteration, job[j].book)
    BY DEF WalkInv
  <2>6. CASE RunSleeveOfFold(j) \/ CloseFold(j)
    <3>1. Working(j, "bookwalk") /\ UNCHANGED certificates
      BY <2>6 DEF RunSleeveOfFold, CloseFold, rows
    <3>2. /\ Walking(job'[j]) /\ job'[j].iteration = job[j].iteration
          /\ job'[j].book = job[j].book
      BY <2>5, <2>6, <3>1, SleeveOfFoldKeeps, CloseFoldKeeps
    <3> PICK i, b : i = job[j].iteration /\ b = job[j].book
      OBVIOUS
    <3>3. Begun(i, b)'
      BY <2>4, <2>5, <3>1
    <3>4. Good(j)
      BY <3>2, <3>3
    <3> QED
      BY <2>2, <2>3, <3>1, <3>4
  <2>7. CASE InsertBookWalk(j)
    <3>1. Working(j, "bookwalk")
      BY <2>7 DEF InsertBookWalk
    <3>2. /\ job'[j] = None
          /\ \E c : certificates' = Append(certificates, c) /\ Backed(c)
      BY <2>5, <2>7, <3>1, InsertBookWalkKeeps
    <3> QED
      BY <2>2, <2>3, <3>2
  <2>8. CASE /\ job[j] # None /\ job[j].kind # "bookwalk"
             /\ \/ UNCHANGED certificates
                \/ \E c : c.kind # "bookwalk" /\ certificates' = Append(certificates, c)
    BY <2>1, <2>2, <2>3, <2>8
  <2>9. CASE Raise(j)
    <3>1. job' = [job EXCEPT ![j] = None] /\ UNCHANGED certificates
      BY <2>9 DEF Raise, End, Advance, rows
    <3>2. job'[j] = None
      BY <1>2, <3>1, JobUpdated
    <3> QED
      BY <2>2, <2>3, <3>1, <3>2
  <2> QED
    BY <1>4, <2>6, <2>7, <2>8, <2>9, WorkWrites
<1>5. CASE GrantReview
  <2>1. UNCHANGED <<job, iterations, certificates>> /\ reviewed \subseteq reviewed'
    BY <1>5 DEF GrantReview, rows
  <2> QED
    BY <2>1
<1>6. CASE Crash
  <2>1. job' = [j \in Jobs |-> None] /\ UNCHANGED <<iterations, certificates, reviewed>>
    BY <1>6 DEF Crash, rows
  <2> QED
    BY <2>1
<1>7. CASE UNCHANGED vars
  BY <1>7 DEF vars
<1> QED
  BY <1>3, <1>4, <1>5, <1>6, <1>7 DEF Next

LEMMA WalkInit ==
    ASSUME Init
    PROVE  WalkInv
<1>1. \A j \in Jobs : job[j] = None
  BY DEF Init
<1>2. Range(certificates) = {}
  BY DEF Init, Range
<1> QED
  BY <1>1, <1>2 DEF WalkInv, Working

---------------------------------------------------------------------------
(* Theorems *)

LEMMA IInvInit ==
    ASSUME Init
    PROVE  IInv
<1>1. /\ job = [j \in Jobs |-> None] /\ audits = <<>> /\ iterations = <<>> /\ certificates = <<>>
      /\ journal = <<>> /\ digests = <<>> /\ reviewed = {} /\ spent = 0 /\ crashes = 0
  BY DEF Init
<1>2. \A j \in Jobs : \A kind : ~Working(j, kind)
  BY <1>1 DEF Working
<1>3. TypeInv
  <2>1. Range(<<>>) = {}
    BY DEF Range
  <2>2. 0 \in 0..MaxCost /\ 0 \in 0..MaxCrashes
    BY GauntletAssumption
  <2>3. TypeOK
    BY <1>1, <2>1, <2>2 DEF TypeOK
  <2> QED
    BY <1>1, <2>3 DEF TypeInv, JobsShaped, RowsTyped
<1>4. EvidenceInv /\ CountInv
  BY <1>2 DEF EvidenceInv, Disjoint, CountInv
<1>5. BookEvidence /\ MultiplicityIsCurrent
  BY <1>1 DEF BookEvidence, MultiplicityIsCurrent
<1> QED
  BY <1>3, <1>4, <1>5 DEF IInv

LEMMA IInvNext ==
    ASSUME IInv, [Next]_vars
    PROVE  IInv'
<1>1. QuietStep => IInv'
  BY QuietKeepsAll
<1>2. TypeInv /\ CountInv
  BY DEF IInv
<1>3. ASSUME NEW j \in Jobs, Request(j) \/ Work(j)
      PROVE  IInv'
  <2>1. CASE Request(j) \/ OtherWork(j) \/ CountScreens(j) \/ InsertScreen(j) \/ Raise(j)
    <3>1. \E h \in Jobs : \/ Request(h) \/ OtherWork(h)
                          \/ CountScreens(h) \/ InsertScreen(h)
                          \/ End(h) /\ UNCHANGED rows
      <4> WITNESS j \in Jobs
      <4> QED
        BY <2>1 DEF Raise
    <3>2. QuietStep
      BY <1>2, <3>1, QuietSteps, Zenon
    <3> QED
      BY <1>1, <3>2
  <2>2. CASE AuditSleeve(j) \/ RunSleeve(j) \/ CountTrials(j) \/ CommitAnalysis(j)
    BY <2>2, AuditSleeveKeeps, RunSleeveKeeps, CountTrialsKeeps, CommitKeeps
  <2> QED
    BY <1>3, <2>1, <2>2 DEF Work, OtherWork
<1>4. CASE GrantReview \/ Crash \/ UNCHANGED vars
  BY <1>1, <1>2, <1>4, QuietSteps
<1> QED
  BY <1>3, <1>4 DEF Next

LEMMA Invariance == Spec => []IInv
BY IInvInit, IInvNext, PTL DEF Spec

(* Everything a handler holds and every row has its shape.                  *)
THEOREM TypeCorrect == Spec => []TypeOK
BY Invariance, PTL DEF IInv, TypeInv

(* An iteration of a book owns one audit per sleeve, in order and on its    *)
(* surface, with the verdict it got; no other request's commit, failure or  *)
(* crash ever attaches or takes one (api/analyze_pooled.py).                *)
THEOREM EvidenceIsOwned == Spec => []BookEvidence
BY Invariance, PTL DEF IInv

(* A verdict is deflated by every trial that was on record when its last    *)
(* backtest ended and by none twice, whatever else was audited or committed *)
(* meanwhile; a signal screen counts all of its family before it.           *)
THEOREM TrialsAreDeflated == Spec => []MultiplicityIsCurrent
BY Invariance, PTL DEF IInv

(* The digest of a drain accounts for each of its ticks, whatever the ticks *)
(* answer and whoever works meanwhile (services/tick_drain.py).             *)
THEOREM DrainsAccount == Spec => []DrainAccounts
<1>1. DrainInv /\ DigestInv /\ IInv /\ [Next]_vars => (DrainInv /\ DigestInv)'
  BY DrainNext DEF IInv
<1>2. Init => DrainInv /\ DigestInv
  BY DrainInit
<1>3. DigestInv => DrainAccounts
  BY AnswersAccount
<1> QED
  BY <1>1, <1>2, <1>3, Invariance, PTL DEF Spec

(* What the walk-forward of a book counts is the book: in every fold with   *)
(* metrics each sleeve ran from the later of the fold's start and its own,  *)
(* or its data starts after the fold; a robust verdict has a hundred trades *)
(* of such folds behind it; and the iteration it certifies was reviewed     *)
(* (services/pooled_certification.py).                                      *)
THEOREM FoldsAreWhole == Spec => []WholeBookFolds
<1>1. WalkInv /\ IInv /\ [Next]_vars => WalkInv'
  BY WalkNext DEF IInv
<1>2. Init => WalkInv
  BY WalkInit
<1>3. WalkInv => WholeBookFolds
  BY WalksAreWhole
<1> QED
  BY <1>1, <1>2, <1>3, Invariance, PTL DEF Spec
=============================================================================
