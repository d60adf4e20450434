---------------------------- MODULE BooksProofs ----------------------------
(***************************************************************************)
(* The pool and the book for any finite set of surfaces, any number of     *)
(* slots and calls.  Type correctness, the audit of the account's          *)
(* rebalance and the promise that a sync zeroes only what it wrote are     *)
(* proved whatever overlaps; that each eviction is earned, that a          *)
(* reconcile settles and that the account follows the pool, for calls made *)
(* one after the other.                                                    *)
(*                                                                         *)
(* Each of them rests on what a call has in hand between its steps: the    *)
(* rows that it still has to write, and what these say of the tables.      *)
(***************************************************************************)
EXTENDS Books, TLAPS, FiniteSetTheorems, SequenceTheorems

(* A row of the pool keeps its number and its surface for good.            *)
Grows(p, q) ==
    /\ Len(p) <= Len(q)
    /\ \A i \in 1..Len(p) : q[i].surface = p[i].surface

Rows(todo) == {todo[n].row : n \in 1..Len(todo)}

(* What a call k has in hand when the pool is p.                           *)
Sound(k, p) ==
    /\ k.seen \subseteq 1..Len(p)
    /\ k.op \in {"rebalance", "reconcile"} /\ k.pc \in {"score", "write"} => Rows(k.todo) \subseteq 1..Len(p)
    /\ k.op = "sync" /\ k.pc = "plan" =>
          /\ Len(k.todo) <= Len(p) /\ k.seen \subseteq 1..Len(k.todo)
          /\ \A n \in 1..Len(k.todo) : k.todo[n].row = p[n].surface
    /\ k.op = "sync" /\ k.pc = "write" => Rows(k.todo) \subseteq Provisioned
    /\ k.op = "account" /\ k.pc = "commit" =>
          /\ k.todo # <<>> /\ Rows(k.todo) \subseteq Provisioned
          /\ \A n \in 1..Len(k.todo) : k.todo[n].weight = k.todo[1].weight
          /\ k.todo[1].weight # 0

TypeInv ==
    /\ TypeOK
    /\ \A c \in Slots : calls[c] # Idle => Sound(calls[c], pool)

(* The sync zeroes a row only after it has written it.                     *)
BookInv ==
    /\ \A s \in Provisioned : live[s].source \in BookSources => s \in booked
    /\ \A c \in Slots : At(c, {"sync"}, "write") =>
          \A n \in 1..Len(calls[c].todo) :
              calls[c].todo[n].weight = 0 => calls[c].todo[n].row \in booked

(* One call after the other: nobody else is under way, and what a pool     *)
(* call has read is what is there.                                         *)
Alone ==
    /\ \A c, d \in Slots : calls[c] # Idle /\ calls[d] # Idle => c = d
    /\ \A c \in Slots : At(c, {"rebalance", "reconcile", "sync"}, "plan") \/
                         At(c, {"reconcile"}, "score") => calls[c].seen = Active

SerialInv == serial => Alone

(* The surface of the nth row that a call has still to write, and the      *)
(* members that are left when the rows before the nth are evicted.         *)
Out(k, n) == pool[k.todo[n].row].surface
Ahead(k, n) == k.left \cup {Out(k, m) : m \in n..Len(k.todo)}

(* What a reconcile made alone has in hand: the members are those that it  *)
(* leaves and those that it has still to evict, each once, and each of     *)
(* these is the lowest of the ones left by then.                           *)
Scored(k) ==
    /\ Priced(k.view) = Ahead(k, 1)
    /\ \A n \in 1..Len(k.todo) :
          /\ k.todo[n].row \in Active
          /\ Out(k, n) \in Lowest(k.view, Ahead(k, n), k.theta)
          /\ Out(k, n) \notin Ahead(k, n + 1)

EvictionInv ==
    serial => \A c \in Slots :
        /\ At(c, {"reconcile"}, "score") \/ At(c, {"reconcile"}, "write") => Scored(calls[c])
        /\ At(c, {"reconcile"}, "write") =>
              Evictable(calls[c].view, calls[c].left, calls[c].theta) = {}

(* The members that never lack a series have the weights of one            *)
(* computation w, except those that the rebalance under way has still to   *)
(* write w to.                                                             *)
WeightsAre(w) ==
    /\ \A c \in Slots : At(c, {"rebalance"}, "write") =>
          \A n \in 1..Len(calls[c].todo) : calls[c].todo[n].weight = w
    /\ \A i \in Active : pool[i].surface \in AlwaysListed => pool[i].weight \in {0, w} \/
          \E c \in Slots : At(c, {"rebalance"}, "write") /\ i \in Rows(calls[c].todo)

WeightInv == serial => \E w \in 0..stamp : WeightsAre(w)

(* A live weight of the book is that of a member, except on the rows that  *)
(* the sync under way has still to write; it writes weights of members.    *)
Matches(s) ==
    live[s].source = "HOUSE_BOOK" /\ live[s].weight # 0 =>
        \E i \in Active : pool[i].surface = s /\ pool[i].weight \in {0, live[s].weight}

ReadIsCurrent(c) ==
    \A n \in Active : n \in 1..Len(calls[c].todo) /\ calls[c].todo[n].weight = pool[n].weight

WritesMembers(c) ==
    /\ \A s \in Provisioned \ Rows(calls[c].todo) : Matches(s)
    /\ \A n \in 1..Len(calls[c].todo) : calls[c].todo[n].weight # 0 =>
          \E i \in Active : pool[i].surface = calls[c].todo[n].row
                            /\ pool[i].weight = calls[c].todo[n].weight

SyncInv ==
    serial =>
        /\ last = "sync" => \A s \in Provisioned : Matches(s)
        /\ \A c \in Slots : At(c, {"sync"}, "plan") => ReadIsCurrent(c)
        /\ \A c \in Slots : At(c, {"sync"}, "write") => WritesMembers(c)

---------------------------------------------------------------------------
(* Plans and the steps of one call *)

(* The rows of a plan are those of the set it is made from, each with its   *)
(* weight; a plan for no row is empty.                                     *)
LEMMA OrdersArePlans ==
    ASSUME NEW R, IsFiniteSet(R), NEW weights, NEW q \in Orders(R, weights)
    PROVE  /\ q \in Seq([row : R, weight : {weights[r] : r \in R}])
           /\ Rows(q) = R
           /\ \A n \in 1..Len(q) : q[n].row \in R /\ q[n].weight = weights[q[n].row]
           /\ q = <<>> <=> R = {}
<1> DEFINE N == Cardinality(R)
           E == [row : R, weight : {weights[r] : r \in R}]
<1>1. N \in Nat
  BY FS_CardinalityType
<1>2. /\ q \in [1..N -> E]
      /\ \A r \in R : \E n \in DOMAIN q : q[n].row = r
      /\ \A n \in DOMAIN q : q[n].weight = weights[q[n].row]
  BY DEF Orders
<1> HIDE DEF N
<1>3. q \in Seq(E) /\ Len(q) = N
  <2> HIDE DEF E
  <2>1. q \in Seq(E) /\ DOMAIN q = 1..N
    BY <1>1, <1>2, SeqDef
  <2> QED
    BY <1>1, <2>1, LenProperties
<1>4. \A n \in 1..Len(q) : q[n].row \in R /\ q[n].weight = weights[q[n].row]
  BY <1>2, <1>3
<1>5. Rows(q) = R
  BY <1>2, <1>3, <1>4 DEF Rows
<1>6. q = <<>> <=> R = {}
  BY <1>3, <1>5, EmptySeq DEF Rows
<1> QED
  BY <1>3, <1>4, <1>5, <1>6

(* A plan is a finite list of orders on rows it may write.                  *)
LEMMA PlansAreTyped ==
    ASSUME NEW R, IsFiniteSet(R), R \subseteq (Nat \ {0}) \cup Surfaces,
           NEW weights, \A r \in R : weights[r] \in Nat, NEW q \in Orders(R, weights)
    PROVE  /\ q \in Seq([row : (Nat \ {0}) \cup Surfaces, weight : Nat])
           /\ Rows(q) = R
           /\ \A n \in 1..Len(q) : q[n].row \in R /\ q[n].weight = weights[q[n].row]
           /\ q = <<>> <=> R = {}
<1> DEFINE A == [row : R, weight : {weights[r] : r \in R}]
           B == [row : (Nat \ {0}) \cup Surfaces, weight : Nat]
<1>1. A \subseteq B
  OBVIOUS
<1>2. q \in Seq(A)
  BY OrdersArePlans
<1> HIDE DEF A, B
<1>3. q \in Seq(B)
  BY <1>1, <1>2, SeqMonotonic
<1>4. /\ Rows(q) = R
      /\ \A n \in 1..Len(q) : q[n].row \in R /\ q[n].weight = weights[q[n].row]
      /\ q = <<>> <=> R = {}
  BY OrdersArePlans
<1> QED
  BY <1>3, <1>4 DEF B

(* A pool that is not written keeps its rows.                               *)
LEMMA GrowsIsReflexive ==
    ASSUME NEW p \in Seq(PoolRow)
    PROVE  Grows(p, p)
BY DEF Grows

(* What a call has in hand stays true when the pool grows.                  *)
LEMMA SoundStays ==
    ASSUME NEW p \in Seq(PoolRow), NEW q \in Seq(PoolRow), Grows(p, q), NEW k \in Call, Sound(k, p)
    PROVE  Sound(k, q)
<1>1. 1..Len(p) \subseteq 1..Len(q)
  BY DEF Grows
<1> QED
  BY <1>1 DEF Sound, Grows, Call

(* A step of one call that keeps the pool's rows and is itself sound.       *)
LEMMA CallMoves ==
    ASSUME TypeInv, NEW c \in Slots, NEW k \in Call \cup {Idle},
           calls' = [calls EXCEPT ![c] = k], pool' \in Seq(PoolRow), Grows(pool, pool'),
           k # Idle => Sound(k, pool')
    PROVE  /\ calls' \in [Slots -> Call \cup {Idle}]
           /\ \A d \in Slots : calls'[d] # Idle => Sound(calls'[d], pool')
<1>1. calls' \in [Slots -> Call \cup {Idle}]
  BY DEF TypeInv, TypeOK
<1>2. ASSUME NEW d \in Slots, d # c, calls'[d] # Idle
      PROVE  Sound(calls'[d], pool')
  <2>1. calls'[d] = calls[d] /\ calls[d] \in Call /\ Sound(calls[d], pool)
    BY <1>2 DEF TypeInv, TypeOK
  <2>2. pool \in Seq(PoolRow)
    BY DEF TypeInv, TypeOK
  <2> QED
    BY <2>1, <2>2, SoundStays
<1>3. calls'[c] = k
  BY DEF TypeInv, TypeOK
<1> QED
  BY <1>1, <1>2, <1>3

(* The members of the pool are a finite set of its rows.                    *)
LEMMA MembersAreRows ==
    ASSUME TypeInv
    PROVE  /\ Len(pool) \in Nat
           /\ \A i \in 1..Len(pool) : pool[i] \in PoolRow
           /\ Active \subseteq 1..Len(pool) /\ ActiveSurfaces \subseteq Surfaces
           /\ \A S \in SUBSET (1..Len(pool)) : IsFiniteSet(S) /\ S \subseteq (Nat \ {0}) \cup Surfaces
           /\ \A S \in SUBSET Surfaces : IsFiniteSet(S) /\ S \subseteq (Nat \ {0}) \cup Surfaces
<1>1. pool \in Seq(PoolRow)
  BY DEF TypeInv, TypeOK
<1>2. Len(pool) \in Nat /\ \A i \in 1..Len(pool) : pool[i] \in PoolRow
  BY <1>1
<1>3. Active \subseteq 1..Len(pool) /\ ActiveSurfaces \subseteq Surfaces
  BY <1>2 DEF Active, ActiveSurfaces, PoolRow
<1>4. IsFiniteSet(1..Len(pool)) /\ IsFiniteSet(Surfaces)
  BY <1>2, FS_Interval, BooksAssumption
<1>5. \A S \in SUBSET (1..Len(pool)) : IsFiniteSet(S)
  BY <1>4, FS_Subset
<1>6. \A S \in SUBSET Surfaces : IsFiniteSet(S)
  BY <1>4, FS_Subset
<1>7. 1..Len(pool) \subseteq Nat \ {0}
  BY <1>2
<1> QED
  BY <1>2, <1>3, <1>5, <1>6, <1>7

(* A step of one call that leaves the tables alone.                         *)
LEMMA CallStep ==
    ASSUME TypeInv, NEW c \in Slots, NEW k \in Call \cup {Idle}, k # Idle => Sound(k, pool),
           calls' = [calls EXCEPT ![c] = k], stamp' \in Nat, begun' \in Nat,
           UNCHANGED <<pool, live, journal, mishaps, returns, serial, booked, last>>
    PROVE  TypeInv'
<1>1. pool \in Seq(PoolRow) /\ pool' = pool
  BY DEF TypeInv, TypeOK
<1>2. Grows(pool, pool')
  BY <1>1, GrowsIsReflexive
<1>3. /\ calls' \in [Slots -> Call \cup {Idle}]
      /\ \A d \in Slots : calls'[d] # Idle => Sound(calls'[d], pool')
  BY <1>1, <1>2, CallMoves
<1> QED
  BY <1>1, <1>3 DEF TypeInv, TypeOK, Active

(* A call that answers keeps the type.                                      *)
LEMMA AnswerStep ==
    ASSUME TypeInv, NEW c \in Slots, Answer(c), stamp' \in Nat,
           UNCHANGED <<pool, live, journal, begun, mishaps, returns, serial, booked, last>>
    PROVE  TypeInv'
<1>1. calls' = [calls EXCEPT ![c] = Idle] /\ begun' \in Nat
  BY DEF Answer, TypeInv, TypeOK
<1> QED
  BY <1>1, CallStep

(* A call begins well typed, with nothing read and nothing planned.         *)
LEMMA BeginIsSound ==
    ASSUME NEW op \in {"evaluate", "stream", "rebalance", "reconcile", "sync", "account"},
           NEW s \in Surfaces, NEW theta \in Thetas, NEW p, TypeInv
    PROVE  Begin(op, s, theta) \in Call /\ Sound(Begin(op, s, theta), p)
<1>1. <<>> \in Seq([row : (Nat \ {0}) \cup Surfaces, weight : Nat])
  BY EmptySeq
<1>2. Begin(op, s, theta).pc \in {"gate", "read"}
  BY DEF Begin
<1>3. (CHOOSE h \in Histories : TRUE) \in Histories
  BY DEF TypeInv, TypeOK
<1> QED
  BY <1>1, <1>2, <1>3 DEF Begin, Call, Sound

(* The gates and the admission read the pool and keep the type.             *)
LEMMA AdmissionTyped ==
    ASSUME TypeInv, NEW c \in Slots, Gate(c) \/ GateRefuses(c) \/ EvaluateAdmission(c)
    PROVE  TypeInv'
<1>1. stamp' \in Nat /\ begun' \in Nat
  BY DEF TypeInv, TypeOK, Gate, GateRefuses, EvaluateAdmission
<1>2. ASSUME NEW pc \in {"read", "insert"}, At(c, {"evaluate", "stream"}, "gate") \/
                At(c, {"evaluate", "stream"}, "read"), Goto(c, pc),
             UNCHANGED <<pool, live, journal, mishaps, returns, serial, booked, last>>
      PROVE  TypeInv'
  <2> DEFINE k == [calls[c] EXCEPT !.pc = pc]
  <2>1. calls[c] \in Call /\ Sound(calls[c], pool) /\ calls[c].op \in {"evaluate", "stream"}
    BY <1>2 DEF TypeInv, TypeOK, At
  <2>2. k \in Call /\ Sound(k, pool)
    BY <2>1 DEF Call, Sound
  <2>3. calls' = [calls EXCEPT ![c] = k]
    BY <1>2 DEF Goto, TypeInv, TypeOK
  <2> QED
    BY <1>1, <1>2, <2>2, <2>3, CallStep
<1>3. CASE Gate(c)
  BY <1>2, <1>3 DEF Gate, At
<1>4. CASE GateRefuses(c)
  BY <1>1, <1>4, AnswerStep DEF GateRefuses
<1>5. CASE EvaluateAdmission(c)
  BY <1>1, <1>2, <1>5, AnswerStep DEF EvaluateAdmission
<1> QED
  BY <1>3, <1>4, <1>5

(* What is left of a plan is a plan without the row just written.           *)
LEMMA TailOfPlan ==
    ASSUME NEW S, NEW todo \in Seq(S), todo # <<>>
    PROVE  /\ Tail(todo) \in Seq(S) /\ Len(Tail(todo)) = Len(todo) - 1
           /\ Head(todo) = todo[1] /\ 1 \in 1..Len(todo)
           /\ \A n \in 1..Len(Tail(todo)) : n + 1 \in 1..Len(todo) /\ Tail(todo)[n] = todo[n + 1]
           /\ Rows(todo) = Rows(Tail(todo)) \cup {todo[1].row}
<1>1. /\ Tail(todo) \in Seq(S) /\ Len(Tail(todo)) = Len(todo) - 1
      /\ Head(todo) = todo[1] /\ Len(todo) \in Nat \ {0}
      /\ \A n \in 1..Len(Tail(todo)) : n + 1 \in 1..Len(todo) /\ Tail(todo)[n] = todo[n + 1]
  BY EmptySeq, HeadTailProperties
<1>2. \A n \in 1..Len(todo) : n = 1 \/ (n - 1 \in 1..Len(Tail(todo)) /\ Tail(todo)[n - 1] = todo[n])
  BY <1>1
<1>3. 1 \in 1..Len(todo)
  BY <1>1
<1>4. Rows(todo) \subseteq Rows(Tail(todo)) \cup {todo[1].row}
  BY <1>2 DEF Rows
<1>5. Rows(Tail(todo)) \cup {todo[1].row} \subseteq Rows(todo)
  BY <1>1, <1>3 DEF Rows
<1> QED
  BY <1>1, <1>3, <1>4, <1>5

(* What the statements on the pool change.  An admission appends a row, or  *)
(* nothing when the surface has an active row already.                     *)
LEMMA PoolInsert ==
    ASSUME TypeInv, NEW c \in Slots, InsertMember(c)
    PROVE  \/ pool' = pool
           \/ /\ pool' \in Seq(PoolRow) /\ Len(pool') = Len(pool) + 1
              /\ \A i \in 1..Len(pool) : pool'[i] = pool[i]
              /\ Active' = Active \cup {Len(pool) + 1}
              /\ pool'[Len(pool) + 1].weight = 0
              /\ \A i \in Active : pool[i].surface # pool'[Len(pool) + 1].surface
<1> DEFINE row == [surface |-> calls[c].on, status |-> "active", weight |-> 0]
<1>1. pool \in Seq(PoolRow) /\ calls[c] \in Call
  BY DEF TypeInv, TypeOK, InsertMember, At
<1>2. row \in PoolRow
  BY <1>1 DEF Call, PoolRow
<1>3. CASE calls[c].on \in ActiveSurfaces
  BY <1>3 DEF InsertMember
<1>4. CASE calls[c].on \notin ActiveSurfaces
  <2>1. pool' = Append(pool, row)
    BY <1>4 DEF InsertMember
  <2>2. /\ pool' \in Seq(PoolRow) /\ Len(pool') = Len(pool) + 1
        /\ \A i \in 1..Len(pool) : pool'[i] = pool[i]
        /\ pool'[Len(pool) + 1] = row
    BY <1>1, <1>2, <2>1, AppendProperties
  <2>3. Active' = Active \cup {Len(pool) + 1}
    BY <1>1, <2>2 DEF Active
  <2>4. \A i \in Active : pool[i].surface # calls[c].on
    BY <1>4 DEF ActiveSurfaces
  <2> QED
    BY <2>2, <2>3, <2>4
<1> QED
  BY <1>3, <1>4

(* The other statements change one row that is in the pool.                 *)
LEMMA PoolUpdate ==
    ASSUME TypeInv, NEW c \in Slots, WritePoolWeight(c) \/ Evict(c)
    PROVE  /\ Next1(c) = calls[c].todo[1] /\ 1 \in 1..Len(calls[c].todo)
           /\ Next1(c).row \in 1..Len(pool) /\ Next1(c).weight \in Nat
           /\ pool' \in Seq(PoolRow) /\ Len(pool') = Len(pool)
           /\ \A i \in 1..Len(pool) : pool'[i].surface = pool[i].surface
           /\ WritePoolWeight(c) =>
                 /\ Active' = Active
                 /\ \A i \in 1..Len(pool) : pool'[i].weight =
                       IF i = Next1(c).row THEN Next1(c).weight ELSE pool[i].weight
           /\ Evict(c) =>
                 /\ Active' = Active \ {Next1(c).row}
                 /\ \A i \in 1..Len(pool) : pool'[i].weight = pool[i].weight
<1> DEFINE todo == calls[c].todo
           r == Next1(c).row
           w == Next1(c).weight
<1>1. /\ pool \in Seq(PoolRow) /\ calls[c] \in Call /\ Sound(calls[c], pool)
      /\ calls[c].op \in {"rebalance", "reconcile"} /\ calls[c].pc = "write" /\ todo # <<>>
  BY DEF TypeInv, TypeOK, WritePoolWeight, Evict, At
<1>2. todo \in Seq([row : (Nat \ {0}) \cup Surfaces, weight : Nat]) /\ Rows(todo) \subseteq 1..Len(pool)
  BY <1>1 DEF Call, Sound
<1>3. Next1(c) = todo[1] /\ 1 \in 1..Len(todo)
  BY <1>1, <1>2 DEF Next1
<1>4. r \in 1..Len(pool) /\ w \in Nat /\ pool[r] \in PoolRow
  <2>1. todo[1] \in [row : (Nat \ {0}) \cup Surfaces, weight : Nat]
    BY <1>2, <1>3, ElementOfSeq
  <2>2. r \in Rows(todo)
    BY <1>3 DEF Rows
  <2>3. r \in 1..Len(pool)
    BY <1>2, <2>2
  <2> QED
    BY <1>1, <1>3, <2>1, <2>3, ElementOfSeq
<1> HIDE DEF todo, r, w
<1>5. ASSUME NEW row \in PoolRow, row.surface = pool[r].surface, pool' = [pool EXCEPT ![r] = row]
      PROVE  /\ pool' \in Seq(PoolRow) /\ Len(pool') = Len(pool)
             /\ \A i \in 1..Len(pool) : pool'[i].surface = pool[i].surface
             /\ \A i \in 1..Len(pool) : i # r => pool'[i] = pool[i]
             /\ pool'[r] = row
  <2>1. pool' \in Seq(PoolRow) /\ Len(pool') = Len(pool)
    BY <1>1, <1>4, <1>5, ExceptSeq
  <2> QED
    BY <1>1, <1>4, <1>5, <2>1
<1>6. CASE WritePoolWeight(c)
  <2> DEFINE row == [pool[r] EXCEPT !.weight = w]
  <2>1. row \in PoolRow /\ row.surface = pool[r].surface /\ row.status = pool[r].status /\ row.weight = w
    BY <1>4 DEF PoolRow
  <2>2. pool' = [pool EXCEPT ![r] = row]
    BY <1>6 DEF WritePoolWeight, r, w
  <2> HIDE DEF row
  <2>3. /\ pool' \in Seq(PoolRow) /\ Len(pool') = Len(pool)
        /\ \A i \in 1..Len(pool) : pool'[i].surface = pool[i].surface
        /\ \A i \in 1..Len(pool) : i # r => pool'[i] = pool[i]
        /\ pool'[r] = row
    BY <1>5, <2>1, <2>2
  <2>4. Active' = Active
    BY <2>1, <2>3 DEF Active
  <2>5. ~Evict(c)
    BY <1>6 DEF WritePoolWeight, Evict, At
  <2> QED
    BY <1>3, <1>4, <2>1, <2>3, <2>4, <2>5 DEF r, w, todo
<1>7. CASE Evict(c)
  <2> DEFINE row == [pool[r] EXCEPT !.status = "evicted"]
  <2>1. row \in PoolRow /\ row.surface = pool[r].surface /\ row.status = "evicted"
        /\ row.weight = pool[r].weight
    BY <1>4 DEF PoolRow
  <2>2. pool' = [pool EXCEPT ![r] = row]
    BY <1>7 DEF Evict, r
  <2> HIDE DEF row
  <2>3. /\ pool' \in Seq(PoolRow) /\ Len(pool') = Len(pool)
        /\ \A i \in 1..Len(pool) : pool'[i].surface = pool[i].surface
        /\ \A i \in 1..Len(pool) : i # r => pool'[i] = pool[i]
        /\ pool'[r] = row
    BY <1>5, <2>1, <2>2
  <2>4. Active' = Active \ {r}
    BY <1>4, <2>1, <2>3 DEF Active
  <2>5. ~WritePoolWeight(c)
    BY <1>7 DEF WritePoolWeight, Evict, At
  <2> QED
    BY <1>3, <1>4, <2>1, <2>3, <2>4, <2>5 DEF r, w, todo
<1> QED
  BY <1>6, <1>7

(* The statements on the pool keep one active row for a surface.            *)
LEMMA PoolStatements ==
    ASSUME TypeInv, NEW c \in Slots, InsertMember(c) \/ WritePoolWeight(c) \/ Evict(c)
    PROVE  /\ pool' \in Seq(PoolRow) /\ Grows(pool, pool')
           /\ \A i, j \in Active' : pool'[i].surface = pool'[j].surface => i = j
<1>1. /\ pool \in Seq(PoolRow) /\ Len(pool) \in Nat /\ Active \subseteq 1..Len(pool)
      /\ \A i, j \in Active : pool[i].surface = pool[j].surface => i = j
  BY MembersAreRows DEF TypeInv, TypeOK
<1>2. CASE InsertMember(c)
  <2>1. CASE pool' = pool
    <3>1. Active' = Active
      BY <2>1 DEF Active
    <3> QED
      BY <1>1, <2>1, <3>1 DEF Grows
  <2>2. CASE pool' # pool
    <3>1. /\ pool' \in Seq(PoolRow) /\ Len(pool') = Len(pool) + 1
          /\ \A i \in 1..Len(pool) : pool'[i] = pool[i]
          /\ Active' = Active \cup {Len(pool) + 1}
          /\ \A i \in Active : pool[i].surface # pool'[Len(pool) + 1].surface
      BY <1>2, <2>2, PoolInsert
    <3> QED
      BY <1>1, <3>1 DEF Grows
  <2> QED
    BY <2>1, <2>2
<1>3. CASE WritePoolWeight(c) \/ Evict(c)
  <2>1. /\ pool' \in Seq(PoolRow) /\ Len(pool') = Len(pool) /\ Active' \subseteq Active
        /\ \A i \in 1..Len(pool) : pool'[i].surface = pool[i].surface
    BY <1>3, PoolUpdate
  <2> QED
    BY <1>1, <2>1 DEF Grows
<1> QED
  BY <1>2, <1>3

(* Whatever is written, the call goes on with the rest of its plan.         *)
LEMMA ShiftMoves ==
    ASSUME TypeInv, NEW c \in Slots, At(c, {"rebalance", "reconcile", "sync"}, "write"),
           calls[c].todo # <<>>, Shift(c), pool' \in Seq(PoolRow), Grows(pool, pool')
    PROVE  /\ calls' \in [Slots -> Call \cup {Idle}]
           /\ \A d \in Slots : calls'[d] # Idle => Sound(calls'[d], pool')
<1> DEFINE k == [calls[c] EXCEPT !.todo = Tail(@)]
<1>1. /\ calls[c] \in Call /\ Sound(calls[c], pool) /\ pool \in Seq(PoolRow)
      /\ calls[c].op \in {"rebalance", "reconcile", "sync"} /\ calls[c].pc = "write"
  BY DEF TypeInv, TypeOK, At
<1>2. calls[c].todo \in Seq([row : (Nat \ {0}) \cup Surfaces, weight : Nat])
  BY <1>1 DEF Call
<1>3. /\ Tail(calls[c].todo) \in Seq([row : (Nat \ {0}) \cup Surfaces, weight : Nat])
      /\ Rows(Tail(calls[c].todo)) \subseteq Rows(calls[c].todo)
  BY <1>2, TailOfPlan
<1>4. k \in Call /\ k.todo = Tail(calls[c].todo) /\ k.pc = "write"
      /\ k.op = calls[c].op /\ k.seen = calls[c].seen
  BY <1>1, <1>3 DEF Call
<1>5. Sound(k, pool)
  BY <1>1, <1>3, <1>4 DEF Sound
<1>6. calls' = [calls EXCEPT ![c] = k]
  BY DEF Shift, TypeInv, TypeOK
<1> HIDE DEF k
<1> QED
  BY <1>1, <1>4, <1>5, <1>6, SoundStays, CallMoves

(* A plan of raises and cuts writes the rows of both.                       *)
LEMMA PlanInTwoParts ==
    ASSUME NEW S, NEW up \in Seq(S), NEW down \in Seq(S)
    PROVE  /\ up \o down \in Seq(S) /\ Rows(up \o down) = Rows(up) \cup Rows(down)
           /\ \A n \in 1..Len(up \o down) :
                 \/ \E i \in 1..Len(up) : (up \o down)[n] = up[i]
                 \/ \E i \in 1..Len(down) : (up \o down)[n] = down[i]
<1>1. /\ up \o down \in Seq(S) /\ Len(up \o down) = Len(up) + Len(down)
      /\ \A n \in 1..Len(up) + Len(down) : (up \o down)[n] =
            IF n <= Len(up) THEN up[n] ELSE down[n - Len(up)]
      /\ Len(up) \in Nat /\ Len(down) \in Nat
  BY ConcatProperties, LenProperties
<1>2. \A n \in 1..Len(up \o down) :
         \/ \E i \in 1..Len(up) : (up \o down)[n] = up[i]
         \/ \E i \in 1..Len(down) : (up \o down)[n] = down[i]
  BY <1>1
<1>3. \A i \in 1..Len(up) : i \in 1..Len(up \o down) /\ (up \o down)[i] = up[i]
  BY <1>1
<1>4. \A i \in 1..Len(down) : Len(up) + i \in 1..Len(up \o down) /\ (up \o down)[Len(up) + i] = down[i]
  BY <1>1
<1>5. Rows(up \o down) \subseteq Rows(up) \cup Rows(down)
  BY <1>2 DEF Rows
<1>6. Rows(up) \cup Rows(down) \subseteq Rows(up \o down)
  BY <1>3, <1>4 DEF Rows
<1> QED
  BY <1>1, <1>2, <1>5, <1>6

(* The plan of a sync: weights of members that are provisioned, and zeros   *)
(* The row that a round adds to the plan is one of the first read.          *)
LEMMA RowIsSeen ==
    ASSUME TypeInv, NEW c \in Slots, calls[c] # Idle, NEW s
    PROVE  /\ RowOf(c, s) \in Seq([row : (Nat \ {0}) \cup Surfaces, weight : Nat])
           /\ Rows(RowOf(c, s)) \subseteq 1..Len(pool)
<1> DEFINE rows == {i \in calls[c].seen : pool[i].surface = s}
           r == CHOOSE i \in rows : TRUE
<1>1. calls[c].seen \subseteq 1..Len(pool) /\ Len(pool) \in Nat
  BY DEF TypeInv, TypeOK, Sound
<1>2. CASE rows = {}
  BY <1>2 DEF RowOf, Rows
<1>3. CASE rows # {}
  <2>1. r \in 1..Len(pool)
    BY <1>1, <1>3
  <2>2. RowOf(c, s) = <<[row |-> r, weight |-> 0]>>
    BY <1>3 DEF RowOf
  <2> HIDE DEF r
  <2> QED
    BY <1>1, <2>1, <2>2 DEF Rows
<1> QED
  BY <1>2, <1>3

(* Inserting, weighting and evicting members keep the type.                 *)
LEMMA PoolUpkeepTyped ==
    ASSUME TypeInv, NEW c \in Slots, InsertMember(c) \/ PoolUpkeep(c)
    PROVE  TypeInv'
<1> USE DEF At
<1>1. /\ pool \in Seq(PoolRow) /\ stamp \in Nat /\ begun \in Nat
      /\ calls \in [Slots -> Call \cup {Idle}]
      /\ calls[c] # Idle => calls[c] \in Call /\ Sound(calls[c], pool)
      /\ Len(pool) \in Nat
  BY MembersAreRows DEF TypeInv, TypeOK
<1>2. ASSUME InsertMember(c) \/ WritePoolWeight(c) \/ Evict(c)
      PROVE  TypeInv'
  <2>1. /\ pool' \in Seq(PoolRow) /\ Grows(pool, pool')
        /\ \A i, j \in Active' : pool'[i].surface = pool'[j].surface => i = j
    BY <1>2, PoolStatements
  <2>2. /\ calls' \in [Slots -> Call \cup {Idle}]
        /\ \A d \in Slots : calls'[d] # Idle => Sound(calls'[d], pool')
    <3>1. CASE InsertMember(c)
      BY <2>1, <3>1, CallMoves DEF InsertMember, Answer
    <3>2. CASE WritePoolWeight(c) \/ Evict(c)
      BY <2>1, <3>2, ShiftMoves DEF WritePoolWeight, Evict
    <3> QED
      BY <1>2, <3>1, <3>2
  <2>3. UNCHANGED <<live, journal, stamp, begun, mishaps, returns, serial, booked>> /\ last' = "pool"
    BY <1>2 DEF InsertMember, WritePoolWeight, Evict
  <2> QED
    BY <2>1, <2>2, <2>3 DEF TypeInv, TypeOK
<1>3. CASE ReadMembers(c)
  <2>1. CASE calls[c].op = "rebalance" /\ Active = {}
    BY <1>1, <1>3, <2>1, AnswerStep DEF ReadMembers, Answer
  <2>2. CASE ~(calls[c].op = "rebalance" /\ Active = {})
    <3> DEFINE k == [calls[c] EXCEPT !.pc = "plan", !.seen = Active]
    <3>1. calls[c] \in Call /\ calls[c].op \in {"rebalance", "reconcile"} /\ Sound(calls[c], pool)
      BY <1>1, <1>3 DEF ReadMembers
    <3>2. Active \subseteq 1..Len(pool) /\ Active \subseteq Nat \ {0}
      BY <1>1, MembersAreRows
    <3>3. k \in Call /\ Sound(k, pool)
      BY <3>1, <3>2 DEF Call, Sound
    <3>4. calls' = [calls EXCEPT ![c] = k]
      BY <1>1, <1>3, <2>2 DEF ReadMembers
    <3> QED
      BY <1>1, <1>3, <3>3, <3>4, CallStep DEF ReadMembers
  <2> QED
    BY <2>1, <2>2
<1>4. ASSUME NEW R \in SUBSET (1..Len(pool)), NEW w, \A r \in R : w[r] \in Nat,
             \E q \in Orders(R, w) : Write(c, q), At(c, {"rebalance", "reconcile"}, "plan"),
             stamp' \in Nat,
             UNCHANGED <<pool, live, journal, begun, mishaps, returns, serial, booked, last>>
      PROVE  TypeInv'
  <2>1. PICK q \in Orders(R, w) : Write(c, q)
    BY <1>4
  <2> DEFINE k == [calls[c] EXCEPT !.pc = "write", !.todo = q]
  <2>2. IsFiniteSet(R) /\ R \subseteq (Nat \ {0}) \cup Surfaces
    BY MembersAreRows
  <2>3. q \in Seq([row : (Nat \ {0}) \cup Surfaces, weight : Nat]) /\ Rows(q) = R
    BY <1>4, <2>2, PlansAreTyped, OrdersArePlans
  <2>4. calls[c] \in Call /\ Sound(calls[c], pool) /\ calls[c].op \in {"rebalance", "reconcile"}
    BY <1>1, <1>4
  <2>5. k \in Call /\ Sound(k, pool)
    BY <2>3, <2>4 DEF Call, Sound
  <2>6. calls' = [calls EXCEPT ![c] = k]
    BY <1>1, <2>1 DEF Write
  <2> QED
    BY <1>1, <1>4, <2>5, <2>6, CallStep
<1>5. CASE PlanRebalance(c)
  <2> DEFINE priced == Priced(returns)
  <2>1. CASE priced = {} \/ ~priced \subseteq SeenSurfaces(c)
    BY <1>1, <1>5, <2>1, AnswerStep DEF PlanRebalance
  <2>2. CASE ~(priced = {} \/ ~priced \subseteq SeenSurfaces(c))
    <3> DEFINE R == {i \in calls[c].seen : pool[i].surface \in priced}
               w == [i \in R |-> stamp + 1]
    <3>1. R \in SUBSET (1..Len(pool))
      BY <1>1, <1>5 DEF PlanRebalance, Sound
    <3>2. \A r \in R : w[r] \in Nat
      BY <1>1
    <3>3. (\E q \in Orders(R, w) : Write(c, q)) /\ stamp' = stamp + 1
      BY <1>5, <2>2 DEF PlanRebalance
    <3> HIDE DEF R, w
    <3>4. /\ stamp' \in Nat
          /\ At(c, {"rebalance", "reconcile"}, "plan")
          /\ UNCHANGED <<pool, live, journal, begun, mishaps, returns, serial, booked, last>>
      BY <1>1, <1>5, <3>3 DEF PlanRebalance
    <3> QED
      BY <1>4, <3>1, <3>2, <3>3, <3>4
  <2> QED
    BY <2>1, <2>2
<1>6. CASE ReadSeries(c)
  <2> DEFINE k == [calls[c] EXCEPT !.pc = "score", !.view = returns,
                                   !.left = Priced(returns), !.todo = <<>>]
  <2>1. calls[c] \in Call /\ calls[c].op = "reconcile" /\ Sound(calls[c], pool)
    BY <1>1, <1>6 DEF ReadSeries
  <2>2. returns \in Histories /\ Priced(returns) \subseteq Surfaces
    BY MembersAreRows DEF Priced, TypeInv, TypeOK
  <2>3. <<>> \in Seq([row : (Nat \ {0}) \cup Surfaces, weight : Nat]) /\ Rows(<<>>) = {}
    BY EmptySeq DEF Rows
  <2>4. k \in Call
    BY <2>1, <2>2, <2>3 DEF Call
  <2>5. Sound(k, pool)
    BY <2>1, <2>3 DEF Call, Sound
  <2>6. calls' = [calls EXCEPT ![c] = k]
    BY <1>1, <1>6 DEF ReadSeries
  <2> HIDE DEF k
  <2> QED
    BY <1>1, <1>6, <2>4, <2>5, <2>6, CallStep DEF ReadSeries
<1>8. CASE EvictionRound(c)
  <2>1. /\ calls[c] \in Call /\ calls[c].op = "reconcile" /\ calls[c].pc = "score"
        /\ calls[c] # Idle /\ Sound(calls[c], pool)
    BY <1>1, <1>8 DEF EvictionRound
  <2> DEFINE low == Lowest(calls[c].view, calls[c].left, calls[c].theta)
  <2>2. CASE Goto(c, "write")
    <3> DEFINE k == [calls[c] EXCEPT !.pc = "write"]
    <3>1. k \in Call /\ Sound(k, pool)
      BY <2>1 DEF Call, Sound
    <3>2. calls' = [calls EXCEPT ![c] = k]
      BY <1>1, <2>2 DEF Goto
    <3> QED
      BY <1>1, <1>8, <3>1, <3>2, CallStep DEF EvictionRound
  <2>3. ASSUME NEW s \in low,
               calls' = [calls EXCEPT ![c].left = @ \ {s}, ![c].todo = @ \o RowOf(c, s)]
        PROVE  TypeInv'
    <3> DEFINE E == [row : (Nat \ {0}) \cup Surfaces, weight : Nat]
               todo == calls[c].todo \o RowOf(c, s)
               k == [calls[c] EXCEPT !.left = @ \ {s}, !.todo = todo]
    <3>1. RowOf(c, s) \in Seq(E) /\ Rows(RowOf(c, s)) \subseteq 1..Len(pool)
      BY <2>1, RowIsSeen
    <3>2. calls[c].todo \in Seq(E) /\ Rows(calls[c].todo) \subseteq 1..Len(pool)
      BY <2>1 DEF Call, Sound
    <3> HIDE DEF E
    <3>3. todo \in Seq(E) /\ Rows(todo) \subseteq 1..Len(pool)
      BY <3>1, <3>2, PlanInTwoParts
    <3>4. calls' = [calls EXCEPT ![c] = k]
      BY <1>1, <2>3
    <3> HIDE DEF todo
    <3>5. k \in Call /\ Sound(k, pool)
      BY <2>1, <3>3 DEF Call, Sound, E
    <3> QED
      BY <1>1, <1>8, <3>4, <3>5, CallStep DEF EvictionRound
  <2> QED
    BY <1>8, <2>2, <2>3 DEF EvictionRound
<1>7. CASE PoolAnswers(c)
  BY <1>1, <1>7, AnswerStep DEF PoolAnswers
<1> QED
  BY <1>2, <1>3, <1>5, <1>6, <1>7, <1>8 DEF PoolUpkeep

(* for rows of the book that left.                                         *)
LEMMA SyncPlan ==
    ASSUME TypeInv, NEW c \in Slots, PlanSync(c)
    PROVE  \E m \in [SeenSurfaces(c) -> Nat],
              todo \in Seq([row : (Nat \ {0}) \cup Surfaces, weight : Nat]) :
             /\ Write(c, todo)
             /\ Rows(todo) = ToSync(m) \cup ToZero(m)
             /\ \A n \in 1..Len(todo) :
                   \/ todo[n].row \in ToSync(m) /\ todo[n].weight = m[todo[n].row]
                   \/ todo[n].row \in ToZero(m) /\ todo[n].weight = 0
             /\ \A s \in SeenSurfaces(c) : \E n \in calls[c].seen :
                   pool[n].surface = s /\ m[s] = calls[c].todo[n].weight
<1> DEFINE read == calls[c].todo
           m == [s \in SeenSurfaces(c) |->
                    read[CHOOSE n \in calls[c].seen : read[n].row = s].weight]
           zero == [s \in Provisioned |-> 0]
           E == [row : (Nat \ {0}) \cup Surfaces, weight : Nat]
<1>1. calls[c] \in Call /\ Sound(calls[c], pool) /\ calls[c].op = "sync" /\ calls[c].pc = "plan"
  BY DEF PlanSync, At, TypeInv, TypeOK
<1>2. read \in Seq(E) /\ calls[c].seen \subseteq 1..Len(read)
      /\ \A n \in 1..Len(read) : read[n].row = pool[n].surface /\ read[n].weight \in Nat
  <2>1. read \in Seq(E) /\ calls[c].seen \subseteq 1..Len(read)
        /\ \A n \in 1..Len(read) : read[n].row = pool[n].surface
    BY <1>1 DEF Call, Sound
  <2>2. \A n \in 1..Len(read) : read[n] \in E
    BY <2>1, ElementOfSeq
  <2> QED
    BY <2>1, <2>2
<1>3. ASSUME NEW s \in SeenSurfaces(c)
      PROVE  \E n \in calls[c].seen : pool[n].surface = s /\ m[s] = read[n].weight
  <2>1. PICK n \in calls[c].seen : read[n].row = s
    BY <1>2 DEF SeenSurfaces
  <2> DEFINE n0 == CHOOSE i \in calls[c].seen : read[i].row = s
  <2>2. n0 \in calls[c].seen /\ read[n0].row = s
    BY <2>1
  <2>3. m[s] = read[n0].weight
    OBVIOUS
  <2> HIDE DEF n0, m
  <2> QED
    BY <1>2, <2>2, <2>3
<1>4. m \in [SeenSurfaces(c) -> Nat]
  BY <1>2, <1>3
<1>5. PICK up \in Orders(ToSync(m), m), down \in Orders(ToZero(m), zero) : Write(c, up \o down)
  BY DEF PlanSync
<1>6. DOMAIN m = SeenSurfaces(c)
  OBVIOUS
<1> HIDE DEF m, zero
<1>7. ToSync(m) \subseteq Surfaces /\ ToZero(m) \subseteq Surfaces
  BY BooksAssumption DEF ToSync, ToZero
<1>8. /\ \A s \in ToSync(m) : m[s] \in Nat
      /\ \A s \in ToZero(m) : zero[s] = 0
  BY <1>4, <1>6 DEF ToSync, ToZero, zero
<1>9. /\ IsFiniteSet(ToSync(m)) /\ ToSync(m) \subseteq (Nat \ {0}) \cup Surfaces
      /\ IsFiniteSet(ToZero(m)) /\ ToZero(m) \subseteq (Nat \ {0}) \cup Surfaces
  BY <1>7, MembersAreRows
<1>10. /\ up \in Seq(E) /\ Rows(up) = ToSync(m)
       /\ \A n \in 1..Len(up) : up[n].row \in ToSync(m) /\ up[n].weight = m[up[n].row]
  <2>1. up \in Seq(E)
    BY <1>5, <1>8, <1>9, PlansAreTyped
  <2>2. Rows(up) = ToSync(m)
    BY <1>5, <1>8, <1>9, PlansAreTyped
  <2>3. \A n \in 1..Len(up) : up[n].row \in ToSync(m)
    BY <1>5, <1>8, <1>9, PlansAreTyped
  <2>4. \A n \in 1..Len(up) : up[n].weight = m[up[n].row]
    BY <1>5, <1>8, <1>9, PlansAreTyped
  <2> QED
    BY <2>1, <2>2, <2>3, <2>4
<1>11. /\ down \in Seq(E) /\ Rows(down) = ToZero(m)
       /\ \A n \in 1..Len(down) : down[n].row \in ToZero(m) /\ down[n].weight = 0
  <2>1. \A s \in ToZero(m) : zero[s] \in Nat
    BY <1>8
  <2>2. down \in Seq(E)
    BY <1>5, <1>9, <2>1, PlansAreTyped
  <2>3. Rows(down) = ToZero(m)
    BY <1>5, <1>9, <2>1, PlansAreTyped
  <2>4. \A n \in 1..Len(down) : down[n].row \in ToZero(m)
    BY <1>5, <1>9, <2>1, PlansAreTyped
  <2>5. \A n \in 1..Len(down) : down[n].weight = zero[down[n].row]
    BY <1>5, <1>9, <2>1, PlansAreTyped
  <2> QED
    BY <1>8, <2>2, <2>3, <2>4, <2>5
<1> DEFINE todo == up \o down
<1>12. /\ todo \in Seq(E) /\ Rows(todo) = ToSync(m) \cup ToZero(m)
       /\ \A n \in 1..Len(todo) :
             \/ \E i \in 1..Len(up) : todo[n] = up[i]
             \/ \E i \in 1..Len(down) : todo[n] = down[i]
  <2> HIDE DEF E
  <2> QED
    BY <1>10, <1>11, PlanInTwoParts
<1>13. \A n \in 1..Len(todo) :
          \/ todo[n].row \in ToSync(m) /\ todo[n].weight = m[todo[n].row]
          \/ todo[n].row \in ToZero(m) /\ todo[n].weight = 0
  <2> HIDE DEF todo
  <2> QED
    BY <1>10, <1>11, <1>12
<1>14. Write(c, todo)
  BY <1>5
<1> HIDE DEF todo
<1> QED
  BY <1>3, <1>4, <1>12, <1>13, <1>14

(* Every step of the sync of the live weights keeps the type.               *)
LEMMA SyncTyped ==
    ASSUME TypeInv, NEW c \in Slots, Sync(c)
    PROVE  TypeInv'
<1> USE DEF At
<1>1. /\ pool \in Seq(PoolRow) /\ stamp \in Nat /\ begun \in Nat
      /\ calls \in [Slots -> Call \cup {Idle}]
      /\ calls[c] # Idle => calls[c] \in Call /\ Sound(calls[c], pool)
      /\ Len(pool) \in Nat /\ live \in [Provisioned -> LiveRow] /\ booked \subseteq Provisioned
  BY MembersAreRows DEF TypeInv, TypeOK
<1>2. CASE ReadPoolWeights(c)
  <2> DEFINE read == [n \in 1..Len(pool) |-> [row |-> pool[n].surface, weight |->
                                                 IF n \in Active THEN pool[n].weight ELSE 0]]
             k == [calls[c] EXCEPT !.pc = "plan", !.todo = read, !.seen = Active]
  <2>1. calls[c] \in Call /\ calls[c].op = "sync" /\ Sound(calls[c], pool)
    BY <1>1, <1>2 DEF ReadPoolWeights
  <2>2. Active \subseteq 1..Len(pool) /\ Active \subseteq Nat \ {0}
    BY <1>1, MembersAreRows
  <2>3. \A n \in 1..Len(pool) : read[n] \in [row : (Nat \ {0}) \cup Surfaces, weight : Nat]
                                /\ read[n].row = pool[n].surface
    BY MembersAreRows DEF PoolRow
  <2> DEFINE E == [row : (Nat \ {0}) \cup Surfaces, weight : Nat]
  <2>4. read \in Seq(E) /\ Len(read) = Len(pool)
    <3>1. read \in [1..Len(pool) -> E]
      BY <2>3
    <3> HIDE DEF E, read
    <3>2. read \in Seq(E) /\ DOMAIN read = 1..Len(pool)
      BY <1>1, <3>1, SeqDef
    <3> QED
      BY <1>1, <3>2, LenProperties
  <2> HIDE DEF read
  <2>5. k \in Call /\ Sound(k, pool)
    <3>1. k \in Call /\ k.todo = read /\ k.seen = Active /\ k.op = "sync" /\ k.pc = "plan"
      BY <2>1, <2>2, <2>4 DEF Call
    <3> HIDE DEF k
    <3>2. Sound(k, pool)
      BY <1>1, <2>2, <2>3, <2>4, <3>1 DEF Sound
    <3> QED
      BY <3>1, <3>2
  <2>6. calls' = [calls EXCEPT ![c] = k]
    BY <1>1, <1>2 DEF ReadPoolWeights, read
  <2> QED
    BY <1>1, <1>2, <2>5, <2>6, CallStep DEF ReadPoolWeights
<1>3. CASE PlanSync(c)
  <2>1. PICK m \in [SeenSurfaces(c) -> Nat],
             todo \in Seq([row : (Nat \ {0}) \cup Surfaces, weight : Nat]) :
           Write(c, todo) /\ Rows(todo) = ToSync(m) \cup ToZero(m)
    BY <1>3, SyncPlan
  <2> DEFINE k == [calls[c] EXCEPT !.pc = "write", !.todo = todo]
  <2>2. Rows(todo) \subseteq Provisioned
    BY <2>1 DEF ToSync, ToZero
  <2>3. calls[c] \in Call /\ calls[c].op = "sync" /\ Sound(calls[c], pool)
    BY <1>1, <1>3 DEF PlanSync
  <2>4. k \in Call /\ Sound(k, pool)
    BY <2>1, <2>2, <2>3 DEF Call, Sound
  <2>5. calls' = [calls EXCEPT ![c] = k]
    BY <1>1, <2>1 DEF Write
  <2> QED
    BY <1>1, <1>3, <2>4, <2>5, CallStep DEF PlanSync
<1>4. CASE WriteLiveWeight(c)
  <2>1. Grows(pool, pool') /\ pool' \in Seq(PoolRow)
    BY <1>1, <1>4, GrowsIsReflexive DEF WriteLiveWeight
  <2>2. /\ calls' \in [Slots -> Call \cup {Idle}]
        /\ \A d \in Slots : calls'[d] # Idle => Sound(calls'[d], pool')
    BY <1>4, <2>1, ShiftMoves DEF WriteLiveWeight
  <2>3. Next1(c).row \in Provisioned /\ Next1(c).weight \in Nat
    <3>1. /\ calls[c].todo \in Seq([row : (Nat \ {0}) \cup Surfaces, weight : Nat])
          /\ Rows(calls[c].todo) \subseteq Provisioned /\ calls[c].todo # <<>>
      BY <1>1, <1>4 DEF WriteLiveWeight, Call, Sound
    <3>2. 1 \in 1..Len(calls[c].todo) /\ Next1(c) = calls[c].todo[1]
          /\ calls[c].todo[1].row \in Rows(calls[c].todo)
      BY <3>1, TailOfPlan DEF Next1
    <3>3. calls[c].todo[1] \in [row : (Nat \ {0}) \cup Surfaces, weight : Nat]
      BY <3>1, <3>2, ElementOfSeq
    <3> QED
      BY <3>1, <3>2, <3>3
  <2>4. live' \in [Provisioned -> LiveRow] /\ booked' \subseteq Provisioned
        /\ last' \in {"live", "sync"}
    BY <1>1, <1>4, <2>3 DEF WriteLiveWeight, LiveRow, Sources, BookSources
  <2>5. UNCHANGED <<pool, journal, stamp, begun, mishaps, returns, serial>>
    BY <1>4 DEF WriteLiveWeight
  <2> QED
    BY <2>2, <2>4, <2>5 DEF TypeInv, TypeOK, Active
<1>5. CASE SyncAnswers(c)
  <2>1. Grows(pool, pool') /\ pool' \in Seq(PoolRow)
    BY <1>1, <1>5, GrowsIsReflexive DEF SyncAnswers
  <2>2. /\ calls' \in [Slots -> Call \cup {Idle}]
        /\ \A d \in Slots : calls'[d] # Idle => Sound(calls'[d], pool')
    BY <1>5, <2>1, CallMoves DEF SyncAnswers, Answer
  <2>3. UNCHANGED <<pool, live, journal, stamp, begun, mishaps, returns, serial, booked>>
        /\ last' = "sync"
    BY <1>5 DEF SyncAnswers
  <2> QED
    BY <2>2, <2>3 DEF TypeInv, TypeOK, Active
<1> QED
  BY <1>2, <1>3, <1>4, <1>5 DEF Sync

(* The targets of a rebalance of the account, all with one new weight.      *)
LEMMA AccountPlan ==
    ASSUME TypeInv, NEW c \in Slots, FetchTargets(c)
    PROVE  \/ Answer(c) /\ UNCHANGED stamp
           \/ /\ stamp' = stamp + 1
              /\ \E todo \in Seq([row : (Nat \ {0}) \cup Surfaces, weight : Nat]) :
                    /\ todo # <<>> /\ Rows(todo) \subseteq Protected
                    /\ \A n \in 1..Len(todo) : todo[n].weight = stamp + 1
                    /\ calls' = [calls EXCEPT ![c].pc = "commit", ![c].todo = todo]
<1> DEFINE R == {s \in Protected : live[s].source # "MANUAL"}
           w == [s \in R |-> stamp + 1]
<1>1. CASE R = {}
  BY <1>1 DEF FetchTargets
<1>2. CASE R # {}
  <2>1. /\ stamp' = stamp + 1
        /\ \E q \in Orders(R, w) : calls' = [calls EXCEPT ![c].pc = "commit", ![c].todo = q]
    BY <1>2 DEF FetchTargets
  <2>2. PICK q \in Orders(R, w) : calls' = [calls EXCEPT ![c].pc = "commit", ![c].todo = q]
    BY <2>1
  <2>3. R \subseteq Protected /\ Protected \subseteq Surfaces
    BY BooksAssumption
  <2>4. IsFiniteSet(R) /\ R \subseteq (Nat \ {0}) \cup Surfaces
    BY <2>3, MembersAreRows
  <2>5. \A r \in R : w[r] = stamp + 1 /\ w[r] \in Nat
    BY DEF TypeInv, TypeOK
  <2> HIDE DEF R, w
  <2>6. q \in Seq([row : (Nat \ {0}) \cup Surfaces, weight : Nat]) /\ Rows(q) = R /\ q # <<>>
    BY <1>2, <2>2, <2>4, <2>5, PlansAreTyped
  <2>7. \A n \in 1..Len(q) : q[n].row \in R /\ q[n].weight = w[q[n].row]
    BY <2>2, <2>4, <2>5, PlansAreTyped
  <2> QED
    BY <2>1, <2>2, <2>3, <2>5, <2>6, <2>7
<1> QED
  BY <1>1, <1>2

(* What a rebalance of the account commits.                                 *)
LEMMA AccountCommit ==
    ASSUME TypeInv, NEW c \in Slots, At(c, {"account"}, "commit")
    PROVE  /\ Next1(c).weight \in Nat \ {0}
           /\ Targets(c) = Rows(calls[c].todo) /\ Targets(c) \subseteq Provisioned
<1> DEFINE todo == calls[c].todo
<1>1. calls[c] \in Call /\ Sound(calls[c], pool) /\ calls[c].op = "account" /\ calls[c].pc = "commit"
  BY DEF At, TypeInv, TypeOK
<1>2. /\ todo \in Seq([row : (Nat \ {0}) \cup Surfaces, weight : Nat]) /\ todo # <<>>
      /\ Rows(todo) \subseteq Provisioned /\ todo[1].weight # 0
  BY <1>1 DEF Call, Sound
<1> HIDE DEF todo
<1>3. 1 \in 1..Len(todo) /\ Head(todo) = todo[1] /\ DOMAIN todo = 1..Len(todo)
  BY <1>2, TailOfPlan, LenProperties
<1>4. todo[1] \in [row : (Nat \ {0}) \cup Surfaces, weight : Nat]
  BY <1>2, <1>3, ElementOfSeq
<1> QED
  BY <1>2, <1>3, <1>4 DEF Next1, Targets, Rows, todo

(* Every step of the rebalance of the book keeps the type.                  *)
LEMMA RebalanceBookTyped ==
    ASSUME TypeInv, NEW c \in Slots, RebalanceBook(c)
    PROVE  TypeInv'
<1>1. /\ pool \in Seq(PoolRow) /\ stamp \in Nat /\ begun \in Nat
      /\ calls \in [Slots -> Call \cup {Idle}]
      /\ calls[c] # Idle => calls[c] \in Call /\ Sound(calls[c], pool)
      /\ live \in [Provisioned -> LiveRow]
  BY DEF TypeInv, TypeOK
<1>2. CASE FetchTargets(c)
  <2>1. UNCHANGED <<pool, live, journal, begun, mishaps, returns, serial, booked, last>>
        /\ calls[c] # Idle /\ calls[c].op = "account"
    BY <1>2 DEF FetchTargets, At
  <2>2. CASE Answer(c) /\ UNCHANGED stamp
    BY <1>1, <2>1, <2>2, AnswerStep
  <2>3. CASE ~(Answer(c) /\ UNCHANGED stamp)
    <3>1. PICK todo \in Seq([row : (Nat \ {0}) \cup Surfaces, weight : Nat]) :
            /\ todo # <<>> /\ Rows(todo) \subseteq Protected
            /\ \A n \in 1..Len(todo) : todo[n].weight = stamp + 1
            /\ calls' = [calls EXCEPT ![c].pc = "commit", ![c].todo = todo]
      BY <1>2, <2>3, AccountPlan
    <3> DEFINE k == [calls[c] EXCEPT !.pc = "commit", !.todo = todo]
    <3>2. stamp' = stamp + 1
      BY <1>2, <2>3, AccountPlan
    <3>3. 1 \in 1..Len(todo) /\ Rows(todo) \subseteq Provisioned
      BY <3>1, TailOfPlan, BooksAssumption
    <3>4. /\ k \in Call /\ k.todo = todo /\ k.seen = calls[c].seen
          /\ k.op = "account" /\ k.pc = "commit"
      BY <1>1, <2>1, <3>1 DEF Call
    <3>5. calls' = [calls EXCEPT ![c] = k]
      BY <1>1, <3>1
    <3> HIDE DEF k
    <3>6. Sound(k, pool)
      BY <1>1, <2>1, <3>1, <3>3, <3>4 DEF Sound
    <3>7. stamp' \in Nat /\ begun' \in Nat
      BY <1>1, <2>1, <3>2
    <3> QED
      BY <2>1, <3>4, <3>5, <3>6, <3>7, CallStep
  <2> QED
    BY <2>2, <2>3
<1>3. CASE CommitRebalance(c) \/ BlockRebalance(c)
  <2>1. /\ Answer(c) /\ UNCHANGED <<pool, stamp, begun, mishaps, returns, serial, booked>>
        /\ At(c, {"account"}, "commit") /\ last' \in {"live", last}
    BY <1>3 DEF CommitRebalance, BlockRebalance
  <2>2. /\ calls' \in [Slots -> Call \cup {Idle}]
        /\ \A d \in Slots : calls'[d] # Idle => Sound(calls'[d], pool')
    BY <1>1, <2>1, GrowsIsReflexive, CallMoves DEF Answer
  <2>3. Next1(c).weight \in Nat \ {0} /\ Targets(c) \subseteq Provisioned
    BY <2>1, AccountCommit
  <2>4. /\ [weight |-> Next1(c).weight, rows |-> Targets(c), blocked |-> FALSE] \in JournalEntry
        /\ [weight |-> Next1(c).weight, rows |-> {}, blocked |-> TRUE] \in JournalEntry
    BY <2>3 DEF JournalEntry
  <2>5. journal \subseteq JournalEntry
    BY DEF TypeInv, TypeOK
  <2>6. live' \in [Provisioned -> LiveRow] /\ journal' \subseteq JournalEntry
    <3>1. CASE CommitRebalance(c)
      BY <1>1, <2>3, <2>4, <2>5, <3>1 DEF CommitRebalance, LiveRow, Sources
    <3>2. CASE BlockRebalance(c)
      BY <1>1, <2>4, <2>5, <3>2 DEF BlockRebalance
    <3> QED
      BY <1>3, <3>1, <3>2
  <2> QED
    BY <2>1, <2>2, <2>6 DEF TypeInv, TypeOK, Active
<1> QED
  BY <1>2, <1>3 DEF RebalanceBook

(* The type invariant holds of an empty pool and book.                      *)
LEMMA TypeInvInit == Init => TypeInv
<1> SUFFICES ASSUME Init PROVE TypeInv
  OBVIOUS
<1>1. pool \in Seq(PoolRow) /\ Active = {}
  BY EmptySeq DEF Init, Active
<1>2. live \in [Provisioned -> LiveRow]
  BY DEF Init, LiveRow, Sources
<1>3. calls \in [Slots -> Call \cup {Idle}] /\ \A c \in Slots : calls[c] = Idle
  BY DEF Init
<1>4. /\ journal \subseteq JournalEntry /\ stamp \in Nat /\ begun \in Nat /\ mishaps \in 0..MaxMishaps
      /\ booked \subseteq Provisioned /\ last \in {"none", "pool", "live", "sync"}
  BY BooksAssumption DEF Init
<1>5. returns \in Histories /\ serial \in BOOLEAN
  BY DEF Init
<1> QED
  BY <1>1, <1>2, <1>3, <1>4, <1>5 DEF TypeInv, TypeOK

(* Every step keeps the type invariant.                                     *)
LEMMA TypeInvStep == TypeInv /\ [Next]_vars => TypeInv'
<1> SUFFICES ASSUME TypeInv, [Next]_vars PROVE TypeInv'
  OBVIOUS
<1>1. /\ pool \in Seq(PoolRow) /\ stamp \in Nat /\ begun \in Nat /\ mishaps \in 0..MaxMishaps
      /\ calls \in [Slots -> Call \cup {Idle}] /\ live \in [Provisioned -> LiveRow]
  BY DEF TypeInv, TypeOK
<1>2. ASSUME NEW c \in Slots, NEW op \in {"evaluate", "stream", "rebalance", "reconcile",
                                          "sync", "account"},
             NEW s \in Surfaces, NEW theta \in Thetas, Start(c, op, s, theta)
      PROVE  TypeInv'
  <2> DEFINE k == Begin(op, s, theta)
  <2>1. k \in Call /\ Sound(k, pool)
    BY BeginIsSound
  <2>2. /\ calls' = [calls EXCEPT ![c] = k] /\ begun' \in Nat /\ stamp' \in Nat
        /\ UNCHANGED <<pool, live, journal, mishaps, returns, serial, booked, last>>
    BY <1>1, <1>2 DEF Start
  <2> HIDE DEF k
  <2> QED
    BY <2>1, <2>2, CallStep
<1>3. ASSUME NEW s \in Provisioned, Override(s)
      PROVE  TypeInv'
  <2>1. live' \in [Provisioned -> LiveRow] /\ stamp' \in Nat /\ mishaps' \in 0..MaxMishaps
    BY <1>1, <1>3, BooksAssumption DEF Override, LiveRow, Sources
  <2> QED
    BY <1>3, <2>1 DEF Override, TypeInv, TypeOK, Active
<1>4. CASE ReturnsChange
  <2>1. mishaps' \in 0..MaxMishaps
    BY <1>1, <1>4, BooksAssumption DEF ReturnsChange
  <2> QED
    BY <1>4, <2>1 DEF ReturnsChange, TypeInv, TypeOK, Active
<1>5. CASE Crash
  <2>1. calls' \in [Slots -> Call \cup {Idle}] /\ mishaps' \in 0..MaxMishaps
        /\ \A c \in Slots : calls'[c] = Idle
    BY <1>1, <1>5, BooksAssumption DEF Crash
  <2> QED
    BY <1>5, <2>1 DEF Crash, TypeInv, TypeOK, Active
<1>6. CASE UNCHANGED vars
  BY <1>6 DEF vars, TypeInv, TypeOK, Active
<1> QED
  BY <1>2, <1>3, <1>4, <1>5, <1>6, AdmissionTyped, PoolUpkeepTyped, SyncTyped,
     RebalanceBookTyped DEF Next, Admission

(* Whatever the calls do to each other, every table and every call in       *)
(* flight stays well formed: in particular ON CONFLICT DO NOTHING keeps    *)
(* one active row for a surface, although the check and the insert of an   *)
(* admission are apart.                                                    *)
THEOREM TypeCorrect == Spec => []TypeOK
<1>1. Spec => []TypeInv
  BY TypeInvInit, TypeInvStep, PTL DEF Spec
<1>2. TypeInv => TypeOK
  BY DEF TypeInv
<1> QED
  BY <1>1, <1>2, PTL

---------------------------------------------------------------------------
(* What the book zeroes, and what a rebalance of the account journals *)

(* Nothing but these steps writes a weight of the account.                  *)
LEMMA LiveWrites ==
    ASSUME [Next]_vars
    PROVE  \/ UNCHANGED <<live, journal>>
           \/ \E c \in Slots : WriteLiveWeight(c) \/ CommitRebalance(c) \/ BlockRebalance(c)
           \/ \E s \in Provisioned : Override(s)
<1>1. ASSUME NEW c \in Slots, PoolUpkeep(c)
      PROVE  UNCHANGED <<live, journal>>
  BY <1>1 DEF PoolUpkeep, ReadMembers, PlanRebalance, ReadSeries, EvictionRound, WritePoolWeight,
     Evict, PoolAnswers
<1> QED
  BY <1>1 DEF Next, vars, Start, Admission, Gate, GateRefuses, EvaluateAdmission, InsertMember,
     Sync, ReadPoolWeights, PlanSync, WriteLiveWeight, SyncAnswers, RebalanceBook, FetchTargets,
     CommitRebalance, BlockRebalance, Override, ReturnsChange, Crash

(* The row that a sync writes next.                                         *)
LEMMA SyncWrite ==
    ASSUME TypeInv, NEW c \in Slots, WriteLiveWeight(c)
    PROVE  /\ Next1(c) = calls[c].todo[1] /\ 1 \in 1..Len(calls[c].todo)
           /\ Next1(c).row \in Provisioned /\ Next1(c).weight \in Nat
           /\ live' = [live EXCEPT ![Next1(c).row] = [weight |-> Next1(c).weight, source |->
                         IF Next1(c).weight = 0 THEN "HOUSE_BOOK_EVICTED" ELSE "HOUSE_BOOK"]]
           /\ booked' = booked \cup {Next1(c).row}
           /\ calls' = [calls EXCEPT ![c] = [calls[c] EXCEPT !.todo = Tail(@)]]
           /\ Len(Tail(calls[c].todo)) = Len(calls[c].todo) - 1
           /\ \A n \in 1..Len(Tail(calls[c].todo)) :
                 n + 1 \in 1..Len(calls[c].todo) /\ Tail(calls[c].todo)[n] = calls[c].todo[n + 1]
           /\ Rows(calls[c].todo) = Rows(Tail(calls[c].todo)) \cup {Next1(c).row}
<1> DEFINE todo == calls[c].todo
           E == [row : (Nat \ {0}) \cup Surfaces, weight : Nat]
<1>1. calls[c] \in Call /\ Sound(calls[c], pool) /\ calls[c].op = "sync" /\ calls[c].pc = "write"
      /\ todo # <<>>
  BY DEF WriteLiveWeight, At, TypeInv, TypeOK
<1>2. todo \in Seq(E) /\ Rows(todo) \subseteq Provisioned
  BY <1>1 DEF Call, Sound
<1>3. /\ Len(Tail(todo)) = Len(todo) - 1 /\ Head(todo) = todo[1] /\ 1 \in 1..Len(todo)
      /\ \A n \in 1..Len(Tail(todo)) : n + 1 \in 1..Len(todo) /\ Tail(todo)[n] = todo[n + 1]
      /\ Rows(todo) = Rows(Tail(todo)) \cup {todo[1].row}
  BY <1>1, <1>2, TailOfPlan
<1>4. todo[1] \in E
  BY <1>2, <1>3, ElementOfSeq
<1>5. calls' = [calls EXCEPT ![c] = [calls[c] EXCEPT !.todo = Tail(@)]]
  BY DEF WriteLiveWeight, Shift, TypeInv, TypeOK
<1> HIDE DEF todo
<1>6. /\ Next1(c) = todo[1] /\ todo[1].row \in Provisioned /\ todo[1].weight \in Nat
  BY <1>2, <1>3, <1>4 DEF Next1, todo
<1>7. /\ live' = [live EXCEPT ![Next1(c).row] = [weight |-> Next1(c).weight, source |->
                    IF Next1(c).weight = 0 THEN "HOUSE_BOOK_EVICTED" ELSE "HOUSE_BOOK"]]
      /\ booked' = booked \cup {Next1(c).row}
  BY DEF WriteLiveWeight
<1> QED
  BY <1>3, <1>5, <1>6, <1>7 DEF todo

(* The property is inductive by itself: a commit adds an entry that names   *)
(* its rows, entries stay, and every other writer leaves another source.   *)
LEMMA AuditStep ==
    TypeInv /\ RebalanceIsAudited /\ [Next]_vars => RebalanceIsAudited'
<1> SUFFICES ASSUME TypeInv, RebalanceIsAudited, [Next]_vars PROVE RebalanceIsAudited'
  OBVIOUS
<1>1. live \in [Provisioned -> LiveRow]
  BY DEF TypeInv, TypeOK
<1>2. CASE UNCHANGED <<live, journal>>
  BY <1>2 DEF RebalanceIsAudited
<1>3. ASSUME NEW c \in Slots, WriteLiveWeight(c)
      PROVE  RebalanceIsAudited'
  <2>1. UNCHANGED journal /\ \A s \in Provisioned : live'[s].source = "HRP" => live'[s] = live[s]
    BY <1>1, <1>3, SyncWrite DEF WriteLiveWeight
  <2> QED
    BY <2>1 DEF RebalanceIsAudited
<1>4. ASSUME NEW c \in Slots, CommitRebalance(c)
      PROVE  RebalanceIsAudited'
  <2> DEFINE e == [weight |-> Next1(c).weight, rows |-> Targets(c), blocked |-> FALSE]
  <2>1. /\ journal' = journal \cup {e}
        /\ live' = [s \in Provisioned |-> IF s \in Targets(c)
                       THEN [weight |-> Next1(c).weight, source |-> "HRP"] ELSE live[s]]
    BY <1>4 DEF CommitRebalance
  <2>2. \A s \in Provisioned : \/ live'[s] = live[s]
                               \/ s \in Targets(c) /\ live'[s].weight = Next1(c).weight
    BY <2>1
  <2>3. ASSUME NEW s \in Provisioned, live'[s].source = "HRP"
        PROVE  \E f \in journal' : f.weight = live'[s].weight /\ s \in f.rows /\ ~f.blocked
    <3>1. CASE live'[s] = live[s]
      BY <2>1, <2>3, <3>1 DEF RebalanceIsAudited
    <3>2. CASE s \in Targets(c) /\ live'[s].weight = Next1(c).weight
      <4>1. e.weight = live'[s].weight /\ s \in e.rows /\ ~e.blocked
        BY <3>2
      <4> QED
        BY <2>1, <4>1
    <3> QED
      BY <2>2, <3>1, <3>2
  <2> QED
    BY <2>3 DEF RebalanceIsAudited
<1>5. ASSUME NEW c \in Slots, BlockRebalance(c)
      PROVE  RebalanceIsAudited'
  BY <1>5 DEF BlockRebalance, RebalanceIsAudited
<1>6. ASSUME NEW s \in Provisioned, Override(s)
      PROVE  RebalanceIsAudited'
  BY <1>1, <1>6 DEF Override, RebalanceIsAudited
<1> QED
  BY <1>2, <1>3, <1>4, <1>5, <1>6, LiveWrites

(* A live weight that a rebalance of the account set has its audit entry,   *)
(* whichever calls, overrides and crashes come between: rows and journal   *)
(* are one transaction, and journal entries are never taken back.          *)
THEOREM RebalancesAreAudited == Spec => []RebalanceIsAudited
<1>1. Init => RebalanceIsAudited
  BY DEF Init, RebalanceIsAudited
<1>2. Spec => []TypeInv
  BY TypeInvInit, TypeInvStep, PTL DEF Spec
<1> QED
  BY <1>1, <1>2, AuditStep, PTL DEF Spec

(* No call has planned on the book yet.                                     *)
LEMMA BookInvInit == Init => BookInv
BY DEF Init, BookInv, BookSources, At

(* A step moves one call, and by which step a call got where it is.         *)
LEMMA OneCallMoves ==
    ASSUME TypeInv, NEW c \in Slots, NEW d \in Slots, c # d,
           \/ \E op, s, theta : Start(c, op, s, theta)
           \/ Admission(c) \/ PoolUpkeep(c) \/ Sync(c) \/ RebalanceBook(c)
    PROVE  calls'[d] = calls[d]
<1>1. DOMAIN calls = Slots
  BY DEF TypeInv, TypeOK
<1> QED
  BY <1>1 DEF Start, Admission, Gate, GateRefuses, EvaluateAdmission, InsertMember, PoolUpkeep,
     ReadMembers, PlanRebalance, ReadSeries, EvictionRound, WritePoolWeight, Evict, PoolAnswers, Sync,
     ReadPoolWeights, PlanSync, WriteLiveWeight, SyncAnswers, RebalanceBook, FetchTargets,
     CommitRebalance, BlockRebalance, Goto, Answer, Write, Shift

(* What a round of evictions does to its call.                              *)
LEMMA RoundMoves ==
    ASSUME TypeInv, NEW c \in Slots, EvictionRound(c)
    PROVE  /\ calls[c] \in Call /\ calls[c] # Idle /\ calls'[c] # Idle
           /\ calls[c].op = "reconcile" /\ calls[c].pc = "score" /\ calls'[c].op = "reconcile"
           /\ calls'[c].seen = calls[c].seen /\ calls'[c].view = calls[c].view
           /\ calls'[c].theta = calls[c].theta
           /\ \/ /\ Evictable(calls[c].view, calls[c].left, calls[c].theta) = {}
                 /\ calls'[c].pc = "write" /\ calls'[c].left = calls[c].left
                 /\ calls'[c].todo = calls[c].todo
              \/ /\ calls'[c].pc = "score"
                 /\ \E s \in Lowest(calls[c].view, calls[c].left, calls[c].theta) :
                        /\ calls'[c].left = calls[c].left \ {s}
                        /\ calls'[c].todo = calls[c].todo \o RowOf(c, s)
<1>1. /\ calls \in [Slots -> Call \cup {Idle}] /\ calls[c] \in Call /\ calls[c] # Idle
      /\ calls[c].op = "reconcile" /\ calls[c].pc = "score"
  BY DEF EvictionRound, At, TypeInv, TypeOK
<1> DEFINE k == calls[c]
<1>2. CASE Goto(c, "write") /\ Evictable(k.view, k.left, k.theta) = {}
  <2>1. calls'[c] = [k EXCEPT !.pc = "write"]
    BY <1>1, <1>2 DEF Goto
  <2> QED
    BY <1>1, <1>2, <2>1 DEF Call, Idle
<1>3. ASSUME NEW s \in Lowest(k.view, k.left, k.theta),
             calls' = [calls EXCEPT ![c].left = @ \ {s}, ![c].todo = @ \o RowOf(c, s)]
      PROVE  /\ calls'[c].op = "reconcile" /\ calls'[c].pc = "score" /\ calls'[c] # Idle
             /\ calls'[c].seen = k.seen /\ calls'[c].view = k.view /\ calls'[c].theta = k.theta
             /\ calls'[c].left = k.left \ {s} /\ calls'[c].todo = k.todo \o RowOf(c, s)
  <2> DEFINE todo == k.todo \o RowOf(c, s)
  <2>1. calls'[c] = [k EXCEPT !.left = k.left \ {s}, !.todo = todo]
    BY <1>1, <1>3
  <2> HIDE DEF todo
  <2>2. /\ calls'[c].op = "reconcile" /\ calls'[c].pc = "score"
        /\ calls'[c].seen = k.seen /\ calls'[c].view = k.view /\ calls'[c].theta = k.theta
        /\ calls'[c].left = k.left \ {s} /\ calls'[c].todo = todo
    BY <1>1, <2>1 DEF Call
  <2> QED
    BY <2>2 DEF todo, Idle
<1> HIDE DEF k
<1>4. \/ Goto(c, "write") /\ Evictable(k.view, k.left, k.theta) = {}
      \/ \E s \in Lowest(k.view, k.left, k.theta) :
            calls' = [calls EXCEPT ![c].left = @ \ {s}, ![c].todo = @ \o RowOf(c, s)]
  BY DEF EvictionRound, k
<1> QED
  BY <1>1, <1>2, <1>3, <1>4 DEF k

(* A call is at a step only by the step before it.                          *)
LEMMA HowItGotThere ==
    ASSUME TypeInv, [Next]_vars, NEW d \in Slots, calls'[d] # calls[d], calls'[d] # Idle
    PROVE  /\ At(d, {"rebalance", "reconcile"}, "plan")' => ReadMembers(d)
           /\ At(d, {"sync"}, "plan")' => ReadPoolWeights(d)
           /\ At(d, {"rebalance"}, "write")' => PlanRebalance(d) \/ WritePoolWeight(d)
           /\ At(d, {"reconcile"}, "score")' => ReadSeries(d) \/ EvictionRound(d)
           /\ At(d, {"reconcile"}, "write")' => EvictionRound(d) \/ Evict(d)
           /\ At(d, {"sync"}, "write")' => PlanSync(d) \/ WriteLiveWeight(d)
<1> USE DEF At
<1>1. calls \in [Slots -> Call \cup {Idle}]
  BY DEF TypeInv, TypeOK
<1>2. \/ \E op, s, theta : Start(d, op, s, theta)
      \/ Admission(d) \/ PoolUpkeep(d) \/ Sync(d) \/ RebalanceBook(d)
  <2>1. ~Crash
    BY DEF Crash
  <2>2. ~(UNCHANGED calls)
    OBVIOUS
  <2>3. PICK c \in Slots : \/ \E op, s, theta : Start(c, op, s, theta)
                           \/ Admission(c) \/ PoolUpkeep(c) \/ Sync(c) \/ RebalanceBook(c)
    BY <2>1, <2>2 DEF Next, vars, Override, ReturnsChange
  <2> QED
    BY <2>3, OneCallMoves
<1>3. CASE \E op, s, theta : Start(d, op, s, theta)
  BY <1>1, <1>3 DEF Start, Begin
<1>4. CASE Admission(d)
  BY <1>1, <1>4 DEF Admission, Gate, GateRefuses, EvaluateAdmission, InsertMember, Goto, Answer, Call
<1>5. CASE PoolUpkeep(d)
  <2>1. CASE ReadSeries(d) \/ EvictionRound(d)
    <3>1. CASE ReadSeries(d)
      BY <1>1, <2>1, <3>1 DEF ReadSeries, Call
    <3>2. CASE EvictionRound(d)
      BY <3>2, RoundMoves
    <3> QED
      BY <2>1, <3>1, <3>2
  <2>2. CASE ReadMembers(d) \/ PlanRebalance(d)
    BY <1>1, <2>2 DEF ReadMembers, PlanRebalance, Answer, Write, Call
  <2>3. CASE WritePoolWeight(d) \/ Evict(d) \/ PoolAnswers(d)
    BY <1>1, <2>3 DEF WritePoolWeight, Evict, PoolAnswers, Answer, Shift, Call
  <2> QED
    BY <1>5, <2>1, <2>2, <2>3 DEF PoolUpkeep
<1>6. CASE Sync(d)
  BY <1>1, <1>6 DEF Sync, ReadPoolWeights, PlanSync, WriteLiveWeight, SyncAnswers, Answer, Write,
     Shift, Call
<1>7. CASE RebalanceBook(d)
  BY <1>1, <1>7 DEF RebalanceBook, FetchTargets, CommitRebalance, BlockRebalance, Answer, Call
<1> QED
  BY <1>2, <1>3, <1>4, <1>5, <1>6, <1>7

(* Every step keeps what a planning call knows of the book.                 *)
LEMMA BookInvStep == TypeInv /\ BookInv /\ [Next]_vars => BookInv'
<1> SUFFICES ASSUME TypeInv, BookInv, [Next]_vars PROVE BookInv'
  OBVIOUS
<1>1. live \in [Provisioned -> LiveRow]
  BY DEF TypeInv, TypeOK
<1>2. booked \subseteq booked'
  BY DEF Next, vars, Start, Admission, Gate, GateRefuses, EvaluateAdmission, InsertMember,
     PoolUpkeep, ReadMembers, PlanRebalance, ReadSeries, EvictionRound, WritePoolWeight, Evict, PoolAnswers,
     Sync, ReadPoolWeights, PlanSync, WriteLiveWeight, SyncAnswers, RebalanceBook, FetchTargets,
     CommitRebalance, BlockRebalance, Override, ReturnsChange, Crash
<1>3. ASSUME NEW s \in Provisioned, live'[s].source \in BookSources
      PROVE  s \in booked'
  <2>1. CASE live'[s] = live[s]
    BY <1>2, <1>3, <2>1 DEF BookInv
  <2>2. CASE live'[s] # live[s]
    <3>1. ~\E c \in Slots : CommitRebalance(c) \/ BlockRebalance(c)
      BY <1>3, <2>2 DEF CommitRebalance, BlockRebalance, BookSources
    <3>2. ~\E r \in Provisioned : Override(r)
      BY <1>1, <1>3, <2>2 DEF Override, BookSources
    <3>3. PICK c \in Slots : WriteLiveWeight(c)
      BY <2>2, <3>1, <3>2, LiveWrites
    <3> QED
      BY <1>1, <2>2, <3>3, SyncWrite
  <2> QED
    BY <2>1, <2>2
<1>4. ASSUME NEW c \in Slots, At(c, {"sync"}, "write")', NEW n \in 1..Len(calls'[c].todo),
             calls'[c].todo[n].weight = 0
      PROVE  calls'[c].todo[n].row \in booked'
  <2>1. CASE calls'[c] = calls[c]
    <3>1. At(c, {"sync"}, "write")
      BY <1>4, <2>1 DEF At
    <3> QED
      BY <1>2, <1>4, <2>1, <3>1 DEF BookInv
  <2>2. CASE PlanSync(c)
    <3>1. PICK m \in [SeenSurfaces(c) -> Nat],
               todo \in Seq([row : (Nat \ {0}) \cup Surfaces, weight : Nat]) :
            /\ Write(c, todo)
            /\ \A i \in 1..Len(todo) :
                  \/ todo[i].row \in ToSync(m) /\ todo[i].weight = m[todo[i].row]
                  \/ todo[i].row \in ToZero(m) /\ todo[i].weight = 0
      BY <2>2, SyncPlan
    <3>2. calls'[c].todo = todo
      BY <3>1, <2>2 DEF Write, TypeInv, TypeOK, PlanSync, At, Call
    <3>3. \A s \in ToSync(m) : m[s] # 0
      BY DEF ToSync
    <3>4. calls'[c].todo[n].row \in ToZero(m)
      BY <1>4, <3>1, <3>2, <3>3
    <3> QED
      BY <1>2, <3>4 DEF BookInv, ToZero
  <2>3. CASE WriteLiveWeight(c)
    <3>1. calls'[c].todo = Tail(calls[c].todo)
      <4>1. calls \in [Slots -> Call \cup {Idle}] /\ calls[c] # Idle
        BY <2>3 DEF TypeInv, TypeOK, WriteLiveWeight, At
      <4>2. calls' = [calls EXCEPT ![c].todo = Tail(@)]
        BY <2>3 DEF WriteLiveWeight, Shift
      <4> QED
        BY <4>1, <4>2 DEF Call
    <3>2. n + 1 \in 1..Len(calls[c].todo) /\ calls'[c].todo[n] = calls[c].todo[n + 1]
      BY <1>4, <2>3, <3>1, SyncWrite
    <3>3. At(c, {"sync"}, "write")
      BY <2>3 DEF WriteLiveWeight
    <3> QED
      BY <1>2, <1>4, <3>2, <3>3 DEF BookInv
  <2> QED
    BY <1>4, <2>1, <2>2, <2>3, HowItGotThere DEF At
<1> QED
  BY <1>3, <1>4 DEF BookInv

(* classify_book's promise: whatever overlaps, a sync takes to zero only    *)
(* rows that a sync wrote before, although the row may have been set by    *)
(* hand or by the account's rebalance since the sync read it.              *)
THEOREM OnlyTheBookIsZeroed == Spec => OnlyBookRowsZeroed
<1> DEFINE Kept == \A s \in Provisioned : live'[s].weight = 0 /\ live[s].weight # 0 => s \in booked
<1>1. TypeInv /\ BookInv /\ [Next]_vars => [Kept]_vars
  <2> SUFFICES ASSUME TypeInv, BookInv, [Next]_vars, NEW s \in Provisioned,
                      live'[s].weight = 0, live[s].weight # 0
               PROVE  s \in booked
    OBVIOUS
  <2>1. live \in [Provisioned -> LiveRow] /\ stamp \in Nat
    BY DEF TypeInv, TypeOK
  <2>2. ~\E c \in Slots : CommitRebalance(c) \/ BlockRebalance(c)
    <3> SUFFICES ASSUME NEW c \in Slots, CommitRebalance(c) PROVE FALSE
      BY DEF BlockRebalance
    <3>1. Next1(c).weight # 0
      BY AccountCommit DEF CommitRebalance
    <3> QED
      BY <3>1 DEF CommitRebalance
  <2>3. ~\E r \in Provisioned : Override(r)
    BY <2>1 DEF Override
  <2>4. PICK c \in Slots : WriteLiveWeight(c)
    BY <2>2, <2>3, LiveWrites
  <2>5. s = Next1(c).row /\ Next1(c).weight = 0
    BY <2>1, <2>4 DEF WriteLiveWeight
  <2>6. Next1(c) = calls[c].todo[1] /\ 1 \in 1..Len(calls[c].todo)
    BY <2>4, SyncWrite
  <2>7. At(c, {"sync"}, "write")
    BY <2>4 DEF WriteLiveWeight
  <2> QED
    BY <2>5, <2>6, <2>7 DEF BookInv
<1>2. Spec => [](TypeInv /\ BookInv)
  BY TypeInvInit, TypeInvStep, BookInvInit, BookInvStep, PTL DEF Spec
<1> QED
  BY <1>1, <1>2, PTL DEF Spec, OnlyBookRowsZeroed

---------------------------------------------------------------------------
(* One call after the other *)

(* Nothing but these steps writes the pool.                                 *)
LEMMA PoolWrites ==
    ASSUME [Next]_vars
    PROVE  UNCHANGED pool \/ \E c \in Slots : InsertMember(c) \/ WritePoolWeight(c) \/ Evict(c)
BY DEF Next, vars, Start, Admission, Gate, GateRefuses, EvaluateAdmission,
   PoolUpkeep, ReadMembers, PlanRebalance, ReadSeries, EvictionRound, PoolAnswers,
   Sync, ReadPoolWeights, PlanSync, WriteLiveWeight, SyncAnswers, RebalanceBook, FetchTargets,
   CommitRebalance, BlockRebalance, Override, ReturnsChange, Crash

(* Whether calls overlap is chosen at the start, once.                      *)
LEMMA SerialIsChosenOnce ==
    ASSUME [Next]_vars
    PROVE  serial' = serial
<1>1. ASSUME NEW c \in Slots, PoolUpkeep(c)
      PROVE  serial' = serial
  BY <1>1 DEF PoolUpkeep, ReadMembers, PlanRebalance, ReadSeries, EvictionRound, WritePoolWeight,
     Evict, PoolAnswers
<1> QED
  BY <1>1 DEF Next, vars, Start, Admission, Gate, GateRefuses, EvaluateAdmission, InsertMember,
     Sync, ReadPoolWeights, PlanSync, WriteLiveWeight, SyncAnswers, RebalanceBook, FetchTargets,
     CommitRebalance, BlockRebalance, Override, ReturnsChange, Crash

(* Only a start makes an idle slot busy.                                    *)
LEMMA OnlyAStartOccupies ==
    ASSUME TypeInv, [Next]_vars, NEW c \in Slots, calls[c] = Idle, calls'[c] # Idle
    PROVE  \E op, s, theta : Start(c, op, s, theta)
<1>1. ~Crash
  BY DEF Crash
<1>2. ~(UNCHANGED calls)
  OBVIOUS
<1>3. PICK d \in Slots : \/ \E op, s, theta : Start(d, op, s, theta)
                         \/ Admission(d) \/ PoolUpkeep(d) \/ Sync(d) \/ RebalanceBook(d)
  BY <1>1, <1>2 DEF Next, vars, Override, ReturnsChange
<1>4. d = c
  BY <1>3, OneCallMoves
<1>5. ~(Admission(c) \/ PoolUpkeep(c) \/ Sync(c) \/ RebalanceBook(c))
  BY DEF At, Admission, Gate, GateRefuses, EvaluateAdmission, InsertMember,
     PoolUpkeep, ReadMembers, PlanRebalance, ReadSeries, EvictionRound, WritePoolWeight, Evict, PoolAnswers,
     Sync, ReadPoolWeights, PlanSync, WriteLiveWeight, SyncAnswers, RebalanceBook, FetchTargets,
     CommitRebalance, BlockRebalance
<1> QED
  BY <1>3, <1>4, <1>5

(* A call that is at the same place as before sees the pool of before.      *)
LEMMA PoolIsHeld ==
    ASSUME TypeInv, Alone, [Next]_vars, NEW c \in Slots, calls[c] # Idle, calls'[c] = calls[c]
    PROVE  UNCHANGED pool
<1> SUFFICES ASSUME NEW d \in Slots, InsertMember(d) \/ WritePoolWeight(d) \/ Evict(d)
             PROVE  FALSE
  BY PoolWrites
<1>1. calls[d] # Idle
  BY DEF InsertMember, WritePoolWeight, Evict, At
<1>2. d = c
  BY <1>1 DEF Alone
<1>3. calls[c] \in Call /\ calls \in [Slots -> Call \cup {Idle}]
  BY DEF TypeInv, TypeOK
<1>4. ~InsertMember(c)
  BY <1>3 DEF InsertMember, Answer
<1>5. ~(WritePoolWeight(c) \/ Evict(c))
  <2> SUFFICES ASSUME WritePoolWeight(c) \/ Evict(c) PROVE FALSE
    OBVIOUS
  <2>1. calls[c].todo \in Seq([row : (Nat \ {0}) \cup Surfaces, weight : Nat])
        /\ calls[c].todo # <<>> /\ calls'[c].todo = Tail(calls[c].todo)
    BY <1>3 DEF WritePoolWeight, Evict, Shift, Call
  <2> PICK todo \in Seq([row : (Nat \ {0}) \cup Surfaces, weight : Nat]) : todo = calls[c].todo
    BY <2>1
  <2> PICK rest : rest = Tail(todo)
    OBVIOUS
  <2>2. Len(rest) = Len(todo) - 1 /\ Len(todo) \in Nat
    BY <2>1, TailOfPlan, LenProperties
  <2>3. rest # todo
    <3> SUFFICES ASSUME rest = todo PROVE FALSE
      OBVIOUS
    <3>1. Len(rest) = Len(todo)
      OBVIOUS
    <3> QED
      BY <2>2, <3>1
  <2> QED
    BY <2>1, <2>3
<1> QED
  BY <1>2, <1>4, <1>5

(* A serial execution has one call at a time.                               *)
LEMMA SerialInvStep == TypeInv /\ SerialInv /\ [Next]_vars => SerialInv'
<1> SUFFICES ASSUME TypeInv, Alone, serial, [Next]_vars PROVE Alone'
  BY SerialIsChosenOnce DEF SerialInv
<1>1. calls \in [Slots -> Call \cup {Idle}]
  BY DEF TypeInv, TypeOK
<1>2. ASSUME NEW c \in Slots, NEW d \in Slots, calls'[c] # Idle, calls'[d] # Idle
      PROVE  c = d
  <2>1. CASE calls[c] # Idle /\ calls[d] # Idle
    BY <2>1 DEF Alone
  <2>2. ASSUME NEW e \in Slots, NEW f \in Slots, calls[e] = Idle, calls'[e] # Idle, calls'[f] # Idle
        PROVE  e = f
    <3>1. PICK op, s, theta : Start(e, op, s, theta)
      BY <2>2, OnlyAStartOccupies
    <3>2. calls[f] = Idle
      BY <3>1 DEF Start
    <3> QED
      BY <2>2, <3>1, <3>2, OneCallMoves
  <2> QED
    BY <1>2, <2>1, <2>2
<1>3. ASSUME NEW c \in Slots, calls'[c] = calls[c], calls[c] # Idle, calls[c].seen = Active
      PROVE  calls'[c].seen = Active'
  BY <1>3, PoolIsHeld DEF Active
<1>4. ASSUME NEW c \in Slots, At(c, {"rebalance", "reconcile", "sync"}, "plan")'
      PROVE  calls'[c].seen = Active'
  <2>1. CASE calls'[c] = calls[c]
    <3>1. At(c, {"rebalance", "reconcile", "sync"}, "plan")
      BY <1>4, <2>1 DEF At
    <3> QED
      BY <1>3, <2>1, <3>1 DEF Alone, At
  <2>2. CASE ReadMembers(c)
    <3>1. calls'[c] # Idle /\ UNCHANGED pool
      BY <1>4, <2>2 DEF At, ReadMembers
    <3>2. calls' = [calls EXCEPT ![c].pc = "plan", ![c].seen = Active]
      BY <1>1, <2>2, <3>1 DEF ReadMembers
    <3>3. calls[c] \in Call
      BY <1>1, <2>2 DEF ReadMembers, At
    <3> QED
      BY <1>1, <3>1, <3>2, <3>3 DEF Active, Call
  <2>3. CASE ReadPoolWeights(c)
    <3>1. calls[c] \in Call /\ UNCHANGED pool
      BY <1>1, <2>3 DEF ReadPoolWeights, At
    <3>2. calls'[c].seen = Active
      BY <1>1, <2>3, <3>1 DEF ReadPoolWeights, Call
    <3> QED
      BY <3>1, <3>2 DEF Active
  <2> QED
    BY <1>4, <2>1, <2>2, <2>3, HowItGotThere DEF At
<1>5. ASSUME NEW c \in Slots, At(c, {"reconcile"}, "score")'
      PROVE  calls'[c].seen = Active'
  <2>1. CASE calls'[c] = calls[c]
    <3>1. At(c, {"reconcile"}, "score")
      BY <1>5, <2>1 DEF At
    <3> QED
      BY <1>3, <2>1, <3>1 DEF Alone, At
  <2>2. CASE ReadSeries(c) \/ EvictionRound(c)
    <3>1. calls[c] \in Call /\ UNCHANGED pool
      BY <1>1, <2>2 DEF ReadSeries, EvictionRound, At
    <3>2. calls[c].seen = Active
      BY <2>2 DEF ReadSeries, EvictionRound, Alone, At
    <3>3. calls'[c].seen = calls[c].seen
      <4>1. CASE ReadSeries(c)
        BY <1>1, <3>1, <4>1 DEF ReadSeries, Call
      <4>2. CASE EvictionRound(c)
        BY <4>2, RoundMoves
      <4> QED
        BY <2>2, <4>1, <4>2
    <3> QED
      BY <3>1, <3>2, <3>3 DEF Active
  <2> QED
    BY <1>5, <2>1, <2>2, HowItGotThere DEF At
<1> QED
  BY <1>2, <1>4, <1>5 DEF Alone

(* What is left of the plan after a write.                                  *)
LEMMA ShiftEffect ==
    ASSUME TypeInv, NEW c \in Slots, calls[c] # Idle, calls[c].todo # <<>>, Shift(c)
    PROVE  /\ calls'[c].op = calls[c].op /\ calls'[c].pc = calls[c].pc
           /\ calls'[c].theta = calls[c].theta /\ calls'[c].view = calls[c].view
           /\ calls'[c].left = calls[c].left /\ calls'[c] # Idle
           /\ \A n \in 1..Len(calls'[c].todo) :
                 n + 1 \in 1..Len(calls[c].todo) /\ calls'[c].todo[n] = calls[c].todo[n + 1]
           /\ Rows(calls[c].todo) = Rows(calls'[c].todo) \cup {Next1(c).row}
           /\ Len(calls[c].todo) = Len(calls'[c].todo) + 1
<1>1. calls[c] \in Call /\ calls \in [Slots -> Call \cup {Idle}]
  BY DEF TypeInv, TypeOK
<1>2. calls[c].todo \in Seq([row : (Nat \ {0}) \cup Surfaces, weight : Nat])
  BY <1>1 DEF Call
<1>3. calls'[c] = [calls[c] EXCEPT !.todo = Tail(@)]
  BY <1>1 DEF Shift
<1>4. /\ calls'[c].op = calls[c].op /\ calls'[c].pc = calls[c].pc
      /\ calls'[c].theta = calls[c].theta /\ calls'[c].view = calls[c].view
      /\ calls'[c].left = calls[c].left /\ calls'[c].todo = Tail(calls[c].todo)
  BY <1>1, <1>3 DEF Call
<1>5. calls'[c] # Idle
  BY <1>1, <1>4 DEF Call, Idle
<1>6. /\ Len(Tail(calls[c].todo)) = Len(calls[c].todo) - 1 /\ Head(calls[c].todo) = calls[c].todo[1]
      /\ \A n \in 1..Len(Tail(calls[c].todo)) :
            n + 1 \in 1..Len(calls[c].todo) /\ Tail(calls[c].todo)[n] = calls[c].todo[n + 1]
      /\ Rows(calls[c].todo) = Rows(Tail(calls[c].todo)) \cup {calls[c].todo[1].row}
  BY <1>2, TailOfPlan
<1>7. Len(calls[c].todo) \in Nat
  BY <1>2
<1> QED
  BY <1>4, <1>5, <1>6, <1>7 DEF Next1

(* A plan with the first row written is the rest of the plan.               *)
LEMMA ScoredAfterAWrite ==
    ASSUME TypeInv, Alone, NEW c \in Slots, Evict(c), Scored(calls[c])
    PROVE  Scored(calls[c])'
<1>1. /\ pool \in Seq(PoolRow) /\ calls \in [Slots -> Call \cup {Idle}] /\ calls[c] \in Call
      /\ calls[c] # Idle /\ calls[c].todo # <<>> /\ Shift(c) /\ Len(pool) \in Nat
      /\ \A i, j \in Active : pool[i].surface = pool[j].surface => i = j
  BY MembersAreRows DEF TypeInv, TypeOK, Evict, At
<1> PICK k \in Call : k = calls[c]
  BY <1>1
<1> PICK l : l = calls'[c]
  OBVIOUS
<1> DEFINE r == k.todo[1].row
<1>2. /\ l.theta = k.theta /\ l.view = k.view /\ l.left = k.left
      /\ \A n \in 1..Len(l.todo) : n + 1 \in 1..Len(k.todo) /\ l.todo[n] = k.todo[n + 1]
      /\ Len(k.todo) = Len(l.todo) + 1
  BY <1>1, ShiftEffect
<1>3. /\ 1 \in 1..Len(k.todo) /\ Active' = Active \ {r}
      /\ \A i \in 1..Len(pool) : pool'[i].surface = pool[i].surface
  BY PoolUpdate
<1>4. Len(l.todo) \in Nat
  <2>1. l \in Call
    <3>1. pool' \in Seq(PoolRow) /\ Grows(pool, pool')
      BY PoolStatements
    <3>2. calls' \in [Slots -> Call \cup {Idle}] /\ calls'[c] # Idle
      BY <1>1, <3>1, ShiftMoves, ShiftEffect DEF Evict, At
    <3> QED
      BY <3>2
  <2>2. l.todo \in Seq([row : (Nat \ {0}) \cup Surfaces, weight : Nat])
    BY <2>1 DEF Call
  <2> QED
    BY <2>2
<1>5. /\ Priced(k.view) = Ahead(k, 1)
      /\ \A n \in 1..Len(k.todo) : /\ k.todo[n].row \in Active
                                   /\ Out(k, n) \in Lowest(k.view, Ahead(k, n), k.theta)
                                   /\ Out(k, n) \notin Ahead(k, n + 1)
  BY DEF Scored
<1>6. Active \subseteq 1..Len(pool)
  BY MembersAreRows
<1>7. \A n \in 1..Len(l.todo) : Out(l, n)' = Out(k, n + 1)
  <2> SUFFICES ASSUME NEW n \in 1..Len(l.todo) PROVE Out(l, n)' = Out(k, n + 1)
    OBVIOUS
  <2>1. k.todo[n + 1].row \in 1..Len(pool) /\ l.todo[n] = k.todo[n + 1]
    BY <1>2, <1>5, <1>6
  <2>2. Out(l, n)' = pool'[l.todo[n].row].surface
    BY DEF Out
  <2> QED
    BY <1>3, <2>1, <2>2 DEF Out
<1>8. \A n \in 1..Len(l.todo) + 1 : Ahead(l, n)' = Ahead(k, n + 1)
  <2> SUFFICES ASSUME NEW n \in 1..Len(l.todo) + 1 PROVE Ahead(l, n)' = Ahead(k, n + 1)
    OBVIOUS
  <2>1. Ahead(l, n)' = l.left \cup {Out(l, m)' : m \in n..Len(l.todo)}
    BY DEF Ahead, Out
  <2>2. \A m \in n..Len(l.todo) : m \in 1..Len(l.todo) /\ m + 1 \in (n + 1)..Len(k.todo)
    BY <1>2, <1>4
  <2>3. \A m \in (n + 1)..Len(k.todo) : m - 1 \in n..Len(l.todo) /\ (m - 1) + 1 = m
    BY <1>2, <1>4
  <2>4. {Out(l, m)' : m \in n..Len(l.todo)} = {Out(k, m) : m \in (n + 1)..Len(k.todo)}
    <3>1. \A m \in n..Len(l.todo) : Out(l, m)' = Out(k, m + 1)
      BY <1>7, <2>2
    <3>2. {Out(l, m)' : m \in n..Len(l.todo)} \subseteq {Out(k, m) : m \in (n + 1)..Len(k.todo)}
      BY <2>2, <3>1
    <3>3. ASSUME NEW m \in (n + 1)..Len(k.todo)
          PROVE  Out(k, m) \in {Out(l, x)' : x \in n..Len(l.todo)}
      <4>1. m - 1 \in n..Len(l.todo) /\ (m - 1) + 1 = m
        BY <2>3
      <4>2. Out(l, m - 1)' = Out(k, (m - 1) + 1)
        BY <3>1, <4>1
      <4>3. Out(l, m - 1)' = Out(k, m)
        BY <4>1, <4>2
      <4> QED
        BY <4>1, <4>3
    <3> QED
      BY <3>2, <3>3
  <2> QED
    BY <1>2, <2>1, <2>4 DEF Ahead
<1>9. Priced(l.view)' = Priced(k.view) \ {Out(k, 1)}
  <2>1. r \in Active /\ Out(k, 1) = pool[r].surface
    BY <1>3, <1>5 DEF Out
  <2>2. ActiveSurfaces' = ActiveSurfaces \ {pool[r].surface}
    BY <1>1, <1>3, <1>6, <2>1 DEF ActiveSurfaces
  <2>3. Priced(l.view)' = ActiveSurfaces' \cap Listed[l.view]
    BY DEF Priced
  <2> QED
    BY <1>2, <2>1, <2>2, <2>3 DEF Priced
<1>10. Ahead(k, 1) \ {Out(k, 1)} = Ahead(k, 2)
  <2>1. Out(k, 1) \notin Ahead(k, 1 + 1)
    BY <1>3, <1>5
  <2>2. 1..Len(k.todo) = {1} \cup 2..Len(k.todo) /\ 1 + 1 = 2
    BY <1>2, <1>4
  <2>3. Ahead(k, 1) = Ahead(k, 2) \cup {Out(k, 1)}
    BY <2>2 DEF Ahead
  <2> QED
    BY <2>1, <2>2, <2>3
<1>11. Priced(l.view)' = Ahead(l, 1)'
  BY <1>4, <1>5, <1>8, <1>9, <1>10
<1>12. ASSUME NEW n \in 1..Len(l.todo)
       PROVE  /\ l.todo[n].row \in Active'
              /\ Out(l, n)' \in Lowest(l.view, Ahead(l, n)', l.theta)
              /\ Out(l, n)' \notin Ahead(l, n + 1)'
  <2>1. n + 1 \in 1..Len(k.todo) /\ l.todo[n] = k.todo[n + 1] /\ n \in 1..Len(l.todo) + 1
        /\ n + 1 \in 1..Len(l.todo) + 1
    BY <1>2, <1>4
  <2>2. Out(l, n)' = Out(k, n + 1) /\ Ahead(l, n)' = Ahead(k, n + 1)
        /\ Ahead(l, n + 1)' = Ahead(k, (n + 1) + 1)
    BY <1>7, <1>8, <2>1
  <2>3. Out(l, n)' \in Lowest(l.view, Ahead(l, n)', l.theta) /\ Out(l, n)' \notin Ahead(l, n + 1)'
    BY <1>2, <1>5, <2>1, <2>2
  <2>4. k.todo[n + 1].row # r
    <3>1. Out(k, n + 1) \in Ahead(k, 2)
      BY <1>4, <2>1 DEF Ahead
    <3>2. Out(k, 1) \notin Ahead(k, 1 + 1)
      BY <1>3, <1>5
    <3> QED
      BY <3>1, <3>2 DEF Out
  <2> QED
    BY <1>3, <1>5, <2>1, <2>3, <2>4
<1> QED
  BY <1>11, <1>12 DEF Scored

(* A round adds the lowest of those left to the end of the plan.            *)
LEMMA ScoredAfterARound ==
    ASSUME TypeInv, Alone, NEW c \in Slots, EvictionRound(c), Scored(calls[c])
    PROVE  Scored(calls[c])'
<1>1. /\ pool \in Seq(PoolRow) /\ Len(pool) \in Nat /\ UNCHANGED pool
      /\ \A i, j \in Active : pool[i].surface = pool[j].surface => i = j
  BY MembersAreRows DEF TypeInv, TypeOK, EvictionRound
<1>2. calls[c].seen = Active
  BY DEF Alone, EvictionRound
<1> PICK k \in Call : k = calls[c]
  BY RoundMoves
<1> PICK l : l = calls'[c]
  OBVIOUS
<1>3. l.view = k.view /\ l.theta = k.theta
  BY RoundMoves
<1>4. /\ Priced(k.view) = Ahead(k, 1)
      /\ \A n \in 1..Len(k.todo) : /\ k.todo[n].row \in Active
                                   /\ Out(k, n) \in Lowest(k.view, Ahead(k, n), k.theta)
                                   /\ Out(k, n) \notin Ahead(k, n + 1)
  BY DEF Scored
<1>5. k.todo \in Seq([row : (Nat \ {0}) \cup Surfaces, weight : Nat]) /\ Len(k.todo) \in Nat
  BY DEF Call
<1>6. Active' = Active /\ Priced(k.view)' = Priced(k.view)
  BY <1>1 DEF Active, Priced, ActiveSurfaces
<1>7. CASE l.left = k.left /\ l.todo = k.todo
  <2>1. \A n \in Nat : Out(l, n)' = Out(k, n)
    BY <1>1, <1>7 DEF Out
  <2>2. \A n \in Nat : n > 0 => Ahead(l, n)' = Ahead(k, n)
    BY <1>1, <1>7 DEF Ahead, Out
  <2>3. Priced(l.view)' = Ahead(l, 1)'
    BY <1>3, <1>4, <1>6, <2>2
  <2>4. ASSUME NEW n \in 1..Len(l.todo)
        PROVE  /\ l.todo[n].row \in Active'
               /\ Out(l, n)' \in Lowest(l.view, Ahead(l, n)', l.theta)
               /\ Out(l, n)' \notin Ahead(l, n + 1)'
    <3>1. n \in 1..Len(k.todo) /\ n \in Nat /\ n > 0 /\ n + 1 \in Nat /\ n + 1 > 0
      BY <1>5, <1>7
    <3> QED
      BY <1>3, <1>4, <1>6, <1>7, <2>1, <2>2, <3>1
  <2> QED
    BY <2>3, <2>4 DEF Scored
<1>8. ASSUME NEW s \in Lowest(k.view, k.left, k.theta),
             l.left = k.left \ {s}, l.todo = k.todo \o RowOf(c, s)
      PROVE  Scored(calls[c])'
  <2>1. s \in k.left
    BY DEF Lowest, Evictable
  <2>2. PICK i \in Active : pool[i].surface = s
    BY <1>4, <2>1 DEF Ahead, Priced, ActiveSurfaces
  <2> DEFINE rows == {j \in calls[c].seen : pool[j].surface = s}
  <2>3. rows = {i}
    BY <1>1, <1>2, <2>2
  <2>4. (CHOOSE j \in rows : TRUE) = i /\ rows # {}
    BY <2>3
  <2>5. RowOf(c, s) = <<[row |-> i, weight |-> 0]>>
    BY <2>4 DEF RowOf
  <2> HIDE DEF rows
  <2> PICK N \in Nat : N = Len(k.todo)
    BY <1>5
  <2>6. /\ Len(l.todo) = N + 1
        /\ \A n \in 1..N : l.todo[n] = k.todo[n]
        /\ l.todo[N + 1] = [row |-> i, weight |-> 0]
    BY <1>5, <1>8, <2>5
  <2>7. /\ \A n \in 1..N : Out(l, n)' = Out(k, n)
        /\ Out(l, N + 1)' = s
    <3>1. \A n \in 1..N : Out(l, n)' = Out(k, n)
      BY <1>1, <2>6 DEF Out
    <3>2. l.todo[N + 1].row = i
      BY <2>6
    <3> QED
      BY <1>1, <2>2, <3>1, <3>2 DEF Out
  <2>8. ASSUME NEW n \in 1..(N + 1)
        PROVE  Ahead(l, n)' = Ahead(k, n)
    <3>1. n..(N + 1) = (n..N) \cup {N + 1} /\ n..N \subseteq 1..N
      OBVIOUS
    <3>2. Ahead(l, n)' = (k.left \ {s}) \cup {Out(l, m)' : m \in n..(N + 1)}
      BY <1>8, <2>6 DEF Ahead, Out
    <3>3. {Out(l, m)' : m \in n..(N + 1)} = {Out(k, m) : m \in n..N} \cup {s}
      BY <2>7, <3>1
    <3> QED
      BY <2>1, <3>2, <3>3 DEF Ahead
  <2>9. Ahead(l, N + 2)' = k.left \ {s} /\ Ahead(k, N + 1) = k.left
    <3>1. (N + 2)..(N + 1) = {} /\ (N + 1)..N = {}
      OBVIOUS
    <3> QED
      BY <1>8, <2>6, <3>1 DEF Ahead, Out
  <2>10. Priced(l.view)' = Ahead(l, 1)'
    BY <1>3, <1>4, <1>6, <2>8
  <2>11. ASSUME NEW n \in 1..Len(l.todo)
         PROVE  /\ l.todo[n].row \in Active'
                /\ Out(l, n)' \in Lowest(l.view, Ahead(l, n)', l.theta)
                /\ Out(l, n)' \notin Ahead(l, n + 1)'
    <3>1. CASE n \in 1..N
      <4>1. n \in 1..(N + 1) /\ n + 1 \in 1..(N + 1)
        BY <3>1
      <4> QED
        BY <1>3, <1>4, <1>6, <2>6, <2>7, <2>8, <3>1, <4>1
    <3>2. CASE n = N + 1
      <4>1. n \in 1..(N + 1) /\ n + 1 = N + 2
        BY <3>2
      <4>2. Out(l, n)' = s /\ Ahead(l, n)' = k.left /\ Ahead(l, n + 1)' = k.left \ {s}
        BY <2>7, <2>8, <2>9, <3>2, <4>1
      <4> QED
        BY <1>3, <1>6, <1>8, <2>2, <2>6, <3>2, <4>2
    <3>3. n \in 1..N \/ n = N + 1
      BY <2>6
    <3> QED
      BY <3>1, <3>2, <3>3
  <2> QED
    BY <2>10, <2>11 DEF Scored
<1> QED
  BY <1>7, <1>8, RoundMoves

(* Every step of a serial execution keeps the plan of a reconcile true.     *)
LEMMA EvictionInvStep ==
    TypeInv /\ SerialInv /\ EvictionInv /\ [Next]_vars => EvictionInv'
<1> SUFFICES ASSUME TypeInv, Alone, EvictionInv, serial, [Next]_vars,
                    NEW c \in Slots, At(c, {"reconcile"}, "score")' \/ At(c, {"reconcile"}, "write")'
             PROVE  /\ Scored(calls[c])'
                    /\ At(c, {"reconcile"}, "write")' =>
                          Evictable(calls[c].view, calls[c].left, calls[c].theta)' = {}
  BY SerialIsChosenOnce DEF SerialInv, EvictionInv
<1>1. calls \in [Slots -> Call \cup {Idle}]
  BY DEF TypeInv, TypeOK
<1>2. CASE calls'[c] = calls[c]
  <2>1. At(c, {"reconcile"}, "score") \/ At(c, {"reconcile"}, "write")
    BY <1>2 DEF At
  <2>2. UNCHANGED pool
    BY <1>2, <2>1, PoolIsHeld DEF At
  <2>3. Scored(calls[c])'
    <3> PICK k : k = calls[c]
      OBVIOUS
    <3>1. Scored(k)
      BY <2>1 DEF EvictionInv
    <3>2. Active' = Active /\ Priced(k.view)' = Priced(k.view)
      BY <2>2 DEF Active, Priced, ActiveSurfaces
    <3>3. \A n : Out(k, n)' = Out(k, n)
      BY <2>2 DEF Out
    <3>4. \A n : Ahead(k, n)' = Ahead(k, n)
      BY <3>3 DEF Ahead, Out
    <3>5. Scored(k)'
      BY <3>1, <3>2, <3>3, <3>4 DEF Scored
    <3> QED
      BY <1>2, <3>5 DEF Scored
  <2> QED
    BY <1>2, <2>1, <2>3 DEF EvictionInv, At, Evictable
<1>3. CASE ReadSeries(c)
  <2>1. calls[c] \in Call /\ UNCHANGED pool
    BY <1>1, <1>3 DEF ReadSeries, At
  <2>2. /\ calls'[c].pc = "score" /\ calls'[c].view = returns
        /\ calls'[c].left = Priced(returns) /\ calls'[c].todo = <<>>
    BY <1>1, <1>3, <2>1 DEF ReadSeries, Call
  <2> PICK l : l = calls'[c]
    OBVIOUS
  <2>3. Priced(l.view)' = Priced(returns)
    BY <2>1, <2>2 DEF Priced, ActiveSurfaces, Active
  <2>4. Ahead(l, 1)' = Priced(returns) /\ 1..Len(l.todo) = {}
    BY <2>2 DEF Ahead
  <2>5. Scored(calls[c])'
    BY <2>3, <2>4 DEF Scored
  <2> QED
    BY <2>2, <2>5 DEF At
<1>4. CASE EvictionRound(c)
  <2>1. Scored(calls[c])'
    BY <1>4, ScoredAfterARound DEF EvictionInv, EvictionRound
  <2>2. ASSUME calls'[c].pc = "write"
        PROVE  Evictable(calls[c].view, calls[c].left, calls[c].theta)' = {}
    <3>1. /\ Evictable(calls[c].view, calls[c].left, calls[c].theta) = {}
          /\ calls'[c].view = calls[c].view /\ calls'[c].left = calls[c].left
          /\ calls'[c].theta = calls[c].theta
      BY <1>4, <2>2, RoundMoves
    <3> QED
      BY <3>1 DEF Evictable
  <2> QED
    BY <2>1, <2>2 DEF At
<1>5. CASE Evict(c)
  <2>1. At(c, {"reconcile"}, "write") /\ calls[c] # Idle /\ calls[c].todo # <<>> /\ Shift(c)
    BY <1>5 DEF Evict, At
  <2>2. Scored(calls[c])'
    BY <1>5, <2>1, ScoredAfterAWrite DEF EvictionInv
  <2>3. calls'[c].view = calls[c].view /\ calls'[c].left = calls[c].left
        /\ calls'[c].theta = calls[c].theta
    BY <2>1, ShiftEffect
  <2> QED
    BY <2>1, <2>2, <2>3 DEF EvictionInv, Evictable
<1> QED
  BY <1>2, <1>3, <1>4, <1>5, HowItGotThere DEF At

(* The invariants of a serial execution that evictions rest on.             *)
LEMMA SerialEvictions == Spec => [](TypeInv /\ SerialInv /\ EvictionInv)
<1>1. Init => SerialInv /\ EvictionInv
  BY DEF Init, SerialInv, Alone, EvictionInv, At
<1> QED
  BY <1>1, TypeInvInit, TypeInvStep, SerialInvStep, EvictionInvStep, PTL DEF Spec

(* Each member that a reconcile made alone evicts adds at most theta to the *)
(* ones still in the pool when his row is written, and less than or as     *)
(* much as any of them, although the plan was made before the first write  *)
(* and the returns may have changed since the series were read.            *)
THEOREM EvictionsAreEarned == Spec => EvictionsEarned
<1> DEFINE Earned(i) ==
              \E c \in Slots :
                 /\ At(c, {"reconcile"}, "write")
                 /\ LET k == calls[c]
                        R == Priced(k.view)
                        m == [s \in R |-> Marginal[k.view][s][R \ {s}]]
                        s == pool[i].surface
                    IN  /\ s \in R /\ R # {s}
                        /\ m[s] # Unmeasured /\ m[s] <= k.theta
                        /\ \A t \in R : m[t] # Unmeasured => m[s] <= m[t]
           Inv == TypeInv /\ SerialInv /\ EvictionInv
<1>1. ASSUME Inv, serial, [Next]_vars, NEW i \in Active, pool'[i].status = "evicted"
      PROVE  Earned(i)
  <2>1. i \in 1..Len(pool) /\ pool[i].status = "active"
    BY DEF Active
  <2>2. pool' # pool
    BY <1>1, <2>1
  <2>3. PICK c \in Slots : InsertMember(c) \/ WritePoolWeight(c) \/ Evict(c)
    BY <1>1, <2>2, PoolWrites
  <2>4. ~InsertMember(c)
    BY <1>1, <2>1, <2>2, PoolInsert
  <2>5. ~WritePoolWeight(c)
    <3> SUFFICES ASSUME WritePoolWeight(c) PROVE FALSE
      OBVIOUS
    <3>1. Active' = Active
      BY <1>1, PoolUpdate
    <3> QED
      BY <1>1, <3>1 DEF Active
  <2>6. /\ Active' = Active \ {Next1(c).row} /\ 1 \in 1..Len(calls[c].todo)
        /\ Next1(c) = calls[c].todo[1]
    BY <1>1, <2>3, <2>4, <2>5, PoolUpdate
  <2>7. At(c, {"reconcile"}, "write") /\ calls[c] # Idle
    BY <2>3, <2>4, <2>5 DEF Evict, At
  <2>8. i \notin Active'
    BY <1>1 DEF Active
  <2>9. i = calls[c].todo[1].row
    BY <2>6, <2>8
  <2> PICK k \in Call : k = calls[c]
    BY <1>1, <2>7 DEF TypeInv, TypeOK
  <2> PICK R \in SUBSET Surfaces : R = Priced(k.view)
    BY <1>1, MembersAreRows DEF Priced
  <2> PICK s : s = pool[i].surface
    OBVIOUS
  <2>10. s \in Lowest(k.view, R, k.theta)
    BY <1>1, <2>6, <2>7, <2>9 DEF EvictionInv, Scored, Out
  <2> DEFINE m(t) == Marginal[k.view][t][R \ {t}]
  <2>11. \A t \in R : m(t) \in Int \cup {Unmeasured}
    BY ReturnsAssumption DEF Call
  <2>12. k.theta \in Int /\ Unmeasured \notin Int
    BY ReturnsAssumption DEF Call
  <2>13. s \in R /\ R # {s} /\ m(s) # Unmeasured /\ m(s) <= k.theta
    BY <2>10 DEF Lowest, Evictable
  <2>14. ASSUME NEW t \in R, m(t) # Unmeasured PROVE m(s) <= m(t)
    <3>1. CASE m(t) <= k.theta
      <4>1. R # {t}
        BY <2>13
      <4>2. t \in Evictable(k.view, R, k.theta)
        BY <2>14, <3>1, <4>1 DEF Evictable
      <4> QED
        BY <2>10, <4>2 DEF Lowest
    <3>2. CASE ~(m(t) <= k.theta)
      <4> PICK x \in Int, y \in Int : x = m(t) /\ y = m(s)
        BY <2>11, <2>13, <2>14
      <4> QED
        BY <2>12, <2>13, <3>2
    <3> QED
      BY <3>1, <3>2
  <2> HIDE DEF m
  <2>15. /\ s \in R /\ R # {s} /\ m(s) # Unmeasured /\ m(s) <= k.theta
         /\ \A t \in R : m(t) # Unmeasured => m(s) <= m(t)
    BY <2>13, <2>14
  <2> QED
    BY <2>7, <2>15 DEF m
<1> HIDE DEF Earned
<1>2. Inv /\ [Next]_vars =>
        [serial => \A i \in Active : pool'[i].status = "evicted" => Earned(i)]_vars
  BY <1>1
<1> USE DEF Earned
<1> QED
  BY <1>2, SerialEvictions, PTL DEF Spec, EvictionsEarned

(* When a reconcile made alone has written its last row, who is left adds   *)
(* more than theta to the others, or cannot be measured, or is alone.      *)
THEOREM ReconcilesSettle == Spec => []ReconcileSettles
<1>1. TypeInv /\ SerialInv /\ EvictionInv => ReconcileSettles
  <2> SUFFICES ASSUME TypeInv, EvictionInv, serial,
                      NEW c \in Slots, At(c, {"reconcile"}, "write"), calls[c].todo = <<>>
               PROVE  \A s \in Priced(calls[c].view) :
                         \/ Priced(calls[c].view) = {s}
                         \/ Marginal[calls[c].view][s][Priced(calls[c].view) \ {s}] = Unmeasured
                         \/ Marginal[calls[c].view][s][Priced(calls[c].view) \ {s}] > calls[c].theta
    BY DEF ReconcileSettles
  <2> PICK k \in Call : k = calls[c]
    BY DEF TypeInv, TypeOK, At
  <2> PICK R \in SUBSET Surfaces : R = Priced(k.view)
    BY MembersAreRows DEF Priced
  <2>1. R = k.left
    <3>1. Priced(k.view) = Ahead(k, 1)
      BY DEF EvictionInv, Scored
    <3>2. 1..Len(k.todo) = {}
      BY DEF Call
    <3>3. Ahead(k, 1) = k.left
      BY <3>2 DEF Ahead
    <3> QED
      BY <3>1, <3>3
  <2>2. Evictable(k.view, R, k.theta) = {}
    BY <2>1 DEF EvictionInv
  <2>3. ASSUME NEW s \in R, R # {s}, Marginal[k.view][s][R \ {s}] # Unmeasured
        PROVE  Marginal[k.view][s][R \ {s}] > k.theta
    <3> PICK m : m = Marginal[k.view][s][R \ {s}]
      OBVIOUS
    <3>1. m \in Int /\ k.theta \in Int
      <4>1. k.view \in Histories /\ k.theta \in Thetas
        BY DEF Call
      <4>2. s \in Surfaces /\ R \ {s} \in SUBSET Surfaces
        OBVIOUS
      <4>3. Marginal[k.view][s][R \ {s}] \in Int \cup {Unmeasured}
        BY <4>1, <4>2, ReturnsAssumption
      <4> QED
        BY <2>3, <4>1, <4>3, ReturnsAssumption
    <3>2. ~(m <= k.theta)
      BY <2>2, <2>3 DEF Evictable
    <3>3. m > k.theta
      BY <3>1, <3>2
    <3> QED
      BY <3>3
  <2> QED
    BY <2>3
<1> QED
  BY <1>1, SerialEvictions, PTL

(* Together: calls one after the other evict whom they should, and leave    *)
(* nobody that they would still evict.                                     *)
THEOREM EvictionsHold == Spec => EvictionsAreSound
<1> QED
  BY EvictionsAreEarned, ReconcilesSettle, PTL DEF EvictionsAreSound

(* Where a call that is writing goes next.                                  *)
LEMMA WhereItGoes ==
    ASSUME TypeInv, [Next]_vars, serial, NEW c \in Slots, calls'[c] # calls[c]
    PROVE  /\ At(c, {"rebalance"}, "write") =>
                 WritePoolWeight(c) \/ (PoolAnswers(c) /\ calls[c].todo = <<>>)
           /\ At(c, {"sync"}, "write") =>
                 WriteLiveWeight(c) \/ (SyncAnswers(c) /\ calls[c].todo = <<>>)
<1>1. ~(UNCHANGED calls) /\ ~Crash
  BY DEF Crash
<1>2. PICK d \in Slots : \/ \E op, s, theta : Start(d, op, s, theta)
                         \/ Admission(d) \/ PoolUpkeep(d) \/ Sync(d) \/ RebalanceBook(d)
  BY <1>1 DEF Next, vars, Override, ReturnsChange
<1>3. d = c
  BY <1>2, OneCallMoves
<1> QED
  BY <1>2, <1>3 DEF At, Start, Admission, Gate, GateRefuses, EvaluateAdmission, InsertMember,
     PoolUpkeep, ReadMembers, PlanRebalance, ReadSeries, EvictionRound, WritePoolWeight, Evict, PoolAnswers,
     Sync, ReadPoolWeights, PlanSync, WriteLiveWeight, SyncAnswers, RebalanceBook, FetchTargets,
     CommitRebalance, BlockRebalance

(* A step raises the stamp by one or not at all.                            *)
LEMMA StampsGrow ==
    ASSUME TypeInv, [Next]_vars
    PROVE  stamp' \in {stamp, stamp + 1} /\ stamp \in Nat
<1>1. stamp \in Nat
  BY DEF TypeInv, TypeOK
<1>2. stamp' \in {stamp, stamp + 1}
  BY DEF Next, vars, Start, Admission, Gate, GateRefuses, EvaluateAdmission, InsertMember,
     PoolUpkeep, ReadMembers, PlanRebalance, ReadSeries, EvictionRound, WritePoolWeight, Evict, PoolAnswers,
     Sync, ReadPoolWeights, PlanSync, WriteLiveWeight, SyncAnswers, RebalanceBook, FetchTargets,
     CommitRebalance, BlockRebalance, Override, ReturnsChange, Crash
<1> QED
  BY <1>1, <1>2

(* The plan of a rebalance made alone covers every member that never lacks  *)
(* a return series.                                                        *)
LEMMA RebalancePlan ==
    ASSUME TypeInv, Alone, NEW c \in Slots, PlanRebalance(c), calls'[c] # Idle
    PROVE  /\ stamp' = stamp + 1 /\ UNCHANGED pool
           /\ At(c, {"rebalance"}, "write")'
           /\ \A i \in Active : pool[i].surface \in AlwaysListed => i \in Rows(calls'[c].todo)
           /\ \A n \in 1..Len(calls'[c].todo) : calls'[c].todo[n].weight = stamp + 1
<1>1. /\ calls \in [Slots -> Call \cup {Idle}] /\ calls[c] \in Call /\ Sound(calls[c], pool)
      /\ stamp \in Nat /\ calls[c].op = "rebalance" /\ returns \in Histories
  BY DEF TypeInv, TypeOK, PlanRebalance, At
<1> DEFINE priced == Priced(returns)
<1>2. ~(priced = {} \/ ~priced \subseteq SeenSurfaces(c))
  BY <1>1 DEF PlanRebalance, Answer
<1> DEFINE R == {i \in calls[c].seen : pool[i].surface \in priced}
           w == [i \in R |-> stamp + 1]
<1>3. stamp' = stamp + 1 /\ UNCHANGED pool /\ \E q \in Orders(R, w) : Write(c, q)
  BY <1>2 DEF PlanRebalance
<1>4. PICK q \in Orders(R, w) : Write(c, q)
  BY <1>3
<1>5. R \in SUBSET (1..Len(pool)) /\ \A r \in R : w[r] = stamp + 1
  BY <1>1 DEF Sound
<1>6. \A i \in Active : pool[i].surface \in AlwaysListed => i \in R
  BY <1>1 DEF Alone, PlanRebalance, At, Priced, ActiveSurfaces, AlwaysListed
<1> HIDE DEF R, w
<1>7. IsFiniteSet(R)
  BY <1>5, MembersAreRows
<1>8. Rows(q) = R /\ \A n \in 1..Len(q) : q[n].row \in R /\ q[n].weight = w[q[n].row]
  BY <1>4, <1>7, OrdersArePlans
<1>9. /\ calls'[c].todo = q /\ calls'[c].op = "rebalance" /\ calls'[c].pc = "write"
  BY <1>1, <1>4 DEF Write, Call
<1> QED
  BY <1>3, <1>5, <1>6, <1>8, <1>9 DEF At

(* Every step keeps the weights those of one rebalance.                     *)
LEMMA WeightInvStep ==
    TypeInv /\ SerialInv /\ WeightInv /\ [Next]_vars => WeightInv'
<1> SUFFICES ASSUME TypeInv, Alone, Alone', serial, [Next]_vars,
                    NEW w \in 0..stamp, WeightsAre(w)
             PROVE  \E v \in 0..stamp' : WeightsAre(v)'
  BY SerialIsChosenOnce, SerialInvStep DEF SerialInv, WeightInv
<1>1. /\ pool \in Seq(PoolRow) /\ calls \in [Slots -> Call \cup {Idle}]
      /\ Len(pool) \in Nat /\ Active \subseteq 1..Len(pool)
  BY MembersAreRows DEF TypeInv, TypeOK
<1>2. w \in 0..stamp'
  BY StampsGrow
<1>3. ASSUME NEW c \in Slots, PlanRebalance(c), calls'[c] # Idle, NEW v \in Nat, v = stamp + 1
      PROVE  WeightsAre(v)' /\ v \in 0..stamp'
  <2>1. /\ stamp' = stamp + 1 /\ UNCHANGED pool
        /\ At(c, {"rebalance"}, "write")'
        /\ \A i \in Active : pool[i].surface \in AlwaysListed => i \in Rows(calls'[c].todo)
        /\ \A n \in 1..Len(calls'[c].todo) : calls'[c].todo[n].weight = stamp + 1
    BY <1>3, RebalancePlan
  <2>2. \A d \in Slots : At(d, {"rebalance"}, "write")' => d = c
    BY <1>3 DEF Alone, At
  <2>3. Active' = Active
    BY <2>1 DEF Active
  <2>4. \A n \in 1..Len(calls'[c].todo) : calls'[c].todo[n].weight = v
    BY <1>3, <2>1
  <2>5. WeightsAre(v)'
    BY <2>1, <2>2, <2>3, <2>4 DEF WeightsAre
  <2> QED
    BY <1>3, <2>1, <2>5
<1>4. ASSUME NEW c \in Slots, WritePoolWeight(c)
      PROVE  WeightsAre(w)'
  <2>1. At(c, {"rebalance"}, "write") /\ calls[c] # Idle /\ calls[c].todo # <<>> /\ Shift(c)
    BY <1>4 DEF WritePoolWeight, At
  <2>2. /\ calls'[c].op = calls[c].op /\ calls'[c].pc = calls[c].pc /\ calls'[c] # Idle
        /\ \A n \in 1..Len(calls'[c].todo) :
              n + 1 \in 1..Len(calls[c].todo) /\ calls'[c].todo[n] = calls[c].todo[n + 1]
        /\ Rows(calls[c].todo) = Rows(calls'[c].todo) \cup {Next1(c).row}
    BY <2>1, ShiftEffect
  <2>3. /\ Next1(c) = calls[c].todo[1] /\ 1 \in 1..Len(calls[c].todo) /\ Active' = Active
        /\ \A i \in 1..Len(pool) : pool'[i].weight =
              IF i = Next1(c).row THEN Next1(c).weight ELSE pool[i].weight
        /\ \A i \in 1..Len(pool) : pool'[i].surface = pool[i].surface
    BY <1>4, PoolUpdate
  <2>4. Next1(c).weight = w
    BY <2>1, <2>3 DEF WeightsAre
  <2>5. \A d \in Slots : At(d, {"rebalance"}, "write") => d = c
    BY <2>1 DEF Alone, At
  <2>6. At(c, {"rebalance"}, "write")'
    BY <2>1, <2>2 DEF At
  <2>7. \A d \in Slots : At(d, {"rebalance"}, "write")' => d = c
    BY <2>6 DEF Alone, At
  <2>8. \A n \in 1..Len(calls'[c].todo) : calls'[c].todo[n].weight = w
    BY <2>1, <2>2 DEF WeightsAre
  <2>9. ASSUME NEW i \in Active, pool'[i].surface \in AlwaysListed
        PROVE  pool'[i].weight \in {0, w} \/ i \in Rows(calls'[c].todo)
    <3>1. pool[i].weight \in {0, w} \/ i \in Rows(calls[c].todo)
      BY <1>1, <2>3, <2>5, <2>9 DEF WeightsAre
    <3> QED
      BY <1>1, <2>2, <2>3, <2>4, <3>1
  <2> QED
    BY <2>3, <2>6, <2>7, <2>8, <2>9 DEF WeightsAre
<1>5. ASSUME ~\E c \in Slots : PlanRebalance(c) /\ calls'[c] # Idle,
             ~\E c \in Slots : WritePoolWeight(c)
      PROVE  WeightsAre(w)'
  <2>1. ASSUME NEW c \in Slots, At(c, {"rebalance"}, "write")'
        PROVE  calls'[c] = calls[c] /\ At(c, {"rebalance"}, "write")
    BY <1>5, <2>1, HowItGotThere DEF At
  <2>2. ASSUME NEW c \in Slots, At(c, {"rebalance"}, "write"), NEW i \in Rows(calls[c].todo)
        PROVE  calls'[c] = calls[c] /\ At(c, {"rebalance"}, "write")'
    <3>1. calls[c].todo # <<>>
      BY <2>2 DEF Rows
    <3>2. calls'[c] = calls[c]
      BY <1>5, <2>2, <3>1, WhereItGoes
    <3> QED
      BY <2>2, <3>2 DEF At
  <2>3. ASSUME NEW i \in Active'
        PROVE  pool'[i].weight = 0 \/ (/\ i \in Active /\ pool'[i].weight = pool[i].weight
                                      /\ pool'[i].surface = pool[i].surface)
    <3>1. CASE UNCHANGED pool
      BY <2>3, <3>1 DEF Active
    <3>2. CASE pool' # pool
      <4>1. PICK c \in Slots : InsertMember(c) \/ Evict(c)
        BY <1>5, <3>2, PoolWrites
      <4>2. CASE InsertMember(c)
        BY <1>1, <2>3, <3>2, <4>2, PoolInsert
      <4>3. CASE Evict(c)
        BY <1>1, <2>3, <4>3, PoolUpdate
      <4> QED
        BY <4>1, <4>2, <4>3
    <3> QED
      BY <3>1, <3>2
  <2>4. ASSUME NEW i \in Active', pool'[i].surface \in AlwaysListed
        PROVE  pool'[i].weight \in {0, w} \/
                  \E c \in Slots : At(c, {"rebalance"}, "write")' /\ i \in Rows(calls'[c].todo)
    <3>1. CASE pool'[i].weight = 0
      BY <3>1
    <3>2. CASE i \in Active /\ pool'[i].weight = pool[i].weight /\ pool[i].surface \in AlwaysListed
      BY <2>2, <3>2 DEF WeightsAre
    <3> QED
      BY <2>3, <2>4, <3>1, <3>2
  <2> QED
    BY <2>1, <2>4 DEF WeightsAre
<1>6. CASE \E c \in Slots : PlanRebalance(c) /\ calls'[c] # Idle
  <2>1. stamp + 1 \in Nat
    BY StampsGrow
  <2>2. PICK v \in Nat : v = stamp + 1
    BY <2>1
  <2> QED
    BY <1>3, <1>6, <2>2
<1> QED
  BY <1>2, <1>4, <1>5, <1>6

(* No weight is written yet.                                                *)
LEMMA WeightInvInit == Init => WeightInv
<1> SUFFICES ASSUME Init PROVE WeightInv
  OBVIOUS
<1>1. Active = {} /\ stamp = 1 /\ \A c \in Slots : calls[c] = Idle
  BY DEF Init, Active
<1>2. WeightsAre(0) /\ 0 \in 0..stamp
  BY <1>1 DEF WeightsAre, At
<1> QED
  BY <1>2 DEF WeightInv

(* The invariant on weights is the property when no call is writing.        *)
LEMMA WeightInvMeans == TypeInv /\ WeightInv => WeightsFromOneRebalance
BY DEF WeightInv, WeightsAre, WeightsFromOneRebalance, At

(* Who leaves word that the last row of a sync is written.                  *)
LEMMA WhoWroteLast ==
    ASSUME [Next]_vars, last' = "sync"
    PROVE  \/ last = "sync" /\ UNCHANGED <<pool, live>>
           \/ \E c \in Slots : \/ WriteLiveWeight(c) /\ Len(calls[c].todo) = 1
                               \/ SyncAnswers(c)
<1>1. ASSUME NEW c \in Slots, WriteLiveWeight(c)
      PROVE  Len(calls[c].todo) = 1
  BY <1>1 DEF WriteLiveWeight
<1>2. ASSUME ~\E c \in Slots : WriteLiveWeight(c) \/ SyncAnswers(c)
      PROVE  last = "sync" /\ UNCHANGED <<pool, live>>
  BY <1>2 DEF Next, vars, Start, Admission, Gate, GateRefuses, EvaluateAdmission, InsertMember,
     PoolUpkeep, ReadMembers, PlanRebalance, ReadSeries, EvictionRound, WritePoolWeight, Evict, PoolAnswers,
     Sync, ReadPoolWeights, PlanSync, RebalanceBook, FetchTargets, CommitRebalance,
     BlockRebalance, Override, ReturnsChange, Crash
<1> QED
  BY <1>1, <1>2

(* What a sync made alone reads, and the plan that it makes of it: every    *)
(* row of the book that does not match a member is to be written.          *)
LEMMA SyncReads ==
    ASSUME TypeInv, NEW c \in Slots, ReadPoolWeights(c)
    PROVE  ReadIsCurrent(c)'
<1> DEFINE read == [n \in 1..Len(pool) |-> [row |-> pool[n].surface, weight |->
                                               IF n \in Active THEN pool[n].weight ELSE 0]]
<1>1. calls \in [Slots -> Call \cup {Idle}] /\ calls[c] \in Call /\ UNCHANGED pool
  BY DEF TypeInv, TypeOK, ReadPoolWeights, At
<1>2. calls'[c].todo = read
  BY <1>1 DEF ReadPoolWeights, Call
<1>3. Active \subseteq 1..Len(pool) /\ Len(pool) \in Nat /\ Active' = Active
  BY <1>1, MembersAreRows DEF Active
<1>4. \A n \in Active : n \in DOMAIN read /\ read[n].weight = pool[n].weight
  BY <1>3
<1>5. DOMAIN read = 1..Len(pool)
  OBVIOUS
<1> HIDE DEF read
<1>6. Len(read) = Len(pool)
  <2>1. calls'[c] # Idle /\ TypeInv'
    BY <1>1, SyncTyped DEF ReadPoolWeights, Idle, Call, Sync
  <2>2. read \in Seq([row : (Nat \ {0}) \cup Surfaces, weight : Nat])
    BY <1>2, <2>1 DEF TypeInv, TypeOK, Call
  <2> QED
    BY <1>3, <1>5, <2>2, LenProperties
<1> QED
  BY <1>1, <1>2, <1>3, <1>4, <1>6 DEF ReadIsCurrent

(* The plan of a sync matches the members it has just read.                 *)
LEMMA SyncPlansMembers ==
    ASSUME TypeInv, Alone, NEW c \in Slots, PlanSync(c), ReadIsCurrent(c)
    PROVE  WritesMembers(c)'
<1>1. PICK m \in [SeenSurfaces(c) -> Nat],
           todo \in Seq([row : (Nat \ {0}) \cup Surfaces, weight : Nat]) :
        /\ Write(c, todo)
        /\ Rows(todo) = ToSync(m) \cup ToZero(m)
        /\ \A n \in 1..Len(todo) :
              \/ todo[n].row \in ToSync(m) /\ todo[n].weight = m[todo[n].row]
              \/ todo[n].row \in ToZero(m) /\ todo[n].weight = 0
        /\ \A s \in SeenSurfaces(c) : \E n \in calls[c].seen :
              pool[n].surface = s /\ m[s] = calls[c].todo[n].weight
  BY SyncPlan
<1>2. /\ calls \in [Slots -> Call \cup {Idle}] /\ calls[c] \in Call /\ UNCHANGED <<pool, live>>
      /\ calls[c].seen = Active /\ live \in [Provisioned -> LiveRow]
  BY DEF TypeInv, TypeOK, PlanSync, At, Alone
<1>3. calls'[c].todo = todo /\ Active' = Active
  BY <1>1, <1>2 DEF Write, Call, Active
<1>4. \A s \in SeenSurfaces(c) : \E i \in Active : pool[i].surface = s /\ m[s] = pool[i].weight
  BY <1>1, <1>2 DEF ReadIsCurrent
<1>5. DOMAIN m = SeenSurfaces(c)
  OBVIOUS
<1>6. ASSUME NEW s \in Provisioned \ Rows(todo)
      PROVE  Matches(s)
  <2> SUFFICES ASSUME live[s].source = "HOUSE_BOOK", live[s].weight # 0
               PROVE  \E i \in Active : pool[i].surface = s /\ pool[i].weight \in {0, live[s].weight}
    BY DEF Matches
  <2>1. s \notin ToSync(m) /\ s \notin ToZero(m)
    BY <1>1, <1>6
  <2>2. live[s].weight > 0 /\ live[s].source \in BookSources
    BY <1>2 DEF LiveRow, BookSources
  <2>3. s \in SeenSurfaces(c)
    BY <1>5, <2>1, <2>2 DEF ToZero
  <2>4. m[s] = 0
    BY <1>5, <2>1, <2>3 DEF ToSync
  <2> QED
    BY <1>4, <2>3, <2>4
<1>7. ASSUME NEW n \in 1..Len(todo), todo[n].weight # 0
      PROVE  \E i \in Active : pool[i].surface = todo[n].row /\ pool[i].weight = todo[n].weight
  <2>1. todo[n].row \in ToSync(m) /\ todo[n].weight = m[todo[n].row]
    BY <1>1, <1>7
  <2>2. todo[n].row \in SeenSurfaces(c)
    BY <1>5, <2>1 DEF ToSync
  <2> QED
    BY <1>4, <2>1, <2>2
<1>8. \A s \in Provisioned : Matches(s) => Matches(s)'
  BY <1>2, <1>3 DEF Matches
<1> QED
  BY <1>2, <1>3, <1>6, <1>7, <1>8 DEF WritesMembers

(* Each row the sync writes gets the weight of its member.                  *)
LEMMA SyncWritesMembers ==
    ASSUME TypeInv, NEW c \in Slots, WriteLiveWeight(c), WritesMembers(c)
    PROVE  WritesMembers(c)'
<1> DEFINE r == Next1(c).row
           w == Next1(c).weight
<1>1. At(c, {"sync"}, "write") /\ calls[c] # Idle /\ calls[c].todo # <<>> /\ Shift(c) /\ UNCHANGED pool
  BY DEF WriteLiveWeight, At
<1>2. /\ \A n \in 1..Len(calls'[c].todo) :
            n + 1 \in 1..Len(calls[c].todo) /\ calls'[c].todo[n] = calls[c].todo[n + 1]
      /\ Rows(calls[c].todo) = Rows(calls'[c].todo) \cup {r}
  BY <1>1, ShiftEffect
<1>3. r \in Provisioned /\ w \in Nat /\ Next1(c) = calls[c].todo[1] /\ 1 \in 1..Len(calls[c].todo)
  BY SyncWrite
<1>4. live' = [live EXCEPT ![r] = [weight |-> w, source |->
                  IF w = 0 THEN "HOUSE_BOOK_EVICTED" ELSE "HOUSE_BOOK"]]
      /\ live \in [Provisioned -> LiveRow]
  BY DEF WriteLiveWeight, TypeInv, TypeOK
<1>5. Active' = Active
  BY <1>1 DEF Active
<1>6. w # 0 => \E i \in Active : pool[i].surface = r /\ pool[i].weight = w
  BY <1>3 DEF WritesMembers
<1> HIDE DEF r, w
<1>7. /\ \A s \in Provisioned : s # r => live'[s] = live[s]
      /\ live'[r].weight = w /\ (live'[r].source = "HOUSE_BOOK" => w # 0)
  BY <1>3, <1>4
<1>9. ASSUME NEW s \in Provisioned \ Rows(calls'[c].todo)
      PROVE  Matches(s)'
  <2>1. CASE s = r
    <3>1. live'[s].source = "HOUSE_BOOK" => \E i \in Active : pool[i].surface = s /\ pool[i].weight = live'[s].weight
      BY <1>6, <1>7, <2>1
    <3> QED
      BY <1>1, <1>5, <3>1 DEF Matches
  <2>2. CASE s # r
    <3>1. live'[s] = live[s] /\ Matches(s)
      BY <1>2, <1>7, <1>9, <2>2 DEF WritesMembers
    <3> QED
      BY <1>1, <1>5, <3>1 DEF Matches
  <2> QED
    BY <2>1, <2>2
<1>10. ASSUME NEW n \in 1..Len(calls'[c].todo), calls'[c].todo[n].weight # 0
       PROVE  \E i \in Active' : pool'[i].surface = calls'[c].todo[n].row
                                 /\ pool'[i].weight = calls'[c].todo[n].weight
  <2>1. n + 1 \in 1..Len(calls[c].todo) /\ calls'[c].todo[n] = calls[c].todo[n + 1]
    BY <1>2
  <2>2. PICK k \in 1..Len(calls[c].todo) : calls'[c].todo[n] = calls[c].todo[k]
    BY <2>1
  <2>3. \E i \in Active : pool[i].surface = calls[c].todo[k].row
                          /\ pool[i].weight = calls[c].todo[k].weight
    BY <1>10, <2>2 DEF WritesMembers
  <2> QED
    BY <1>1, <1>5, <2>2, <2>3
<1> QED
  BY <1>9, <1>10 DEF WritesMembers

(* Every step keeps the book in step with the pool a sync has read.         *)
LEMMA SyncInvStep == TypeInv /\ SerialInv /\ SyncInv /\ [Next]_vars => SyncInv'
<1> SUFFICES ASSUME TypeInv, Alone, serial, SyncInv, [Next]_vars
             PROVE  /\ last' = "sync" => \A s \in Provisioned : Matches(s)'
                    /\ \A c \in Slots : At(c, {"sync"}, "plan")' => ReadIsCurrent(c)'
                    /\ \A c \in Slots : At(c, {"sync"}, "write")' => WritesMembers(c)'
  BY SerialIsChosenOnce DEF SerialInv, SyncInv
<1>1. ASSUME NEW c \in Slots, At(c, {"sync"}, "plan")'
      PROVE  ReadIsCurrent(c)'
  <2>1. CASE calls'[c] = calls[c]
    <3>1. At(c, {"sync"}, "plan")
      BY <1>1, <2>1 DEF At
    <3>2. UNCHANGED pool
      BY <2>1, <3>1, PoolIsHeld DEF At
    <3> QED
      BY <2>1, <3>1, <3>2 DEF SyncInv, ReadIsCurrent, Active
  <2>2. CASE ReadPoolWeights(c)
    BY <2>2, SyncReads
  <2> QED
    BY <1>1, <2>1, <2>2, HowItGotThere DEF At
<1>2. ASSUME NEW c \in Slots, At(c, {"sync"}, "write")'
      PROVE  WritesMembers(c)'
  <2>1. CASE calls'[c] = calls[c]
    <3>1. At(c, {"sync"}, "write")
      BY <1>2, <2>1 DEF At
    <3>2. UNCHANGED pool
      BY <2>1, <3>1, PoolIsHeld DEF At
    <3>3. ASSUME NEW s \in Provisioned
          PROVE  live'[s] = live[s] \/ live'[s].source # "HOUSE_BOOK"
      <4>1. CASE UNCHANGED live
        BY <4>1
      <4>2. ASSUME NEW d \in Slots, WriteLiveWeight(d)
            PROVE  FALSE
        <5>1. d = c /\ calls[c] # Idle
          BY <3>1, <4>2 DEF Alone, At, WriteLiveWeight
        <5>2. Len(calls[c].todo) = Len(calls'[c].todo) + 1
          BY <4>2, <5>1, ShiftEffect DEF WriteLiveWeight
        <5>3. Len(calls[c].todo) \in Nat
          BY <5>1 DEF TypeInv, TypeOK, Call
        <5> QED
          BY <2>1, <5>2, <5>3
      <4>3. ASSUME NEW d \in Slots, CommitRebalance(d) \/ BlockRebalance(d)
            PROVE  FALSE
        BY <3>1, <4>3 DEF Alone, At, CommitRebalance, BlockRebalance
      <4>4. ASSUME NEW r \in Provisioned, Override(r)
            PROVE  live'[s] = live[s] \/ live'[s].source # "HOUSE_BOOK"
        BY <4>4 DEF Override, TypeInv, TypeOK
      <4> QED
        BY <4>1, <4>2, <4>3, <4>4, LiveWrites
    <3>4. \A s \in Provisioned : Matches(s) => Matches(s)'
      BY <3>2, <3>3 DEF Matches, Active
    <3>5. WritesMembers(c)
      BY <3>1 DEF SyncInv
    <3> QED
      BY <2>1, <3>2, <3>4, <3>5 DEF WritesMembers, Active
  <2>2. CASE PlanSync(c)
    BY <2>2, SyncPlansMembers DEF SyncInv, PlanSync
  <2>3. CASE WriteLiveWeight(c)
    BY <2>3, SyncWritesMembers DEF SyncInv, WriteLiveWeight
  <2> QED
    BY <1>2, <2>1, <2>2, <2>3, HowItGotThere DEF At
<1>3. ASSUME last' = "sync", NEW s \in Provisioned
      PROVE  Matches(s)'
  <2>1. CASE last = "sync" /\ UNCHANGED <<pool, live>>
    BY <2>1 DEF SyncInv, Matches, Active
  <2>2. ASSUME NEW c \in Slots, WriteLiveWeight(c), Len(calls[c].todo) = 1
        PROVE  Matches(s)'
    <3>1. calls'[c].op = calls[c].op /\ calls'[c].pc = calls[c].pc /\ calls'[c] # Idle
          /\ Len(calls[c].todo) = Len(calls'[c].todo) + 1
      BY <2>2, ShiftEffect DEF WriteLiveWeight, At
    <3>2. At(c, {"sync"}, "write")'
      BY <2>2, <3>1 DEF WriteLiveWeight, At
    <3>3. Rows(calls'[c].todo) = {}
      <4>1. calls'[c] \in Call
        BY <3>1, TypeInvStep DEF TypeInv, TypeOK
      <4>2. Len(calls'[c].todo) \in Nat
        BY <4>1 DEF Call
      <4> DEFINE left == Len(calls'[c].todo)
      <4>3. left \in Nat /\ left + 1 = 1
        BY <2>2, <3>1, <4>2
      <4> HIDE DEF left
      <4>4. left = 0
        BY <4>3
      <4> QED
        BY <4>4 DEF Rows, left
    <3> QED
      BY <1>2, <3>2, <3>3 DEF WritesMembers
  <2>3. ASSUME NEW c \in Slots, SyncAnswers(c)
        PROVE  Matches(s)'
    <3>1. At(c, {"sync"}, "write") /\ calls[c].todo = <<>> /\ UNCHANGED <<pool, live>>
      BY <2>3 DEF SyncAnswers
    <3>2. Rows(calls[c].todo) = {}
      BY <3>1, EmptySeq DEF Rows
    <3>3. Matches(s)
      BY <3>1, <3>2 DEF SyncInv, WritesMembers
    <3> QED
      BY <3>1, <3>3 DEF Matches, Active
  <2> QED
    BY <1>3, <2>1, <2>2, <2>3, WhoWroteLast
<1> QED
  BY <1>1, <1>2, <1>3

(* One call after the other, the pool's weights are those of one            *)
(* computation whenever no call is under way, and after a sync every live  *)
(* weight of the book is a member's: however many calls came before, in    *)
(* whatever order, and with operator overrides in between.                 *)
THEOREM TheBookFollowsThePool == Spec => []BookFollowsPool
<1> DEFINE Inv == TypeInv /\ SerialInv /\ WeightInv /\ SyncInv
<1>1. Init => SerialInv /\ SyncInv
  BY DEF Init, SerialInv, Alone, SyncInv, At
<1>2. Spec => []Inv
  BY <1>1, WeightInvInit, TypeInvInit, TypeInvStep, SerialInvStep, WeightInvStep, SyncInvStep,
     PTL DEF Spec
<1>3. SyncInv => SyncedBookMatches
  BY DEF SyncInv, SyncedBookMatches, Matches
<1>4. Inv => BookFollowsPool
  BY <1>3, WeightInvMeans DEF BookFollowsPool
<1> QED
  BY <1>2, <1>4, PTL
=============================================================================
