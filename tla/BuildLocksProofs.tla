-------------------------- MODULE BuildLocksProofs --------------------------
(***************************************************************************)
(* Proofs about BuildLocks.tla, for every number of builds, steps and      *)
(* locks, every list of accesses and every configured limit: owners are    *)
(* compatible and counted right, steps that run hold their locks, and no   *)
(* free lock has a queue in which nobody was woken.  Where everybody takes *)
(* one unit and limits stay, who is woken is served; if stoppable builds   *)
(* take one lock at most, no queue keeps a requester that has given up.    *)
(***************************************************************************)
EXTENDS BuildLocks, FiniteSetTheorems, WellFoundedInduction, SequenceTheorems, TLAPS

-----------------------------------------------------------------------------
(* Sums over finite sets *)

\* A property of sets that the empty set has, and a finite set together with one
\* element more if it has it, is a property of every finite set.
LEMMA FiniteInduction ==
  ASSUME NEW U, NEW G,
         \A S \in SUBSET U : IsFiniteSet(S) /\ (\A x \in S : S \ {x} \in G) => S \in G
  PROVE  \A S \in SUBSET U : IsFiniteSet(S) => S \in G
  <1> SUFFICES ASSUME NEW S \in SUBSET U, IsFiniteSet(S), S \notin G
               PROVE  FALSE
    OBVIOUS
  <1> DEFINE Bad == {T \in FiniteSubsetsOf(U) : T \notin G}
  <1>1. Bad # {} /\ Bad \subseteq FiniteSubsetsOf(U)
    BY DEF FiniteSubsetsOf
  <1>2. IsWellFoundedOn(StrictSubsetOrdering(U), FiniteSubsetsOf(U))
    BY FS_StrictSubsetOrderingWellFounded
  <1>3. PICK T \in Bad : \A V \in Bad : <<V, T>> \notin StrictSubsetOrdering(U)
    <2> HIDE DEF Bad
    <2>1. QED
      BY <1>1, <1>2, WFMin
  <1>4. T \in SUBSET U /\ IsFiniteSet(T) /\ T \notin G
    BY DEF FiniteSubsetsOf
  <1>5. PICK x \in T : T \ {x} \notin G
    BY <1>4
  <1>6. T \ {x} \in FiniteSubsetsOf(U) /\ <<T \ {x}, T>> \in StrictSubsetOrdering(U)
    BY <1>4, <1>5, FS_RemoveElement DEF FiniteSubsetsOf, StrictSubsetOrdering
  <1>7. QED
    BY <1>3, <1>5, <1>6

\* The requesters of lock l.
Askers(l) == {r \in Requester : l \in LocksOf(r)}

\* What a requester asks of a lock is an access to it, an exclusive one counts
\* one, and no limit that is configured is too small for it.
LEMMA NeedIsAccess ==
  ASSUME NEW l \in Lock, NEW r \in Askers(l)
  PROVE  /\ Need(r, l) \in Access /\ Need(r, l).lock = l
         /\ Need(r, l).count \in Nat \ {0}
         /\ Need(r, l).mode \in Mode
         /\ Need(r, l).mode = "exclusive" => Need(r, l).count = 1
         /\ \A m \in MaxCounts[l] : m \in Nat /\ Need(r, l).count <= m
  <1> DEFINE i == CHOOSE i \in DOMAIN Locks[r] : Locks[r][i].lock = l
  <1>1. i \in DOMAIN Locks[r] /\ Locks[r][i].lock = l
    BY DEF Askers, LocksOf
  <1>2. Need(r, l) = Locks[r][i]
    BY DEF Need
  <1>3. r \in Requester /\ Locks[r] \in Seq(Access)
    BY LocksAssumption DEF Askers
  <1> HIDE DEF i
  <1>4. Locks[r][i] \in Access
    BY <1>1, <1>3, ElementOfSeq
  <1>5. /\ Locks[r][i].mode = "exclusive" => Locks[r][i].count = 1
        /\ \A m \in MaxCounts[l] : Locks[r][i].count <= m
    BY <1>1, <1>3, LocksAssumption
  <1>6. \A m \in MaxCounts[l] : m \in Nat
    BY LocksAssumption
  <1>7. QED
    BY <1>1, <1>2, <1>4, <1>5, <1>6 DEF Access

\* The units of lock l that the requesters S hold, one by one.
Units(l, S) == {u \in S \X Nat : u[2] \in 1..Need(u[1], l).count}

\* Units add up.
LEMMA UnitsAreFinite ==
  ASSUME NEW l \in Lock, NEW S \in SUBSET Askers(l), IsFiniteSet(S)
  PROVE  /\ IsFiniteSet(Units(l, S))
         /\ \A x \in S : Cardinality(Units(l, S)) = Need(x, l).count + Cardinality(Units(l, S \ {x}))
  <1> DEFINE G == {T \in SUBSET Askers(l) : IsFiniteSet(Units(l, T))}
  <1>1. {} \in G
    BY FS_EmptySet DEF Units
  <1>2. ASSUME NEW T \in SUBSET Askers(l), NEW x \in T, IsFiniteSet(T), T \ {x} \in G
        PROVE  /\ T \in G
               /\ Cardinality(Units(l, T)) = Need(x, l).count + Cardinality(Units(l, T \ {x}))
    <2> DEFINE n == Need(x, l).count
               A == {x} \X (1..n)
               B == Units(l, T \ {x})
    <2>1. n \in Nat
      BY NeedIsAccess
    <2>2. Units(l, T) = A \cup B /\ A \cap B = {}
      BY <2>1 DEF Units
    <2>3. IsFiniteSet(A) /\ Cardinality(A) = n
      <3>1. IsFiniteSet({x}) /\ Cardinality({x}) = 1
        BY FS_Singleton
      <3>2. IsFiniteSet(1..n) /\ Cardinality(1..n) = n
        <4>1. IsFiniteSet(1..n) /\ Cardinality(1..n) = IF 1 > n THEN 0 ELSE n - 1 + 1
          BY <2>1, FS_Interval
        <4>2. (IF 1 > n THEN 0 ELSE n - 1 + 1) = n
          BY <2>1
        <4>3. QED
          BY <4>1, <4>2
      <3>3. IsFiniteSet(A) /\ Cardinality(A) = 1 * n
        <4>1. /\ IsFiniteSet({x} \X (1..n))
              /\ Cardinality({x} \X (1..n)) = Cardinality({x}) * Cardinality(1..n)
          BY <3>1, <3>2, FS_Product
        <4>2. QED
          BY <3>1, <3>2, <4>1
      <3>4. QED
        BY <2>1, <3>3
    <2>4. IsFiniteSet(B) /\ Cardinality(B) \in Nat
      BY <1>2, FS_CardinalityType
    <2> HIDE DEF n, A, B
    <2>5. IsFiniteSet(A \cup B) /\ Cardinality(A \cup B) = Cardinality(A) + Cardinality(B) - Cardinality({})
      BY <2>2, <2>3, <2>4, FS_Union
    <2>6. Cardinality(A \cup B) = n + Cardinality(B)
      BY <2>1, <2>3, <2>4, <2>5, FS_EmptySet
    <2>7. QED
      BY <2>2, <2>5, <2>6 DEF n, B
  <1>3. \A T \in SUBSET Askers(l) : IsFiniteSet(T) => T \in G
    <2> HIDE DEF G
    <2>1. \A T \in SUBSET Askers(l) : IsFiniteSet(T) /\ (\A x \in T : T \ {x} \in G) => T \in G
      BY <1>1, <1>2
    <2>2. QED
      BY <2>1, FiniteInduction
  <1>4. \A x \in S : IsFiniteSet(S \ {x})
    BY FS_RemoveElement
  <1>5. QED
    BY <1>2, <1>3, <1>4

\* What the requesters S ask of lock l, in sum.
SumOf(l, S) == MapThenSumSet(LAMBDA r : Need(r, l).count, S)

\* A sum is the number of the units.
LEMMA SumIsUnits ==
  ASSUME NEW l \in Lock, NEW S \in SUBSET Askers(l), IsFiniteSet(S)
  PROVE  SumOf(l, S) = Cardinality(Units(l, S))
  <1> DEFINE first(T) == CHOOSE x \in T : TRUE
             Sums(f) == f = [T \in SUBSET S |->
                               IF T = {} THEN 0 ELSE Need(first(T), l).count + f[T \ {first(T)}]]
             g == [T \in SUBSET S |-> Cardinality(Units(l, T))]
  <1>1. SumOf(l, S) = (CHOOSE f : Sums(f))[S]
    BY DEF SumOf, MapThenSumSet, MapThenFoldSet
  <1>2. \A T \in SUBSET S : IsFiniteSet(T) /\ T \in SUBSET Askers(l)
    BY FS_Subset
  <1>3. Sums(g)
    <2>1. ASSUME NEW T \in SUBSET S
          PROVE  g[T] = IF T = {} THEN 0 ELSE Need(first(T), l).count + g[T \ {first(T)}]
      <3>1. CASE T = {}
        BY <3>1, FS_EmptySet DEF Units
      <3>2. CASE T # {}
        <4>1. first(T) \in T /\ T \ {first(T)} \in SUBSET S
          BY <3>2
        <4>2. Cardinality(Units(l, T)) = Need(first(T), l).count + Cardinality(Units(l, T \ {first(T)}))
          BY <1>2, <4>1, UnitsAreFinite
        <4>3. QED
          BY <3>2, <4>1, <4>2
      <3>3. QED
        BY <3>1, <3>2
    <2>2. QED
      BY <2>1
  <1>4. ASSUME NEW f, Sums(f) PROVE f[S] = g[S]
    <2> DEFINE G == {T \in SUBSET S : f[T] = g[T]}
    <2>1. \A T \in SUBSET S : /\ f[T] = IF T = {} THEN 0 ELSE Need(first(T), l).count + f[T \ {first(T)}]
                              /\ g[T] = IF T = {} THEN 0 ELSE Need(first(T), l).count + g[T \ {first(T)}]
      BY <1>3, <1>4
    <2>2. \A T \in SUBSET S : (\A x \in T : T \ {x} \in G) => T \in G
      <3> SUFFICES ASSUME NEW T \in SUBSET S, \A x \in T : T \ {x} \in G
                   PROVE  f[T] = g[T]
        OBVIOUS
      <3>1. T # {} => first(T) \in T
        OBVIOUS
      <3> HIDE DEF first, g
      <3>2. T # {} => f[T \ {first(T)}] = g[T \ {first(T)}]
        BY <3>1
      <3>3. QED
        BY <2>1, <3>2
    <2>3. \A T \in SUBSET S : IsFiniteSet(T) => T \in G
      <3> HIDE DEF G
      <3>1. QED
        BY <2>2, FiniteInduction
    <2>4. QED
      BY <2>3
  <1>5. QED
    <2> HIDE DEF Sums, g
    <2>1. Sums(CHOOSE f : Sums(f))
      BY <1>3
    <2>2. (CHOOSE f : Sums(f))[S] = g[S]
      BY <1>4, <2>1
    <2>3. QED
      BY <1>1, <2>2 DEF g

\* A sum grows by what one requester more asks for.
LEMMA SumStep ==
  ASSUME NEW l \in Lock, NEW S \in SUBSET Askers(l), IsFiniteSet(S)
  PROVE  /\ SumOf(l, S) \in Nat
         /\ S = {} => SumOf(l, S) = 0
         /\ \A x \in S : SumOf(l, S) = Need(x, l).count + SumOf(l, S \ {x})
  <1>1. SumOf(l, S) = Cardinality(Units(l, S))
    BY SumIsUnits
  <1>2. SumOf(l, S) \in Nat
    BY <1>1, UnitsAreFinite, FS_CardinalityType
  <1>3. S = {} => SumOf(l, S) = 0
    BY <1>1, FS_EmptySet DEF Units
  <1>4. ASSUME NEW x \in S
        PROVE  SumOf(l, S) = Need(x, l).count + SumOf(l, S \ {x})
    <2>1. IsFiniteSet(S \ {x}) /\ S \ {x} \in SUBSET Askers(l)
      BY FS_RemoveElement
    <2>2. SumOf(l, S \ {x}) = Cardinality(Units(l, S \ {x}))
      BY <2>1, SumIsUnits
    <2>3. QED
      BY <1>1, <2>2, UnitsAreFinite
  <1>5. QED
    BY <1>2, <1>3, <1>4

-----------------------------------------------------------------------------
(* What owners and counters of one lock say *)

Counters == [exclusive : Nat, counting : Nat]

\* The owners among o that lock l in a mode.
InMode(o, l, mode) == {r \in o : Need(r, l).mode = mode}

\* The owners o of lock l are compatible, and the counters c count them.
Compatible(l, o, c) ==
  /\ o \subseteq Askers(l) /\ IsFiniteSet(o)
  /\ \A r \in o : Need(r, l).mode = "exclusive" => o = {r}
  /\ c \in Counters
  /\ c.exclusive = SumOf(l, InMode(o, l, "exclusive"))
  /\ c.counting = SumOf(l, InMode(o, l, "counting"))
  /\ \E m \in MaxCounts[l] : c.counting <= m

\* A sum changes by what an owner who comes or goes asks for, in its mode.
LEMMA InModeStep ==
  ASSUME NEW l \in Lock, NEW o \in SUBSET Askers(l), IsFiniteSet(o), NEW r \in o, NEW mode \in Mode
  PROVE  SumOf(l, InMode(o, l, mode)) =
           (IF Need(r, l).mode = mode THEN Need(r, l).count ELSE 0)
             + SumOf(l, InMode(o \ {r}, l, mode))
  <1> DEFINE S == InMode(o, l, mode)
  <1>1. S \in SUBSET Askers(l) /\ IsFiniteSet(S)
    BY FS_Subset DEF InMode
  <1>2. InMode(o \ {r}, l, mode) = S \ {r}
    BY DEF InMode
  <1>3. CASE Need(r, l).mode = mode
    <2>1. r \in S
      BY <1>3 DEF InMode
    <2>2. SumOf(l, S) = Need(r, l).count + SumOf(l, S \ {r})
      BY <1>1, <2>1, SumStep
    <2>3. QED
      BY <1>2, <1>3, <2>2
  <1>4. CASE Need(r, l).mode # mode
    <2>1. S \ {r} = S
      BY <1>4 DEF InMode
    <2>2. SumOf(l, S) \in Nat
      BY <1>1, SumStep
    <2>3. QED
      BY <1>2, <1>4, <2>1, <2>2
  <1>5. QED
    BY <1>3, <1>4

\* Sums of owners are numbers, and a positive counter means an owner.
LEMMA InModeSums ==
  ASSUME NEW l \in Lock, NEW o \in SUBSET Askers(l), IsFiniteSet(o), NEW mode \in Mode
  PROVE  /\ SumOf(l, InMode(o, l, mode)) \in Nat
         /\ o = {} => SumOf(l, InMode(o, l, mode)) = 0
         /\ SumOf(l, InMode(o, l, mode)) = 0 => InMode(o, l, mode) = {}
  <1> DEFINE S == InMode(o, l, mode)
  <1>1. S \in SUBSET Askers(l) /\ IsFiniteSet(S)
    BY FS_Subset DEF InMode
  <1>2. SumOf(l, S) \in Nat /\ (S = {} => SumOf(l, S) = 0)
    BY <1>1, SumStep
  <1>3. o = {} => S = {}
    BY DEF InMode
  <1>4. ASSUME NEW x \in S, SumOf(l, S) = 0
        PROVE  FALSE
    <2>1. SumOf(l, S) = Need(x, l).count + SumOf(l, S \ {x})
      BY <1>1, SumStep
    <2>2. IsFiniteSet(S \ {x}) /\ S \ {x} \in SUBSET Askers(l)
      BY <1>1, FS_RemoveElement
    <2>3. SumOf(l, S \ {x}) \in Nat
      BY <2>2, SumStep
    <2>4. Need(x, l).count \in Nat \ {0}
      BY <1>1, NeedIsAccess
    <2>5. QED
      BY <1>4, <2>1, <2>3, <2>4
  <1>5. QED
    BY <1>2, <1>3, <1>4

\* Only a free lock has both counters at zero, and it has.
LEMMA FreeIsZero ==
  ASSUME NEW l \in Lock, NEW o, NEW c, Compatible(l, o, c)
  PROVE  o = {} <=> c.exclusive = 0 /\ c.counting = 0
  <1>1. o \in SUBSET Askers(l) /\ IsFiniteSet(o) /\ {"exclusive", "counting"} = Mode
    BY DEF Compatible, Mode
  <1>2. o = InMode(o, l, "exclusive") \cup InMode(o, l, "counting")
    BY <1>1, NeedIsAccess DEF InMode
  <1>3. QED
    BY <1>1, <1>2, InModeSums DEF Compatible

\* The counter of the access's mode changes, the other does not.
LEMMA Charged ==
  ASSUME NEW c \in Counters, NEW n, n.count \in Nat, NEW sign \in {-1, 1}
  PROVE  /\ n.mode = "exclusive" =>
              Charge(c, n, sign) = [exclusive |-> c.exclusive + sign * n.count,
                                    counting |-> c.counting]
         /\ n.mode = "counting" =>
              Charge(c, n, sign) = [exclusive |-> c.exclusive,
                                    counting |-> c.counting + sign * n.count]
  <1>1. ASSUME n.mode = "exclusive"
        PROVE  Charge(c, n, sign) = [c EXCEPT !["exclusive"] = @ + sign * n.count]
    BY <1>1 DEF Charge
  <1>2. ASSUME n.mode = "counting"
        PROVE  Charge(c, n, sign) = [c EXCEPT !["counting"] = @ + sign * n.count]
    BY <1>2 DEF Charge
  <1>3. QED
    BY <1>1, <1>2 DEF Counters

\* A requester that is granted the lock joins its owners.
LEMMA ClaimKeeps ==
  ASSUME NEW l \in Lock, NEW o, NEW c, Compatible(l, o, c),
         NEW r \in Askers(l), r \notin o,
         c.exclusive = 0,
         \/ /\ Need(r, l).mode = "counting"
            /\ \E m \in MaxCounts[l] : c.counting + Need(r, l).count <= m
         \/ Need(r, l).mode = "exclusive" /\ c.counting = 0
  PROVE  Compatible(l, o \cup {r}, Charge(c, Need(r, l), 1))
  <1> DEFINE p == o \cup {r}
             n == Need(r, l)
             d == Charge(c, n, 1)
  <1>1. /\ o \in SUBSET Askers(l) /\ IsFiniteSet(o) /\ c \in Counters
        /\ p \in SUBSET Askers(l) /\ IsFiniteSet(p) /\ p \ {r} = o
    BY FS_AddElement DEF Compatible
  <1>2. n.count \in Nat \ {0} /\ n.mode \in Mode /\ (n.mode = "exclusive" => n.count = 1)
    BY NeedIsAccess
  <1>3. /\ SumOf(l, InMode(p, l, "exclusive")) =
             (IF n.mode = "exclusive" THEN n.count ELSE 0) + SumOf(l, InMode(o, l, "exclusive"))
        /\ SumOf(l, InMode(p, l, "counting")) =
             (IF n.mode = "counting" THEN n.count ELSE 0) + SumOf(l, InMode(o, l, "counting"))
    BY <1>1, InModeStep DEF Mode
  <1>4. InMode(o, l, "exclusive") = {}
    BY <1>1, InModeSums DEF Compatible, Mode
  <1>5. CASE n.mode = "counting"
    <2>1. d = [exclusive |-> c.exclusive, counting |-> c.counting + n.count]
      BY <1>1, <1>2, <1>5, Charged DEF Counters
    <2>2. \A x \in p : Need(x, l).mode # "exclusive"
      BY <1>4, <1>5 DEF InMode
    <2>3. PICK m \in MaxCounts[l] : c.counting + n.count <= m
      BY <1>5
    <2>4. d \in Counters /\ d.counting <= m
      BY <1>1, <1>2, <2>1, <2>3 DEF Counters
    <2>5. /\ d.exclusive = SumOf(l, InMode(p, l, "exclusive"))
          /\ d.counting = SumOf(l, InMode(p, l, "counting"))
      <3>1. /\ c.exclusive = SumOf(l, InMode(o, l, "exclusive"))
            /\ c.counting = SumOf(l, InMode(o, l, "counting"))
            /\ c.exclusive \in Nat /\ c.counting \in Nat
        BY <1>1 DEF Compatible, Counters
      <3>2. QED
        BY <1>2, <1>3, <1>5, <2>1, <3>1
    <2>6. QED
      BY <1>1, <2>2, <2>4, <2>5 DEF Compatible
  <1>6. CASE n.mode = "exclusive"
    <2>1. d = [exclusive |-> 1, counting |-> 0]
      BY <1>1, <1>2, <1>6, Charged
    <2>2. o = {} /\ p = {r}
      BY <1>6, FreeIsZero
    <2>3. d \in Counters /\ \E m \in MaxCounts[l] : d.counting <= m
      BY <2>1, <1>1, <1>6 DEF Counters, Compatible
    <2>4. /\ d.exclusive = SumOf(l, InMode(p, l, "exclusive"))
          /\ d.counting = SumOf(l, InMode(p, l, "counting"))
      <3>1. /\ SumOf(l, InMode(o, l, "exclusive")) = 0
            /\ SumOf(l, InMode(o, l, "counting")) = 0
        BY <1>1, <2>2, InModeSums DEF Mode
      <3>2. QED
        BY <1>2, <1>3, <1>6, <2>1, <3>1
    <2>5. QED
      BY <1>1, <2>2, <2>3, <2>4 DEF Compatible
  <1>7. QED
    BY <1>2, <1>5, <1>6 DEF Mode

\* An owner that releases the lock leaves the others compatible.
LEMMA ReleaseKeeps ==
  ASSUME NEW l \in Lock, NEW o, NEW c, Compatible(l, o, c), NEW r \in o
  PROVE  Compatible(l, o \ {r}, Charge(c, Need(r, l), -1))
  <1> DEFINE p == o \ {r}
             n == Need(r, l)
             d == Charge(c, n, -1)
  <1>1. /\ o \in SUBSET Askers(l) /\ IsFiniteSet(o) /\ c \in Counters
        /\ p \in SUBSET Askers(l) /\ IsFiniteSet(p)
    BY FS_RemoveElement DEF Compatible
  <1>2. n.count \in Nat \ {0} /\ n.mode \in Mode /\ (n.mode = "exclusive" => n.count = 1)
    BY <1>1, NeedIsAccess
  <1>3. /\ SumOf(l, InMode(o, l, "exclusive")) =
             (IF n.mode = "exclusive" THEN n.count ELSE 0) + SumOf(l, InMode(p, l, "exclusive"))
        /\ SumOf(l, InMode(o, l, "counting")) =
             (IF n.mode = "counting" THEN n.count ELSE 0) + SumOf(l, InMode(p, l, "counting"))
    BY <1>1, InModeStep DEF Mode
  <1>4. /\ SumOf(l, InMode(p, l, "exclusive")) \in Nat
        /\ SumOf(l, InMode(p, l, "counting")) \in Nat
    BY <1>1, InModeSums DEF Mode
  <1>5. /\ c.exclusive = SumOf(l, InMode(o, l, "exclusive"))
        /\ c.counting = SumOf(l, InMode(o, l, "counting"))
        /\ c.exclusive \in Nat /\ c.counting \in Nat
    BY <1>1 DEF Compatible, Counters
  <1>6. d = [exclusive |-> SumOf(l, InMode(p, l, "exclusive")),
             counting |-> SumOf(l, InMode(p, l, "counting"))]
    <2>1. CASE n.mode = "counting"
      <3>1. d = [exclusive |-> c.exclusive, counting |-> c.counting - n.count]
        BY <1>1, <1>2, <2>1, Charged DEF Counters
      <3>2. QED
        BY <1>2, <1>3, <1>4, <1>5, <2>1, <3>1
    <2>2. CASE n.mode = "exclusive"
      <3>1. d = [exclusive |-> c.exclusive - n.count, counting |-> c.counting]
        BY <1>1, <1>2, <2>2, Charged DEF Counters
      <3>2. QED
        BY <1>2, <1>3, <1>4, <1>5, <2>2, <3>1
    <2>3. QED
      BY <1>2, <2>1, <2>2 DEF Mode
  <1>7. \A x \in p : Need(x, l).mode = "exclusive" => p = {x}
    BY DEF Compatible
  <1>8. \E m \in MaxCounts[l] : d.counting <= m
    <2>1. PICK m \in MaxCounts[l] : c.counting <= m
      BY DEF Compatible
    <2>2. m \in Nat
      BY <1>1, NeedIsAccess
    <2>3. d.counting <= c.counting /\ d.counting \in Nat
      BY <1>2, <1>3, <1>4, <1>5, <1>6
    <2>4. QED
      BY <1>5, <2>1, <2>2, <2>3
  <1>9. QED
    BY <1>1, <1>4, <1>6, <1>7, <1>8 DEF Compatible, Counters

-----------------------------------------------------------------------------
(* The queue of one lock *)

\* A queue of lock l: waiters that asked for l, each of them once.
Queued(l, q) ==
  /\ q \in Seq(Waiter)
  /\ \A i \in DOMAIN q : q[i].who \in Askers(l)
  /\ \A i, j \in DOMAIN q : q[i].who = q[j].who => i = j

\* The requesters in queue q, and whether one of them is there and was woken.
InQueue(q) == {q[i].who : i \in DOMAIN q}

\* The first waiter of queue q, if there is one, was woken.
HeadWoken(q) == q # <<>> => q[1].woken

\* The places of a sequence without the element at p.
LEMMA RemoveAtPlaces ==
  ASSUME NEW S, NEW q \in Seq(S), NEW p \in 1..Len(q)
  PROVE  /\ RemoveAt(q, p) \in Seq(S)
         /\ Len(RemoveAt(q, p)) = Len(q) - 1
         /\ \A j \in 1..(Len(q) - 1) : RemoveAt(q, p)[j] = IF j < p THEN q[j] ELSE q[j + 1]
  <1> DEFINE a == SubSeq(q, 1, p - 1)
             b == SubSeq(q, p + 1, Len(q))
  <1>1. Len(q) \in Nat /\ p \in Nat
    OBVIOUS
  <1>2. a \in Seq(S) /\ Len(a) = p - 1 /\ \A j \in 1..(p - 1) : a[j] = q[j]
    BY <1>1, SubSeqProperties
  <1>3. /\ b \in Seq(S) /\ Len(b) = Len(q) - p
        /\ \A j \in 1..(Len(q) - p) : b[j] = q[p + j]
    BY <1>1, SubSeqProperties
  <1>4. RemoveAt(q, p) = a \o b
    BY DEF RemoveAt
  <1> HIDE DEF a, b
  <1>5. /\ a \o b \in Seq(S) /\ Len(a \o b) = Len(a) + Len(b)
        /\ \A j \in 1..(Len(a) + Len(b)) :
             (a \o b)[j] = IF j <= Len(a) THEN a[j] ELSE b[j - Len(a)]
    BY <1>2, <1>3, ConcatProperties
  <1>6. Len(a \o b) = Len(q) - 1
    BY <1>1, <1>2, <1>3, <1>5
  <1>7. ASSUME NEW j \in 1..(Len(q) - 1)
        PROVE  (a \o b)[j] = IF j < p THEN q[j] ELSE q[j + 1]
    <2>1. (a \o b)[j] = IF j <= p - 1 THEN a[j] ELSE b[j - (p - 1)]
      BY <1>1, <1>2, <1>3, <1>5, <1>7
    <2>2. CASE j < p
      BY <1>1, <1>2, <2>1, <2>2
    <2>3. CASE ~(j < p)
      <3>1. j - (p - 1) \in 1..(Len(q) - p) /\ p + (j - (p - 1)) = j + 1
        BY <1>1, <2>3
      <3>2. b[j - (p - 1)] = q[j + 1]
        BY <1>3, <3>1
      <3>3. QED
        BY <1>1, <2>1, <2>3, <3>2
    <2>4. QED
      BY <2>2, <2>3
  <1>8. QED
    BY <1>4, <1>5, <1>6, <1>7

\* The place of a requester, and the queue without it.
LEMMA WithoutPlaces ==
  ASSUME NEW l, NEW q, Queued(l, q), NEW r, Places(q, r) # {}
  PROVE  /\ Place(q, r) \in 1..Len(q) /\ q[Place(q, r)].who = r
         /\ Without(q, r) \in Seq(Waiter) /\ DOMAIN Without(q, r) = 1..(Len(q) - 1)
         /\ \A j \in 1..(Len(q) - 1) :
              Without(q, r)[j] = IF j < Place(q, r) THEN q[j] ELSE q[j + 1]
  <1> DEFINE w == Without(q, r)
             p == Place(q, r)
  <1>1. q \in Seq(Waiter) /\ Len(q) \in Nat /\ DOMAIN q = 1..Len(q)
    BY DEF Queued
  <1>2. p \in 1..Len(q) /\ q[p].who = r
    BY <1>1 DEF Place, Places
  <1>3. w = RemoveAt(q, p)
    BY DEF Without
  <1> HIDE DEF w, p
  <1>4. /\ w \in Seq(Waiter) /\ Len(w) = Len(q) - 1
        /\ \A j \in 1..(Len(q) - 1) : w[j] = IF j < p THEN q[j] ELSE q[j + 1]
    <2> DEFINE n == RemoveAt(q, p)
    <2>1. /\ n \in Seq(Waiter) /\ Len(n) = Len(q) - 1
          /\ \A j \in 1..(Len(q) - 1) : n[j] = IF j < p THEN q[j] ELSE q[j + 1]
      BY <1>1, <1>2, RemoveAtPlaces
    <2> HIDE DEF n
    <2>2. w = n
      BY <1>3 DEF n
    <2>3. QED
      BY <2>1, <2>2
  <1>5. DOMAIN w = 1..(Len(q) - 1)
    BY <1>4
  <1>6. QED
    BY <1>2, <1>4, <1>5 DEF w, p

\* Who is taken off a queue is no longer in it, the others keep their order.
LEMMA WithoutKeeps ==
  ASSUME NEW l, NEW q, Queued(l, q), NEW r
  PROVE  /\ Queued(l, Without(q, r))
         /\ InQueue(Without(q, r)) = InQueue(q) \ {r}
         /\ HeadWoken(q) /\ [who |-> r, woken |-> TRUE] \notin ToSet(q)
              => HeadWoken(Without(q, r))
  <1> DEFINE w == Without(q, r)
             p == Place(q, r)
  <1>1. q \in Seq(Waiter) /\ Len(q) \in Nat /\ DOMAIN q = 1..Len(q)
    BY DEF Queued
  <1>2. CASE Places(q, r) = {}
    <2>1. w = q
      BY <1>2 DEF Without
    <2>2. r \notin InQueue(q)
      BY <1>2 DEF Places, InQueue
    <2>3. QED
      BY <2>1, <2>2
  <1>3. CASE Places(q, r) # {}
    <2>1. p \in 1..Len(q) /\ q[p].who = r
      BY <1>3, WithoutPlaces
    <2>2. /\ w \in Seq(Waiter) /\ DOMAIN w = 1..(Len(q) - 1)
          /\ \A j \in 1..(Len(q) - 1) : w[j] = IF j < p THEN q[j] ELSE q[j + 1]
      BY <1>3, WithoutPlaces
    <2> HIDE DEF w, p
    <2> DEFINE from(j) == IF j < p THEN j ELSE j + 1
    <2>3. /\ \A j \in DOMAIN w : from(j) \in DOMAIN q /\ from(j) # p /\ w[j] = q[from(j)]
          /\ \A i, j \in DOMAIN w : from(i) = from(j) => i = j
      BY <1>1, <2>1, <2>2
    <2>4. ASSUME NEW i \in DOMAIN q, i # p
          PROVE  \E j \in DOMAIN w : from(j) = i
      <3>1. CASE i < p
        BY <1>1, <2>1, <2>2, <2>4, <3>1
      <3>2. CASE i > p
        <4>1. i - 1 \in DOMAIN w /\ from(i - 1) = i
          BY <1>1, <2>1, <2>2, <3>2
        <4>2. QED
          BY <4>1
      <3>3. QED
        BY <1>1, <2>1, <2>4, <3>1, <3>2
    <2>5. w # <<>> /\ p # 1 => w[1] = q[1] /\ q # <<>>
      BY <1>1, <2>1, <2>2
    <2> HIDE DEF from
    <2>6. Queued(l, w)
      <3>1. \A i \in DOMAIN w : w[i].who \in Askers(l)
        BY <2>3 DEF Queued
      <3>2. \A i, j \in DOMAIN w : w[i].who = w[j].who => i = j
        BY <2>3 DEF Queued
      <3>3. QED
        BY <2>2, <3>1, <3>2 DEF Queued
    <2>7. InQueue(w) = InQueue(q) \ {r}
      <3>1. ASSUME NEW x \in InQueue(w)
            PROVE  x \in InQueue(q) \ {r}
        <4>1. PICK j \in DOMAIN w : x = w[j].who
          BY DEF InQueue
        <4>2. from(j) \in DOMAIN q /\ from(j) # p /\ x = q[from(j)].who
          BY <2>3, <4>1
        <4>3. x # r
          BY <1>1, <2>1, <4>2 DEF Queued
        <4>4. QED
          BY <4>2, <4>3 DEF InQueue
      <3>2. ASSUME NEW x \in InQueue(q), x # r
            PROVE  x \in InQueue(w)
        <4>1. PICK i \in DOMAIN q : x = q[i].who
          BY DEF InQueue
        <4>2. i # p
          BY <2>1, <3>2, <4>1
        <4>3. PICK j \in DOMAIN w : from(j) = i
          BY <2>4, <4>2
        <4>4. QED
          BY <2>3, <4>1, <4>3 DEF InQueue
      <3>3. QED
        BY <3>1, <3>2
    <2>8. ASSUME HeadWoken(q), [who |-> r, woken |-> TRUE] \notin ToSet(q), w # <<>>
          PROVE  w[1].woken
      <3>1. q[1].woken /\ 1 \in DOMAIN q
        BY <1>1, <2>1, <2>8 DEF HeadWoken
      <3>2. q[1] \in Waiter
        BY <1>1, <3>1
      <3>3. p # 1
        <4>1. SUFFICES ASSUME p = 1 PROVE FALSE
          OBVIOUS
        <4>2. q[1] = [who |-> r, woken |-> TRUE]
          BY <2>1, <3>1, <3>2, <4>1 DEF Waiter
        <4>3. QED
          BY <2>8, <3>1, <4>2 DEF ToSet
      <3>4. QED
        BY <2>5, <2>8, <3>1, <3>3
    <2>9. QED
      BY <2>6, <2>7, <2>8 DEF w, HeadWoken
  <1>4. QED
    BY <1>2, <1>3

\* _tryWakeUp leaves every waiter at its place, and wakes those it passes.
LEMMA WakePlaces ==
  ASSUME NEW l, NEW q, Queued(l, q), NEW c, NEW max
  PROVE  /\ DOMAIN TryWakeUp(l, q, c, max) = DOMAIN q
         /\ \A i \in DOMAIN q :
              /\ TryWakeUp(l, q, c, max)[i].who = q[i].who
              /\ TryWakeUp(l, q, c, max)[i].woken <=>
                   q[i].woken \/ \A j \in 1..i : Passes(l, q, c, max, j)
  <1> DEFINE t == TryWakeUp(l, q, c, max)
             passes(i) == \A j \in 1..i : Passes(l, q, c, max, j)
  <1>1. t = [i \in DOMAIN q |-> [q[i] EXCEPT !.woken = @ \/ passes(i)]]
    BY DEF TryWakeUp
  <1>2. q \in Seq(Waiter)
    BY DEF Queued
  <1> HIDE DEF t, passes
  <1>3. DOMAIN t = DOMAIN q
    BY <1>1
  <1>4. ASSUME NEW i \in DOMAIN q
        PROVE  t[i].who = q[i].who /\ (t[i].woken <=> q[i].woken \/ passes(i))
    <2> DEFINE v == q[i].woken \/ passes(i)
    <2>1. q[i] \in Waiter /\ t[i] = [q[i] EXCEPT !.woken = v]
      BY <1>1, <1>2
    <2>2. v \in BOOLEAN
      BY Zenon
    <2>3. t[i].who = q[i].who /\ t[i].woken = v
      <3> HIDE DEF v
      <3>1. QED
        BY <2>1, <2>2 DEF Waiter
    <2>4. QED
      BY <2>3
  <1>5. QED
    BY <1>3, <1>4 DEF t, passes

\* _tryWakeUp keeps the queue and who was woken.
LEMMA WakeKeeps ==
  ASSUME NEW l, NEW q, Queued(l, q), NEW c, NEW max
  PROVE  /\ Queued(l, TryWakeUp(l, q, c, max))
         /\ InQueue(TryWakeUp(l, q, c, max)) = InQueue(q)
         /\ HeadWoken(q) => HeadWoken(TryWakeUp(l, q, c, max))
  <1> DEFINE t == TryWakeUp(l, q, c, max)
             passes(i) == \A j \in 1..i : Passes(l, q, c, max, j)
  <1>1. t = [i \in DOMAIN q |-> [q[i] EXCEPT !.woken = @ \/ passes(i)]]
    BY DEF TryWakeUp
  <1>2. q \in Seq(Waiter) /\ Len(q) \in Nat /\ DOMAIN q = 1..Len(q)
    BY DEF Queued
  <1> HIDE DEF t, passes
  <1>3. ASSUME NEW i \in DOMAIN q
        PROVE  t[i] \in Waiter /\ t[i].who = q[i].who /\ (q[i].woken => t[i].woken)
    <2>1. q[i] \in Waiter /\ t[i] = [q[i] EXCEPT !.woken = q[i].woken \/ passes(i)]
      BY <1>1, <1>2
    <2> DEFINE v == q[i].woken \/ passes(i)
    <2>2. v \in BOOLEAN /\ (q[i].woken => v) /\ t[i] = [q[i] EXCEPT !.woken = v]
      BY <2>1, Zenon
    <2> HIDE DEF v
    <2>3. QED
      BY <2>1, <2>2 DEF Waiter
  <1>4. DOMAIN t = DOMAIN q
    BY <1>1
  <1>5. t \in Seq(Waiter)
    <2>1. t = [i \in 1..Len(q) |-> t[i]]
      BY <1>1, <1>2
    <2>2. \A i \in 1..Len(q) : t[i] \in Waiter
      BY <1>2, <1>3
    <2>3. t \in [1..Len(q) -> Waiter]
      BY <2>1, <2>2, Zenon
    <2>4. QED
      BY <1>2, <2>3, SeqDef
  <1>6. Queued(l, t)
    BY <1>3, <1>4, <1>5 DEF Queued
  <1>7. InQueue(t) = InQueue(q)
    BY <1>3, <1>4, Zenon DEF InQueue
  <1>8. HeadWoken(q) => HeadWoken(t)
    <2>1. SUFFICES ASSUME HeadWoken(q), t # <<>> PROVE t[1].woken
      BY DEF HeadWoken
    <2>2. 1 \in DOMAIN q /\ q # <<>>
      BY <1>2, <1>4, <1>5, <2>1
    <2>3. QED
      BY <1>3, <2>1, <2>2 DEF HeadWoken
  <1>9. QED
    BY <1>6, <1>7, <1>8 DEF t

\* Nobody is passed before the first waiter.
LEMMA NobodyBeforeFirst ==
  ASSUME NEW l, NEW q \in Seq(Waiter), NEW mode
  PROVE  PassedBefore(l, q, 1, mode) = 0
  <1>1. SubSeq(q, 1, 1 - 1) = <<>>
    OBVIOUS
  <1>2. DOMAIN <<>> = {}
    OBVIOUS
  <1>3. QED
    BY <1>1, <1>2 DEF PassedBefore, FoldLeft, MapThenFoldSet

\* While the lock is free, _tryWakeUp wakes the first waiter.
LEMMA WakesFirst ==
  ASSUME NEW l \in Lock, NEW q, Queued(l, q), NEW c,
         c.exclusive = 0, c.counting = 0, NEW max \in Nat \ {0}
  PROVE  HeadWoken(TryWakeUp(l, q, c, max))
  <1> DEFINE t == TryWakeUp(l, q, c, max)
  <1>1. SUFFICES ASSUME t # <<>> PROVE t[1].woken
    BY DEF HeadWoken
  <1>2. q \in Seq(Waiter) /\ DOMAIN t = DOMAIN q /\ Queued(l, t)
    <2>1. q \in Seq(Waiter)
      BY DEF Queued
    <2>2. DOMAIN t = DOMAIN q
      BY DEF TryWakeUp
    <2>3. Queued(l, t)
      BY WakeKeeps
    <2>4. QED
      BY <2>1, <2>2, <2>3
  <1>3. 1 \in DOMAIN q
    <2>1. t \in Seq(Waiter)
      BY <1>2 DEF Queued
    <2> HIDE DEF t
    <2>2. QED
      BY <1>1, <1>2, <2>1
  <1>4. /\ PassedBefore(l, q, 1, "exclusive") = 0
        /\ PassedBefore(l, q, 1, "counting") = 0
    BY <1>2, NobodyBeforeFirst
  <1>5. Passes(l, q, c, max, 1)
    BY <1>4 DEF Passes
  <1>6. \A j \in 1..1 : Passes(l, q, c, max, j)
    BY <1>5
  <1>7. t[1] = [q[1] EXCEPT !.woken = q[1].woken \/ \A j \in 1..1 : Passes(l, q, c, max, j)]
    BY <1>3 DEF TryWakeUp
  <1>8. t[1] = [q[1] EXCEPT !.woken = TRUE]
    BY <1>6, <1>7
  <1>9. q[1] \in Waiter
    BY <1>2, <1>3
  <1>10. QED
    BY <1>8, <1>9 DEF Waiter

\* A requester that is not in the queue joins it at its end.
LEMMA AppendKeeps ==
  ASSUME NEW l, NEW q, Queued(l, q), NEW r \in Askers(l), r \notin InQueue(q)
  PROVE  LET t == Append(q, [who |-> r, woken |-> FALSE]) IN
         /\ Queued(l, t) /\ InQueue(t) = InQueue(q) \cup {r}
         /\ q # <<>> /\ HeadWoken(q) => HeadWoken(t)
  <1> DEFINE e == [who |-> r, woken |-> FALSE]
             t == Append(q, e)
  <1>1. q \in Seq(Waiter) /\ Len(q) \in Nat /\ DOMAIN q = 1..Len(q)
    BY DEF Queued
  <1>2. e \in Waiter /\ e.who = r
    BY DEF Waiter, Askers
  <1> HIDE DEF e
  <1>3. /\ t \in Seq(Waiter) /\ DOMAIN t = 1..(Len(q) + 1)
        /\ \A i \in 1..Len(q) : t[i] = q[i]
        /\ t[Len(q) + 1] = e
    BY <1>1, <1>2
  <1> HIDE DEF t
  <1>4. \A i \in DOMAIN t : i \in DOMAIN q \/ i = Len(q) + 1
    BY <1>1, <1>3
  <1>5. \A i \in DOMAIN q : i \in DOMAIN t /\ t[i] = q[i] /\ q[i].who # r
    BY <1>1, <1>3 DEF InQueue
  <1>6. Len(q) + 1 \in DOMAIN t
    BY <1>1, <1>3
  <1>7. Queued(l, t)
    <2>1. \A i \in DOMAIN t : t[i].who \in Askers(l)
      BY <1>2, <1>3, <1>4, <1>5 DEF Queued
    <2>2. \A i, j \in DOMAIN t : t[i].who = t[j].who => i = j
      BY <1>2, <1>3, <1>4, <1>5 DEF Queued
    <2>3. QED
      BY <1>3, <2>1, <2>2 DEF Queued
  <1>8. InQueue(t) = InQueue(q) \cup {r}
    <2>1. InQueue(t) \subseteq InQueue(q) \cup {r}
      BY <1>2, <1>3, <1>4, <1>5 DEF InQueue
    <2>2. InQueue(q) \subseteq InQueue(t)
      BY <1>5 DEF InQueue
    <2>3. r \in InQueue(t)
      BY <1>2, <1>3, <1>6 DEF InQueue
    <2>4. QED
      BY <2>1, <2>2, <2>3
  <1>9. q # <<>> /\ HeadWoken(q) => HeadWoken(t)
    <2>1. q # <<>> => 1 \in DOMAIN q
      BY <1>1
    <2>2. QED
      BY <1>5, <2>1 DEF HeadWoken
  <1>10. QED
    BY <1>7, <1>8, <1>9 DEF t, e

\* A woken waiter that waits again keeps its place.
LEMMA AsleepKeeps ==
  ASSUME NEW l, NEW q, Queued(l, q), NEW r \in Requester
  PROVE  LET t == [i \in DOMAIN q |->
                     IF q[i].who = r THEN [who |-> r, woken |-> FALSE] ELSE q[i]] IN
         /\ Queued(l, t) /\ InQueue(t) = InQueue(q)
         /\ HeadWoken(q) /\ (q # <<>> => q[1].who # r) => HeadWoken(t)
  <1> DEFINE t == [i \in DOMAIN q |->
                     IF q[i].who = r THEN [who |-> r, woken |-> FALSE] ELSE q[i]]
  <1>1. q \in Seq(Waiter) /\ Len(q) \in Nat /\ DOMAIN q = 1..Len(q)
    BY DEF Queued
  <1>2. ASSUME NEW i \in DOMAIN q
        PROVE  /\ t[i] \in Waiter /\ t[i].who = q[i].who
               /\ q[i].who # r => t[i] = q[i]
    <2>1. q[i] \in Waiter /\ [who |-> r, woken |-> FALSE] \in Waiter
      <3>1. q[i] \in Waiter
        BY <1>1
      <3>2. [who |-> r, woken |-> FALSE] \in Waiter
        BY DEF Waiter
      <3>3. QED
        BY <3>1, <3>2
    <2>2. CASE q[i].who = r
      <3>1. t[i] = [who |-> r, woken |-> FALSE]
        BY <2>2
      <3>2. QED
        BY <2>1, <2>2, <3>1
    <2>3. CASE q[i].who # r
      <3>1. t[i] = q[i]
        BY <2>3
      <3>2. QED
        BY <2>1, <2>3, <3>1
    <2>4. QED
      BY <2>2, <2>3
  <1>3. DOMAIN t = DOMAIN q /\ t = [i \in 1..Len(q) |-> t[i]]
    BY <1>1
  <1> HIDE DEF t
  <1>4. t \in Seq(Waiter)
    <2>1. t \in [1..Len(q) -> Waiter]
      BY <1>1, <1>2, <1>3, Zenon
    <2>2. QED
      BY <1>1, <2>1, SeqDef
  <1>5. Queued(l, t)
    <2>1. \A i \in DOMAIN t : i \in DOMAIN q /\ t[i].who = q[i].who
      BY <1>2, <1>3
    <2>2. QED
      BY <1>4, <2>1, Zenon DEF Queued
  <1>6. InQueue(t) = InQueue(q)
    BY <1>2, <1>3, Zenon DEF InQueue
  <1>7. HeadWoken(q) /\ (q # <<>> => q[1].who # r) => HeadWoken(t)
    <2>1. SUFFICES ASSUME HeadWoken(q), q # <<>> => q[1].who # r, t # <<>>
                   PROVE  t[1].woken
      BY DEF HeadWoken
    <2>2. 1 \in DOMAIN q /\ q # <<>>
      BY <1>1, <1>3, <1>4, <2>1
    <2>3. QED
      BY <1>2, <2>1, <2>2 DEF HeadWoken
  <1>8. QED
    BY <1>5, <1>6, <1>7 DEF t

-----------------------------------------------------------------------------
(* The inductive invariant, part one: what every lock keeps *)

\* A lock with limit m, queue q, owners o and counters c.
Lawful(l, m, q, o, c) ==
  /\ m \in MaxCounts[l]
  /\ Queued(l, q)
  /\ Compatible(l, o, c)
  /\ o = {} => HeadWoken(q)

LocksLawful ==
  \A l \in Lock : Lawful(l, maxCount[l], waiting[l], owners[l], claimed[l])

LocksTyped ==
  /\ maxCount \in [Lock -> Nat \ {0}]
  /\ waiting \in [Lock -> Seq(Waiter)]
  /\ owners \in [Lock -> SUBSET Requester]
  /\ claimed \in [Lock -> Counters]

\* The state of lawful locks has its types.
LEMMA LawfulIsTyped ==
  ASSUME NEW l \in Lock, NEW m, NEW q, NEW o, NEW c, Lawful(l, m, q, o, c)
  PROVE  m \in Nat \ {0} /\ q \in Seq(Waiter) /\ o \in SUBSET Requester /\ c \in Counters
  <1>1. m \in Nat \ {0}
    BY LocksAssumption DEF Lawful
  <1>2. q \in Seq(Waiter)
    BY DEF Lawful, Queued
  <1>3. o \in SUBSET Requester /\ c \in Counters
    BY DEF Lawful, Compatible, Askers
  <1>4. QED
    BY <1>1, <1>2, <1>3

\* A new limit: who may pass under a larger one is woken.
LEMMA SetMaxCountKeepsLocks ==
  ASSUME LocksLawful, LocksTyped, NEW k \in Lock, SetMaxCount(k)
  PROVE  /\ LocksLawful' /\ LocksTyped'
         /\ \A l \in Lock : InQueue(waiting'[l]) = InQueue(waiting[l])
  <1>1. PICK m \in MaxCounts[k] :
          /\ maxCount' = [maxCount EXCEPT ![k] = m]
          /\ waiting' = IF m > maxCount[k]
                        THEN [waiting EXCEPT ![k] = TryWakeUp(k, @, claimed[k], m)]
                        ELSE waiting
    BY DEF SetMaxCount
  <1>2. UNCHANGED <<owners, claimed>>
    BY DEF SetMaxCount
  <1>3. ASSUME NEW l \in Lock
        PROVE  /\ Lawful(l, maxCount'[l], waiting'[l], owners'[l], claimed'[l])
               /\ InQueue(waiting'[l]) = InQueue(waiting[l])
    <2>1. Lawful(l, maxCount[l], waiting[l], owners[l], claimed[l])
      BY DEF LocksLawful
    <2>2. maxCount'[l] \in MaxCounts[l]
      BY <1>1, <2>1 DEF LocksTyped, Lawful
    <2>3. \/ waiting'[l] = waiting[l]
          \/ waiting'[l] = TryWakeUp(l, waiting[l], claimed[l], m)
      BY <1>1 DEF LocksTyped
    <2>4. /\ Queued(l, waiting'[l]) /\ (HeadWoken(waiting[l]) => HeadWoken(waiting'[l]))
          /\ InQueue(waiting'[l]) = InQueue(waiting[l])
      BY <2>1, <2>3, WakeKeeps DEF Lawful
    <2>5. QED
      BY <1>2, <2>1, <2>2, <2>4 DEF Lawful
  <1>4. LocksLawful'
    BY <1>3 DEF LocksLawful
  <1>5. LocksTyped'
    <2>1. m \in Nat \ {0}
      BY LocksAssumption
    <2>2. maxCount' \in [Lock -> Nat \ {0}]
      BY <1>1, <2>1 DEF LocksTyped
    <2>3. \A l \in Lock : waiting'[l] \in Seq(Waiter)
      BY <1>3, LawfulIsTyped
    <2>4. waiting' = [l \in Lock |-> waiting'[l]]
      BY <1>1 DEF LocksTyped
    <2>5. waiting' \in [Lock -> Seq(Waiter)]
      BY <2>3, <2>4, Zenon
    <2>6. QED
      BY <1>2, <2>2, <2>5 DEF LocksTyped
  <1>6. QED
    BY <1>3, <1>4, <1>5

\* Releasing locks: where the lock is free, its first waiter is woken.
LEMMA ReleaseKeepsLocks ==
  ASSUME LocksLawful, LocksTyped, NEW r \in Requester, Release(r), maxCount' = maxCount
  PROVE  /\ LocksLawful' /\ LocksTyped'
         /\ \A l \in Lock : /\ owners'[l] = owners[l] \ {r}
                            /\ InQueue(waiting'[l]) = InQueue(waiting[l])
  <1> DEFINE freed == {l \in LocksOf(r) : r \in owners[l]}
  <1>1. /\ owners' = [l \in Lock |-> owners[l] \ {r}]
        /\ claimed' = [l \in Lock |->
             IF l \in freed THEN Charge(claimed[l], Need(r, l), -1) ELSE claimed[l]]
        /\ waiting' = [l \in Lock |->
             IF l \in freed THEN TryWakeUp(l, waiting[l], claimed'[l], maxCount[l])
                            ELSE waiting[l]]
    BY DEF Release
  <1>2. ASSUME NEW l \in Lock
        PROVE  /\ Lawful(l, maxCount'[l], waiting'[l], owners'[l], claimed'[l])
               /\ owners'[l] = owners[l] \ {r}
               /\ InQueue(waiting'[l]) = InQueue(waiting[l])
    <2>1. Lawful(l, maxCount[l], waiting[l], owners[l], claimed[l])
      BY DEF LocksLawful
    <2>2. owners'[l] = owners[l] \ {r} /\ maxCount'[l] = maxCount[l]
      BY <1>1
    <2>3. CASE r \in owners[l]
      <3>1. l \in freed
        BY <2>1, <2>3 DEF Lawful, Compatible, Askers
      <3>2. /\ claimed'[l] = Charge(claimed[l], Need(r, l), -1)
            /\ waiting'[l] = TryWakeUp(l, waiting[l], claimed'[l], maxCount[l])
        BY <1>1, <3>1
      <3>3. Compatible(l, owners'[l], claimed'[l])
        BY <2>1, <2>2, <2>3, <3>2, ReleaseKeeps DEF Lawful
      <3>4. /\ Queued(l, waiting'[l])
            /\ InQueue(waiting'[l]) = InQueue(waiting[l])
        BY <2>1, <3>2, WakeKeeps DEF Lawful
      <3>5. owners'[l] = {} => HeadWoken(waiting'[l])
        <4>1. SUFFICES ASSUME owners'[l] = {} PROVE HeadWoken(waiting'[l])
          OBVIOUS
        <4>2. claimed'[l].exclusive = 0 /\ claimed'[l].counting = 0
          BY <3>3, <4>1, FreeIsZero
        <4>3. maxCount[l] \in Nat \ {0}
          BY DEF LocksTyped
        <4>4. QED
          BY <2>1, <3>2, <4>2, <4>3, WakesFirst DEF Lawful
      <3>6. QED
        BY <2>1, <2>2, <3>3, <3>4, <3>5 DEF Lawful
    <2>4. CASE r \notin owners[l]
      <3>1. /\ claimed'[l] = claimed[l] /\ waiting'[l] = waiting[l]
            /\ owners'[l] = owners[l]
        BY <1>1, <2>4
      <3>2. QED
        BY <2>1, <2>2, <3>1
    <2>5. QED
      BY <2>3, <2>4
  <1>3. LocksLawful'
    BY <1>2 DEF LocksLawful
  <1>4. LocksTyped'
    <2>1. \A l \in Lock : /\ waiting'[l] \in Seq(Waiter) /\ claimed'[l] \in Counters
                          /\ owners'[l] \in SUBSET Requester
      BY <1>2, LawfulIsTyped
    <2>2. /\ waiting' = [l \in Lock |-> waiting'[l]] /\ claimed' = [l \in Lock |-> claimed'[l]]
          /\ owners' = [l \in Lock |-> owners'[l]]
      BY <1>1
    <2>3. /\ waiting' \in [Lock -> Seq(Waiter)] /\ claimed' \in [Lock -> Counters]
          /\ owners' \in [Lock -> SUBSET Requester]
      BY <2>1, <2>2, Zenon
    <2>4. QED
      BY <2>3 DEF LocksTyped
  <1>5. QED
    BY <1>2, <1>3, <1>4

\* Giving up waits: where the lock is free and the requester had been woken, its
\* turn passes on to the first of the others.
LEMMA AbandonKeepsLocks ==
  ASSUME LocksLawful, LocksTyped, NEW r, NEW ls,
         waiting' = Abandoned(r, ls), UNCHANGED <<maxCount, owners, claimed>>
  PROVE  /\ LocksLawful' /\ LocksTyped'
         /\ \A l \in Lock : InQueue(waiting'[l]) =
              IF l \in ls THEN InQueue(waiting[l]) \ {r} ELSE InQueue(waiting[l])
  <1>1. waiting' = [l \in Lock |->
          IF l \notin ls THEN waiting[l]
          ELSE IF [who |-> r, woken |-> TRUE] \in ToSet(waiting[l])
               THEN TryWakeUp(l, Without(waiting[l], r), claimed[l], maxCount[l])
               ELSE Without(waiting[l], r)]
    BY DEF Abandoned
  <1>2. ASSUME NEW l \in Lock
        PROVE  /\ Lawful(l, maxCount'[l], waiting'[l], owners'[l], claimed'[l])
               /\ InQueue(waiting'[l]) =
                    IF l \in ls THEN InQueue(waiting[l]) \ {r} ELSE InQueue(waiting[l])
    <2>1. /\ Lawful(l, maxCount[l], waiting[l], owners[l], claimed[l])
          /\ maxCount'[l] = maxCount[l] /\ owners'[l] = owners[l]
          /\ claimed'[l] = claimed[l]
      BY DEF LocksLawful
    <2> DEFINE left == Without(waiting[l], r)
    <2>2. /\ Queued(l, left) /\ InQueue(left) = InQueue(waiting[l]) \ {r}
          /\ HeadWoken(waiting[l]) /\ [who |-> r, woken |-> TRUE] \notin ToSet(waiting[l])
               => HeadWoken(left)
      BY <2>1, WithoutKeeps DEF Lawful
    <2> HIDE DEF left
    <2>3. CASE l \notin ls
      <3>1. waiting'[l] = waiting[l]
        BY <1>1, <2>3
      <3>2. QED
        BY <2>1, <2>3, <3>1
    <2>4. CASE l \in ls /\ [who |-> r, woken |-> TRUE] \notin ToSet(waiting[l])
      <3>1. waiting'[l] = left
        BY <1>1, <2>4 DEF left
      <3>2. QED
        BY <2>1, <2>2, <2>4, <3>1 DEF Lawful
    <2>5. CASE l \in ls /\ [who |-> r, woken |-> TRUE] \in ToSet(waiting[l])
      <3>1. waiting'[l] = TryWakeUp(l, left, claimed[l], maxCount[l])
        BY <1>1, <2>5 DEF left
      <3>2. Queued(l, waiting'[l]) /\ InQueue(waiting'[l]) = InQueue(left)
        BY <2>2, <3>1, WakeKeeps
      <3>3. owners[l] = {} => HeadWoken(waiting'[l])
        <4>1. SUFFICES ASSUME owners[l] = {} PROVE HeadWoken(waiting'[l])
          OBVIOUS
        <4>2. claimed[l].exclusive = 0 /\ claimed[l].counting = 0
          BY <2>1, <4>1, FreeIsZero DEF Lawful
        <4>3. maxCount[l] \in Nat \ {0}
          BY DEF LocksTyped
        <4>4. QED
          BY <2>2, <3>1, <4>2, <4>3, WakesFirst
      <3>4. QED
        BY <2>1, <2>2, <2>5, <3>2, <3>3 DEF Lawful
    <2>6. QED
      BY <2>3, <2>4, <2>5
  <1>3. LocksLawful'
    BY <1>2 DEF LocksLawful
  <1>4. LocksTyped'
    <2>1. \A l \in Lock : waiting'[l] \in Seq(Waiter)
      BY <1>2, LawfulIsTyped
    <2>2. waiting' = [l \in Lock |-> waiting'[l]]
      BY <1>1
    <2>3. waiting' \in [Lock -> Seq(Waiter)]
      BY <2>1, <2>2, Zenon
    <2>4. QED
      BY <2>3 DEF LocksTyped
  <1>5. QED
    BY <1>2, <1>3, <1>4

\* A lock that is granted has compatible owners with one owner more.
LEMMA GrantKeeps ==
  ASSUME NEW l \in Lock, Lawful(l, maxCount[l], waiting[l], owners[l], claimed[l]),
         NEW r \in Askers(l), r \notin owners[l], IsAvailable(r, l), LocksTyped
  PROVE  Compatible(l, owners[l] \cup {r}, Charge(claimed[l], Need(r, l), 1))
  <1> DEFINE ahead == Ahead(r, l)
             n == Need(r, l)
             c == claimed[l]
  <1>1. Grants(l, n, ahead)
    BY DEF IsAvailable
  <1>2. ahead \in Seq(Waiter)
    <2>1. waiting[l] \in Seq(Waiter)
      BY DEF Lawful, Queued
    <2>2. CASE Waits(r, l)
      <3> DEFINE p == Place(waiting[l], r)
      <3>1. p \in DOMAIN waiting[l]
        BY <2>2 DEF Waits, Place, Places
      <3>2. ahead = SubSeq(waiting[l], 1, p - 1)
        BY <2>2 DEF Ahead
      <3> HIDE DEF p, ahead
      <3>3. QED
        BY <2>1, <3>1, <3>2
    <2>3. CASE ~Waits(r, l)
      BY <2>1, <2>3 DEF Ahead
    <2>4. QED
      BY <2>2, <2>3
  <1> HIDE DEF ahead
  <1>3. Len(ahead) \in Nat
    BY <1>2
  <1>4. /\ n.count \in Nat /\ c.counting \in Nat /\ maxCount[l] \in Nat
        /\ maxCount[l] \in MaxCounts[l] /\ Compatible(l, owners[l], c)
    BY NeedIsAccess DEF LocksTyped, Counters, Lawful
  <1>5. c.exclusive = 0
    BY <1>1 DEF Grants
  <1>6. \/ n.mode = "counting" /\ c.counting + n.count <= maxCount[l]
        \/ n.mode = "exclusive" /\ c.counting = 0
    <2>1. CASE n.mode = "counting" /\ c.counting + Len(ahead) + n.count <= maxCount[l]
      BY <1>3, <1>4, <2>1
    <2>2. CASE n.mode = "exclusive" /\ c.counting = 0
      BY <2>2
    <2>3. QED
      BY <1>1, <2>1, <2>2 DEF Grants
  <1>7. QED
    BY <1>4, <1>5, <1>6, ClaimKeeps

\* Claiming all its locks, a requester that owns none joins their owners and
\* leaves their queues.
LEMMA ClaimAllKeepsLocks ==
  ASSUME LocksLawful, LocksTyped, NEW r \in Requester,
         \A l \in Lock : r \notin owners[l], ClaimAll(r)
  PROVE  /\ LocksLawful' /\ LocksTyped'
         /\ \A l \in Lock :
              /\ owners'[l] = IF l \in LocksOf(r) THEN owners[l] \cup {r} ELSE owners[l]
              /\ InQueue(waiting'[l]) =
                   IF l \in LocksOf(r) THEN InQueue(waiting[l]) \ {r} ELSE InQueue(waiting[l])
  <1>1. /\ \A l \in LocksOf(r) : IsAvailable(r, l)
        /\ owners' = [l \in Lock |->
             IF l \in LocksOf(r) THEN owners[l] \cup {r} ELSE owners[l]]
        /\ claimed' = [l \in Lock |->
             IF l \in LocksOf(r) THEN Charge(claimed[l], Need(r, l), 1) ELSE claimed[l]]
        /\ waiting' = [l \in Lock |->
             IF l \in LocksOf(r) THEN Without(waiting[l], r) ELSE waiting[l]]
        /\ maxCount' = maxCount
    BY DEF ClaimAll
  <1>2. ASSUME NEW l \in Lock
        PROVE  /\ Lawful(l, maxCount'[l], waiting'[l], owners'[l], claimed'[l])
               /\ InQueue(waiting'[l]) =
                    IF l \in LocksOf(r) THEN InQueue(waiting[l]) \ {r} ELSE InQueue(waiting[l])
    <2>1. /\ Lawful(l, maxCount[l], waiting[l], owners[l], claimed[l])
          /\ maxCount'[l] = maxCount[l]
      BY <1>1 DEF LocksLawful
    <2>2. CASE l \in LocksOf(r)
      <3>1. /\ owners'[l] = owners[l] \cup {r}
            /\ claimed'[l] = Charge(claimed[l], Need(r, l), 1)
            /\ waiting'[l] = Without(waiting[l], r)
        BY <1>1, <2>2
      <3>2. r \in Askers(l) /\ IsAvailable(r, l)
        BY <1>1, <2>2 DEF Askers
      <3>3. Compatible(l, owners'[l], claimed'[l])
        BY <2>1, <3>1, <3>2, GrantKeeps
      <3>4. Queued(l, waiting'[l]) /\ InQueue(waiting'[l]) = InQueue(waiting[l]) \ {r}
        <4> DEFINE left == Without(waiting[l], r)
        <4>1. Queued(l, waiting[l])
          BY <2>1 DEF Lawful
        <4>2. Queued(l, left) /\ InQueue(left) = InQueue(waiting[l]) \ {r}
          BY <4>1, WithoutKeeps
        <4> HIDE DEF left
        <4>3. waiting'[l] = left
          BY <3>1 DEF left
        <4>4. QED
          BY <4>2, <4>3
      <3>5. owners'[l] # {}
        BY <3>1
      <3>6. QED
        BY <2>1, <2>2, <3>3, <3>4, <3>5 DEF Lawful
    <2>3. CASE l \notin LocksOf(r)
      <3>1. /\ owners'[l] = owners[l] /\ claimed'[l] = claimed[l]
            /\ waiting'[l] = waiting[l]
        BY <1>1, <2>3
      <3>2. QED
        BY <2>1, <2>3, <3>1
    <2>4. QED
      BY <2>2, <2>3
  <1>3. LocksLawful'
    BY <1>2 DEF LocksLawful
  <1>4. LocksTyped'
    <2>1. \A l \in Lock : /\ waiting'[l] \in Seq(Waiter) /\ claimed'[l] \in Counters
                          /\ owners'[l] \in SUBSET Requester
      BY <1>2, LawfulIsTyped
    <2>2. /\ waiting' = [l \in Lock |-> waiting'[l]] /\ claimed' = [l \in Lock |-> claimed'[l]]
          /\ owners' = [l \in Lock |-> owners'[l]]
      BY <1>1
    <2>3. /\ waiting' \in [Lock -> Seq(Waiter)] /\ claimed' \in [Lock -> Counters]
          /\ owners' \in [Lock -> SUBSET Requester]
      BY <2>1, <2>2, Zenon
    <2>4. QED
      BY <1>1, <2>3 DEF LocksTyped
  <1>5. QED
    BY <1>1, <1>2, <1>3, <1>4

\* Places of a sequence have a first one among them.
LEMMA FirstPlace ==
  ASSUME NEW n \in Nat, NEW T \in SUBSET (1..n), T # {}
  PROVE  \E i \in T : \A j \in T : i <= j
  <1> DEFINE G == {S \in SUBSET (1..n) : S # {} => \E i \in S : \A j \in S : i <= j}
  <1>1. ASSUME NEW S \in SUBSET (1..n), \A x \in S : S \ {x} \in G
        PROVE  S \in G
    <2>1. SUFFICES ASSUME S # {} PROVE \E i \in S : \A j \in S : i <= j
      OBVIOUS
    <2>2. PICK x \in S : S \ {x} \in G
      BY <1>1, <2>1
    <2>3. CASE S \ {x} = {}
      <3>1. \A j \in S : x <= j
        BY <2>3
      <3>2. QED
        BY <3>1
    <2>4. CASE S \ {x} # {}
      <3>1. PICK i \in S \ {x} : \A j \in S \ {x} : i <= j
        BY <2>2, <2>4
      <3>2. CASE x < i
        <4>1. \A j \in S : x <= j
          BY <3>1, <3>2
        <4>2. QED
          BY <4>1
      <3>3. CASE ~(x < i)
        <4>1. \A j \in S : i <= j
          BY <3>1, <3>3
        <4>2. QED
          BY <4>1
      <3>4. QED
        BY <3>2, <3>3
    <2>5. QED
      BY <2>3, <2>4
  <1>2. IsFiniteSet(T)
    <2>1. IsFiniteSet(1..n)
      BY FS_Interval
    <2>2. QED
      BY <2>1, FS_Subset
  <1>3. T \in G
    <2> HIDE DEF G
    <2>1. QED
      BY <1>1, <1>2, FiniteInduction
  <1>4. QED
    BY <1>3

\* The lock a requester waits for next is one it asked for and cannot have.
LEMMA FirstUnavailableIsOne ==
  ASSUME NEW r \in Requester, \E l \in LocksOf(r) : ~IsAvailable(r, l)
  PROVE  FirstUnavailable(r) \in LocksOf(r) /\ ~IsAvailable(r, FirstUnavailable(r))
  <1> DEFINE unavailable == {i \in DOMAIN Locks[r] : ~IsAvailable(r, Locks[r][i].lock)}
             first == CHOOSE i \in unavailable : \A j \in unavailable : i <= j
  <1>1. unavailable # {}
    BY DEF LocksOf
  <1>2. Len(Locks[r]) \in Nat /\ unavailable \in SUBSET (1..Len(Locks[r]))
    BY LocksAssumption
  <1>3. \E i \in unavailable : \A j \in unavailable : i <= j
    <2> HIDE DEF unavailable
    <2>1. QED
      BY <1>1, <1>2, FirstPlace
  <1>4. first \in unavailable
    <2> HIDE DEF unavailable
    <2>1. QED
      BY <1>3
  <1>5. FirstUnavailable(r) = Locks[r][first].lock
    BY DEF FirstUnavailable
  <1>6. QED
    BY <1>4, <1>5 DEF LocksOf

\* Who is asked for is a lock.
LEMMA LocksOfAreLocks == \A r \in Requester : LocksOf(r) \subseteq Lock
  <1> SUFFICES ASSUME NEW r \in Requester, NEW i \in DOMAIN Locks[r]
               PROVE  Locks[r][i].lock \in Lock
    BY DEF LocksOf
  <1>1. Locks[r] \in Seq(Access)
    BY LocksAssumption
  <1>2. Locks[r][i] \in Access
    BY <1>1, ElementOfSeq
  <1>3. QED
    BY <1>2 DEF Access

\* A free lock is available to the first in its queue, and to anybody while the
\* queue is empty.
LEMMA FirstIsGranted ==
  ASSUME NEW l \in Lock, Lawful(l, maxCount[l], waiting[l], owners[l], claimed[l]),
         LocksTyped, NEW r \in Askers(l), owners[l] = {},
         waiting[l] # <<>> => waiting[l][1].who = r
  PROVE  IsAvailable(r, l)
  <1>1. claimed[l].exclusive = 0 /\ claimed[l].counting = 0
    BY FreeIsZero DEF Lawful
  <1>2. /\ waiting[l] \in Seq(Waiter) /\ Len(waiting[l]) \in Nat
        /\ DOMAIN waiting[l] = 1..Len(waiting[l])
    BY DEF Lawful, Queued
  <1>3. Ahead(r, l) = <<>>
    <2>1. CASE waiting[l] = <<>>
      <3>1. ~Waits(r, l)
        BY <2>1 DEF Waits, Places
      <3>2. QED
        BY <2>1, <3>1 DEF Ahead
    <2>2. CASE waiting[l] # <<>>
      <3>1. 1 \in DOMAIN waiting[l] /\ waiting[l][1].who = r
        BY <1>2, <2>2
      <3>2. Places(waiting[l], r) = {1}
        BY <3>1 DEF Places, Lawful, Queued
      <3>3. Waits(r, l) /\ Place(waiting[l], r) = 1
        BY <3>2 DEF Waits, Place
      <3>4. Ahead(r, l) = SubSeq(waiting[l], 1, 0)
        BY <3>3 DEF Ahead
      <3>5. SubSeq(waiting[l], 1, 0) = <<>>
        BY <1>2
      <3>6. QED
        BY <3>4, <3>5
    <2>3. QED
      BY <2>1, <2>2
  <1> DEFINE n == Need(r, l)
  <1>4. n.count \in Nat /\ n.mode \in Mode /\ n.count <= maxCount[l]
    BY NeedIsAccess DEF Lawful
  <1>5. Len(<<>>) = 0 /\ DOMAIN <<>> = {}
    OBVIOUS
  <1>6. Grants(l, n, <<>>)
    BY <1>1, <1>4, <1>5 DEF Grants, Mode
  <1>7. QED
    BY <1>3, <1>6 DEF IsAvailable

\* Waiting: a requester joins the queue of a lock it cannot have, or keeps its
\* place in it. The first waiter of a free lock can have it.
LEMMA WaitKeepsLocks ==
  ASSUME LocksLawful, LocksTyped, NEW r \in Requester, WaitForLock(r)
  PROVE  /\ LocksLawful' /\ LocksTyped'
         /\ FirstUnavailable(r) \in LocksOf(r)
         /\ \A l \in Lock : InQueue(waiting'[l]) =
              IF l = FirstUnavailable(r) THEN InQueue(waiting[l]) \cup {r}
                                         ELSE InQueue(waiting[l])
  <1> DEFINE k == FirstUnavailable(r)
             asleep == [i \in DOMAIN waiting[k] |->
               IF waiting[k][i].who = r THEN [who |-> r, woken |-> FALSE] ELSE waiting[k][i]]
             joined == Append(waiting[k], [who |-> r, woken |-> FALSE])
             q == IF Waits(r, k) THEN asleep ELSE joined
  <1>1. waiting' = [waiting EXCEPT ![k] = q]
    BY DEF WaitForLock
  <1>2. UNCHANGED <<maxCount, owners, claimed>>
    BY DEF WaitForLock
  <1>3. k \in LocksOf(r) /\ ~IsAvailable(r, k)
    BY FirstUnavailableIsOne DEF WaitForLock
  <1>4. k \in Lock /\ r \in Askers(k)
    BY <1>3, LocksOfAreLocks DEF Askers
  <1> HIDE DEF k
  <1>5. Lawful(k, maxCount[k], waiting[k], owners[k], claimed[k])
    BY <1>4 DEF LocksLawful
  <1>6. Waits(r, k) <=> r \in InQueue(waiting[k])
    BY DEF Waits, Places, InQueue
  <1>7. /\ Queued(k, q) /\ InQueue(q) = InQueue(waiting[k]) \cup {r}
        /\ owners[k] = {} => HeadWoken(q)
    <2>1. owners[k] = {} => waiting[k] # <<>> /\ waiting[k][1].who # r
      BY <1>3, <1>4, <1>5, FirstIsGranted
    <2>2. Queued(k, waiting[k]) /\ (owners[k] = {} => HeadWoken(waiting[k]))
      BY <1>5 DEF Lawful
    <2>3. CASE Waits(r, k)
      <3>1. /\ Queued(k, asleep) /\ InQueue(asleep) = InQueue(waiting[k])
            /\ HeadWoken(waiting[k]) /\ (waiting[k] # <<>> => waiting[k][1].who # r)
                 => HeadWoken(asleep)
        BY <2>2, AsleepKeeps
      <3> HIDE DEF asleep
      <3>2. q = asleep
        BY <2>3
      <3>3. QED
        BY <1>6, <2>1, <2>2, <2>3, <3>1, <3>2
    <2>4. CASE ~Waits(r, k)
      <3>1. /\ Queued(k, joined) /\ InQueue(joined) = InQueue(waiting[k]) \cup {r}
            /\ waiting[k] # <<>> /\ HeadWoken(waiting[k]) => HeadWoken(joined)
        BY <1>4, <1>6, <2>2, <2>4, AppendKeeps
      <3> HIDE DEF joined
      <3>2. q = joined
        BY <2>4
      <3>3. QED
        BY <2>1, <2>2, <3>1, <3>2
    <2>5. QED
      BY <2>3, <2>4
  <1> HIDE DEF q
  <1>8. ASSUME NEW l \in Lock
        PROVE  /\ Lawful(l, maxCount'[l], waiting'[l], owners'[l], claimed'[l])
               /\ InQueue(waiting'[l]) =
                    IF l = k THEN InQueue(waiting[l]) \cup {r} ELSE InQueue(waiting[l])
    <2>1. /\ Lawful(l, maxCount[l], waiting[l], owners[l], claimed[l])
          /\ maxCount'[l] = maxCount[l] /\ owners'[l] = owners[l]
          /\ claimed'[l] = claimed[l]
      BY <1>2 DEF LocksLawful
    <2>2. waiting'[l] = IF l = k THEN q ELSE waiting[l]
      BY <1>1 DEF LocksTyped
    <2>3. CASE l = k
      BY <1>7, <2>1, <2>2, <2>3 DEF Lawful
    <2>4. CASE l # k
      BY <2>1, <2>2, <2>4
    <2>5. QED
      BY <2>3, <2>4
  <1>9. LocksLawful'
    BY <1>8 DEF LocksLawful
  <1>10. LocksTyped'
    <2>1. q \in Seq(Waiter)
      BY <1>7 DEF Queued
    <2>2. waiting' \in [Lock -> Seq(Waiter)]
      BY <1>1, <2>1 DEF LocksTyped
    <2>3. QED
      BY <1>2, <2>2 DEF LocksTyped
  <1>11. QED
    BY <1>3, <1>8, <1>9, <1>10 DEF k

-----------------------------------------------------------------------------
(* The inductive invariant, part two: who owns locks, and when *)

\* r owns all the locks it asked for.
Owns(r) == \A l \in LocksOf(r) : r \in owners[l]

\* A step that cannot run in a build that goes on without its locks: it does not
\* run in a stopped build, or its build cannot be stopped.
Sheltered(s) == s \in AlwaysRun => Of[s] \notin MayStop

\* What holds of the build of an active step.
Nested(s) ==
  /\ phase[Of[s]] = "running"
  /\ Sheltered(s) => Owns(Of[s])

StepHolds(s) ==
  /\ phase[s] = "running" => Owns(s) /\ acquiring[s] = <<>>
  /\ Active(s) => Nested(s)

BuildHolds(b) == phase[b] = "running" /\ b \notin stopped => Owns(b)

\* Only who runs, or is at its end, owns a lock.
OwnersLive(r) ==
  (\E l \in Lock : r \in owners[l]) => phase[r] \in {"running", "finishing", "recorded"}

LocksHeld ==
  /\ \A r \in Requester : OwnersLive(r)
  /\ \A s \in Step : StepHolds(s)
  /\ \A b \in Build : BuildHolds(b)
  /\ stopped \cap Build \subseteq MayStop

\* The types of what is not about locks.
OthersTyped ==
  /\ phase \in [Requester -> Phase]
  /\ acquiring \in [Requester -> Seq(Lock)]
  /\ stopped \subseteq Requester
  /\ lost \subseteq Build
  /\ pending \subseteq Build

IInv == LocksTyped /\ OthersTyped /\ LocksLawful /\ LocksHeld

\* A step of the system in which nobody but M moves on: the others keep their
\* phase, or are woken, and keep their locks and what they acquire.
OthersKeep(M) ==
  /\ \A x \in Requester \ M :
       /\ phase'[x] = phase[x] \/ (phase[x] = "waiting" /\ phase'[x] = "woken")
       /\ acquiring'[x] = acquiring[x]
       /\ \A l \in Lock : x \in owners'[l] <=> x \in owners[l]
  /\ stopped \subseteq stopped'
  /\ stopped' \cap Build \subseteq MayStop

\* The build of an active step stays as it is while others move.
LEMMA NestedStays ==
  ASSUME NEW M, OthersKeep(M), NEW s \in Step, Of[s] \notin M, Nested(s)
  PROVE  Nested(s)'
  <1>1. Of[s] \in Requester /\ LocksOf(Of[s]) \subseteq Lock
    BY LocksAssumption, LocksOfAreLocks DEF Requester
  <1>2. phase'[Of[s]] = "running"
    BY <1>1 DEF OthersKeep, Nested
  <1>3. Owns(Of[s]) => Owns(Of[s])'
    BY <1>1 DEF OthersKeep, Owns
  <1>4. QED
    BY <1>2, <1>3 DEF Nested, Sheltered

\* Locks stay held, if they do for those who move and for the steps of a build
\* that does.
LEMMA HeldStays ==
  ASSUME LocksHeld, NEW M, OthersKeep(M),
         \A r \in M \cap Requester : OwnersLive(r)',
         \A s \in M \cap Step : StepHolds(s)',
         \A b \in M \cap Build :
           /\ BuildHolds(b)'
           /\ \A s \in StepsOf(b) \ M : Active(s) => Nested(s)'
  PROVE  LocksHeld'
  <1>1. ASSUME NEW r \in Requester
        PROVE  OwnersLive(r)'
    <2>1. CASE r \in M
      BY <2>1
    <2>2. CASE r \notin M
      <3>1. OwnersLive(r)
        BY DEF LocksHeld
      <3>2. QED
        BY <2>2, <3>1 DEF OthersKeep, OwnersLive
    <2>3. QED
      BY <2>1, <2>2
  <1>2. ASSUME NEW s \in Step
        PROVE  StepHolds(s)'
    <2>1. CASE s \in M
      BY <2>1
    <2>2. CASE s \notin M
      <3>1. StepHolds(s) /\ s \in Requester /\ LocksOf(s) \subseteq Lock
        BY LocksOfAreLocks DEF LocksHeld, Requester
      <3>2. phase'[s] = phase[s] \/ (phase[s] = "waiting" /\ phase'[s] = "woken")
        BY <2>2, <3>1 DEF OthersKeep
      <3>3. phase'[s] = "running" => phase[s] = "running"
        BY <3>2
      <3>4. Active(s)' => Active(s)
        BY <3>2 DEF Active
      <3>5. Owns(s) => Owns(s)'
        BY <2>2, <3>1 DEF OthersKeep, Owns
      <3>6. Active(s)' => Nested(s)'
        <4>1. CASE Of[s] \in M
          <5>1. Of[s] \in M \cap Build /\ s \in StepsOf(Of[s]) \ M
            BY <2>2, <4>1, LocksAssumption DEF StepsOf
          <5>2. QED
            BY <3>4, <5>1
        <4>2. CASE Of[s] \notin M
          BY <3>1, <3>4, <4>2, NestedStays DEF StepHolds
        <4>3. QED
          BY <4>1, <4>2
      <3>7. acquiring'[s] = acquiring[s]
        BY <2>2, <3>1 DEF OthersKeep
      <3>8. QED
        BY <3>1, <3>3, <3>5, <3>6, <3>7 DEF StepHolds
    <2>3. QED
      BY <2>1, <2>2
  <1>3. ASSUME NEW b \in Build
        PROVE  BuildHolds(b)'
    <2>1. CASE b \in M
      BY <2>1
    <2>2. CASE b \notin M
      <3>1. BuildHolds(b) /\ b \in Requester /\ LocksOf(b) \subseteq Lock
        BY LocksOfAreLocks DEF LocksHeld, Requester
      <3>2. phase'[b] = "running" => phase[b] = "running"
        BY <2>2, <3>1 DEF OthersKeep
      <3>3. Owns(b) => Owns(b)'
        BY <2>2, <3>1 DEF OthersKeep, Owns
      <3>4. b \notin stopped' => b \notin stopped
        BY DEF OthersKeep
      <3>5. QED
        BY <3>1, <3>2, <3>3, <3>4 DEF BuildHolds
    <2>3. QED
      BY <2>1, <2>2
  <1>4. stopped' \cap Build \subseteq MayStop
    BY DEF OthersKeep
  <1>5. QED
    BY <1>1, <1>2, <1>3, <1>4 DEF LocksHeld

\* Waking waiters wakes waiters only.
LEMMA RingsWakes ==
  ASSUME phase \in [Requester -> Phase], NEW w
  PROVE  /\ Rings(w) \in [Requester -> Phase]
         /\ \A x \in Requester : \/ Rings(w)[x] = phase[x]
                                 \/ phase[x] = "waiting" /\ Rings(w)[x] = "woken"
  BY DEF Rings, Phase

\* The types are those of the locks and of the rest.
LEMMA TypesAreTwo == TypeOK <=> LocksTyped /\ OthersTyped
  BY DEF TypeOK, LocksTyped, OthersTyped, Counters

\* A step that leaves the locks alone.
LEMMA SameLocks ==
  ASSUME LocksLawful, LocksTyped, UNCHANGED <<maxCount, waiting, owners, claimed>>
  PROVE  LocksLawful' /\ LocksTyped'
  BY DEF LocksLawful, LocksTyped

\* A build that does not run has no active step.
LEMMA IdleBuild ==
  ASSUME LocksHeld, NEW b \in Build, phase[b] # "running", NEW s \in StepsOf(b)
  PROVE  ~Active(s)
  BY DEF LocksHeld, StepHolds, Nested, StepsOf

\* Who neither runs nor is at its end owns nothing.
LEMMA OwnsNothing ==
  ASSUME LocksHeld, NEW r \in Requester, phase[r] \notin {"running", "finishing", "recorded"}
  PROVE  \A l \in Lock : r \notin owners[l]
  BY DEF LocksHeld, OwnersLive

\* A build and its steps are different requesters.
LEMMA StepsAreNotBuilds ==
  ASSUME NEW s \in Step
  PROVE  s \in Requester /\ s \notin Build /\ Of[s] \in Build /\ Of[s] \in Requester /\ Of[s] # s
  BY LocksAssumption DEF Requester

\* Somebody who moves alone.
LEMMA MovesAlone ==
  ASSUME OthersTyped, LocksHeld, NEW r \in Requester, NEW v, NEW w,
         phase' = [phase EXCEPT ![r] = v] \/ phase' = [Rings(w) EXCEPT ![r] = v],
         \A x \in Requester \ {r} : acquiring'[x] = acquiring[x],
         \A l \in Lock : \A x \in Requester \ {r} : x \in owners'[l] <=> x \in owners[l],
         stopped' = stopped
  PROVE  OthersKeep({r}) /\ phase'[r] = v
  <1>1. phase \in [Requester -> Phase] /\ Rings(w) \in [Requester -> Phase]
    BY RingsWakes DEF OthersTyped
  <1>2. phase'[r] = v
    BY <1>1
  <1>3. \A x \in Requester \ {r} :
          phase'[x] = phase[x] \/ (phase[x] = "waiting" /\ phase'[x] = "woken")
    BY <1>1, RingsWakes
  <1>4. QED
    BY <1>2, <1>3 DEF OthersKeep, LocksHeld

\* setMaxCount.
LEMMA SetMaxCountKeeps ==
  ASSUME IInv, NEW k \in Lock, SetMaxCount(k)
  PROVE  IInv'
  <1>1. LocksTyped /\ OthersTyped /\ LocksLawful /\ LocksHeld
    BY DEF IInv
  <1>2. LocksLawful' /\ LocksTyped'
    BY <1>1, SetMaxCountKeepsLocks
  <1>3. /\ phase' = Rings(waiting')
        /\ UNCHANGED <<owners, claimed, acquiring, stopped, lost, pending>>
    BY DEF SetMaxCount
  <1>4. OthersTyped'
    BY <1>1, <1>3, RingsWakes DEF OthersTyped
  <1>5. OthersKeep({})
    BY <1>1, <1>3, RingsWakes DEF OthersKeep, LocksHeld, OthersTyped
  <1>6. LocksHeld'
    BY <1>1, <1>5, HeldStays
  <1>7. QED
    BY <1>2, <1>4, <1>6 DEF IInv

\* A stopped requester goes on without its locks.
LEMMA AcquireStoppedKeeps ==
  ASSUME IInv, NEW r \in Requester, AcquireStopped(r)
  PROVE  IInv'
  <1>1. LocksTyped /\ OthersTyped /\ LocksLawful /\ LocksHeld
    BY DEF IInv
  <1>2. /\ phase[r] \in {"starting", "woken"} /\ r \in stopped
        /\ phase' = [phase EXCEPT ![r] = GoesOn(r)]
        /\ acquiring' = [acquiring EXCEPT ![r] = ForgetsLock(r)]
        /\ UNCHANGED <<maxCount, waiting, owners, claimed, stopped, lost, pending>>
    BY DEF AcquireStopped
  <1>3. LocksLawful' /\ LocksTyped'
    BY <1>1, <1>2, SameLocks
  <1>4. OthersTyped'
    <2>1. GoesOn(r) \in Phase
      BY DEF GoesOn, Phase
    <2>2. ForgetsLock(r) \in Seq(Lock)
      BY <1>1 DEF ForgetsLock, OthersTyped
    <2>3. QED
      BY <1>1, <1>2, <2>1, <2>2 DEF OthersTyped
  <1>5. OthersKeep({r}) /\ phase'[r] = GoesOn(r)
    BY <1>1, <1>2, MovesAlone DEF OthersTyped
  <1>6. OwnersLive(r)'
    BY <1>1, <1>2, OwnsNothing DEF OwnersLive
  <1>7. CASE r \in Step
    <2>1. Active(r) /\ Nested(r) /\ Of[r] \notin {r}
      BY <1>1, <1>2, <1>7, StepsAreNotBuilds DEF Active, LocksHeld, StepHolds
    <2>2. Nested(r)'
      BY <1>5, <1>7, <2>1, NestedStays
    <2>3. StepHolds(r)'
      BY <1>5, <1>7, <2>2, StepsAreNotBuilds DEF StepHolds, GoesOn
    <2>4. LocksHeld'
      BY <1>1, <1>5, <1>6, <1>7, <2>3, StepsAreNotBuilds, HeldStays
    <2>5. QED
      BY <1>3, <1>4, <2>4 DEF IInv
  <1>8. CASE r \in Build
    <2>1. BuildHolds(r)'
      BY <1>2 DEF BuildHolds
    <2>2. \A s \in StepsOf(r) : ~Active(s)
      BY <1>1, <1>2, <1>8, IdleBuild
    <2>3. LocksHeld'
      BY <1>1, <1>5, <1>6, <1>8, <2>1, <2>2, StepsAreNotBuilds, HeldStays
    <2>4. QED
      BY <1>3, <1>4, <2>3 DEF IInv
  <1>9. QED
    BY <1>7, <1>8 DEF Requester

\* A requester claims all its locks.
LEMMA ClaimAllKeeps ==
  ASSUME IInv, NEW r \in Requester, ClaimAll(r)
  PROVE  IInv'
  <1>1. LocksTyped /\ OthersTyped /\ LocksLawful /\ LocksHeld
    BY DEF IInv
  <1>2. /\ phase[r] \in {"starting", "woken"}
        /\ phase' = [phase EXCEPT ![r] = "running"]
        /\ acquiring' = [acquiring EXCEPT ![r] = <<>>]
        /\ UNCHANGED <<maxCount, stopped, lost, pending>>
    BY DEF ClaimAll, Acquires
  <1>3. \A l \in Lock : r \notin owners[l]
    BY <1>1, <1>2, OwnsNothing
  <1>4. /\ LocksLawful' /\ LocksTyped'
        /\ \A l \in Lock :
             owners'[l] = IF l \in LocksOf(r) THEN owners[l] \cup {r} ELSE owners[l]
    BY <1>1, <1>3, ClaimAllKeepsLocks
  <1>5. OthersTyped'
    <2>1. "running" \in Phase /\ <<>> \in Seq(Lock)
      BY DEF Phase
    <2>2. QED
      BY <1>1, <1>2, <2>1 DEF OthersTyped
  <1>6. OthersKeep({r}) /\ phase'[r] = "running"
    <2>1. \A x \in Requester \ {r} : acquiring'[x] = acquiring[x]
      BY <1>1, <1>2 DEF OthersTyped
    <2>2. \A l \in Lock : \A x \in Requester \ {r} : x \in owners'[l] <=> x \in owners[l]
      BY <1>4
    <2>3. QED
      BY <1>1, <1>2, <2>1, <2>2, MovesAlone
  <1>7. OwnersLive(r)' /\ Owns(r)' /\ acquiring'[r] = <<>>
    <2>1. OwnersLive(r)'
      BY <1>6 DEF OwnersLive
    <2>2. Owns(r)'
      BY <1>4, LocksOfAreLocks DEF Owns
    <2>3. acquiring'[r] = <<>>
      BY <1>1, <1>2 DEF OthersTyped
    <2>4. QED
      BY <2>1, <2>2, <2>3
  <1>8. CASE r \in Step
    <2>1. Active(r) /\ Nested(r) /\ Of[r] \notin {r}
      BY <1>1, <1>2, <1>8, StepsAreNotBuilds DEF Active, LocksHeld, StepHolds
    <2>2. Nested(r)'
      BY <1>6, <1>8, <2>1, NestedStays
    <2>3. StepHolds(r)'
      BY <1>7, <2>2 DEF StepHolds
    <2>4. LocksHeld'
      BY <1>1, <1>6, <1>7, <1>8, <2>3, StepsAreNotBuilds, HeldStays
    <2>5. QED
      BY <1>4, <1>5, <2>4 DEF IInv
  <1>9. CASE r \in Build
    <2>1. BuildHolds(r)'
      BY <1>7 DEF BuildHolds
    <2>2. \A s \in StepsOf(r) : ~Active(s)
      BY <1>1, <1>2, <1>9, IdleBuild
    <2>3. LocksHeld'
      BY <1>1, <1>6, <1>7, <1>9, <2>1, <2>2, StepsAreNotBuilds, HeldStays
    <2>4. QED
      BY <1>4, <1>5, <2>3 DEF IInv
  <1>10. QED
    BY <1>8, <1>9 DEF Requester

\* A requester waits for the first of its locks that it cannot have.
LEMMA WaitForLockKeeps ==
  ASSUME IInv, NEW r \in Requester, WaitForLock(r)
  PROVE  IInv'
  <1>1. LocksTyped /\ OthersTyped /\ LocksLawful /\ LocksHeld
    BY DEF IInv
  <1> DEFINE a == Append(ForgetsLock(r), FirstUnavailable(r))
  <1>2. /\ phase[r] \in {"starting", "woken"}
        /\ phase' = [phase EXCEPT ![r] = "waiting"]
        /\ acquiring' = [acquiring EXCEPT ![r] = a]
        /\ UNCHANGED <<maxCount, owners, claimed, stopped, lost, pending>>
    BY DEF WaitForLock, Acquires
  <1>3. LocksLawful' /\ LocksTyped' /\ FirstUnavailable(r) \in LocksOf(r)
    BY <1>1, WaitKeepsLocks
  <1>4. OthersTyped'
    <2>1. "waiting" \in Phase
      BY DEF Phase
    <2>2. ForgetsLock(r) \in Seq(Lock) /\ FirstUnavailable(r) \in Lock
      BY <1>1, <1>3, LocksOfAreLocks DEF ForgetsLock, OthersTyped
    <2>3. a \in Seq(Lock)
      BY <2>2
    <2> HIDE DEF a
    <2>4. QED
      BY <1>1, <1>2, <2>1, <2>3 DEF OthersTyped
  <1> HIDE DEF a
  <1>5. OthersKeep({r}) /\ phase'[r] = "waiting"
    BY <1>1, <1>2, MovesAlone DEF OthersTyped
  <1>6. OwnersLive(r)'
    BY <1>1, <1>2, OwnsNothing DEF OwnersLive
  <1>7. CASE r \in Step
    <2>1. Active(r) /\ Nested(r) /\ Of[r] \notin {r}
      BY <1>1, <1>2, <1>7, StepsAreNotBuilds DEF Active, LocksHeld, StepHolds
    <2>2. Nested(r)'
      BY <1>5, <1>7, <2>1, NestedStays
    <2>3. StepHolds(r)'
      BY <1>5, <2>2 DEF StepHolds
    <2>4. LocksHeld'
      BY <1>1, <1>5, <1>6, <1>7, <2>3, StepsAreNotBuilds, HeldStays
    <2>5. QED
      BY <1>3, <1>4, <2>4 DEF IInv
  <1>8. CASE r \in Build
    <2>1. BuildHolds(r)'
      BY <1>5 DEF BuildHolds
    <2>2. \A s \in StepsOf(r) : ~Active(s)
      BY <1>1, <1>2, <1>8, IdleBuild
    <2>3. LocksHeld'
      BY <1>1, <1>5, <1>6, <1>8, <2>1, <2>2, StepsAreNotBuilds, HeldStays
    <2>4. QED
      BY <1>3, <1>4, <2>3 DEF IInv
  <1>9. QED
    BY <1>7, <1>8 DEF Requester

\* The distributor starts a queued build, or leaves it in the queue.
LEMMA DistributeKeeps ==
  ASSUME IInv, NEW b \in Build, Distribute(b)
  PROVE  IInv'
  <1>1. LocksTyped /\ OthersTyped /\ LocksLawful /\ LocksHeld /\ b \in Requester
    BY DEF IInv, Requester
  <1> DEFINE v == IF CanStartBuild(b) THEN "starting" ELSE phase[b]
  <1>2. /\ phase[b] = "queued" /\ pending' = pending \ {b}
        /\ phase' = [phase EXCEPT ![b] = v]
        /\ UNCHANGED <<maxCount, waiting, owners, claimed, acquiring, stopped, lost>>
    BY DEF Distribute
  <1>3. v \in {"queued", "starting"}
    BY <1>2
  <1> HIDE DEF v
  <1>4. LocksLawful' /\ LocksTyped'
    BY <1>1, <1>2, SameLocks
  <1>5. OthersTyped'
    <2>1. v \in Phase
      BY <1>3 DEF Phase
    <2>2. QED
      BY <1>1, <1>2, <2>1 DEF OthersTyped
  <1>6. OthersKeep({b}) /\ phase'[b] = v
    BY <1>1, <1>2, MovesAlone DEF OthersTyped
  <1>7. OwnersLive(b)'
    BY <1>1, <1>2, OwnsNothing DEF OwnersLive
  <1>8. BuildHolds(b)' /\ \A s \in StepsOf(b) : ~Active(s)
    BY <1>1, <1>2, <1>3, <1>6, IdleBuild DEF BuildHolds
  <1>9. LocksHeld'
    BY <1>1, <1>6, <1>7, <1>8, StepsAreNotBuilds, HeldStays
  <1>10. QED
    BY <1>4, <1>5, <1>9 DEF IInv

\* A step starts in a build that holds its locks, or that was stopped.
LEMMA StartStepKeeps ==
  ASSUME IInv, NEW s \in Step, StartStep(s)
  PROVE  IInv'
  <1>1. LocksTyped /\ OthersTyped /\ LocksLawful /\ LocksHeld /\ s \in Requester
    BY StepsAreNotBuilds DEF IInv
  <1>2. /\ phase[s] = "queued" /\ phase[Of[s]] = "running"
        /\ Of[s] \in stopped => s \in AlwaysRun
        /\ phase' = [phase EXCEPT ![s] = "starting"]
        /\ UNCHANGED <<maxCount, waiting, owners, claimed, acquiring, stopped, lost,
                       pending>>
    BY DEF StartStep
  <1>3. LocksLawful' /\ LocksTyped'
    BY <1>1, <1>2, SameLocks
  <1>4. OthersTyped'
    <2>1. "starting" \in Phase
      BY DEF Phase
    <2>2. QED
      BY <1>1, <1>2, <2>1 DEF OthersTyped
  <1>5. OthersKeep({s}) /\ phase'[s] = "starting"
    BY <1>1, <1>2, MovesAlone DEF OthersTyped
  <1>6. OwnersLive(s)'
    BY <1>1, <1>2, OwnsNothing DEF OwnersLive
  <1>7. Nested(s)
    <2>1. Sheltered(s) => Of[s] \notin stopped
      BY <1>1, <1>2, StepsAreNotBuilds DEF Sheltered, LocksHeld
    <2>2. Sheltered(s) => Owns(Of[s])
      BY <1>1, <1>2, <2>1, StepsAreNotBuilds DEF LocksHeld, BuildHolds
    <2>3. QED
      BY <1>2, <2>2 DEF Nested
  <1>8. StepHolds(s)'
    <2>1. Nested(s)'
      BY <1>5, <1>7, StepsAreNotBuilds, NestedStays
    <2>2. QED
      BY <1>5, <2>1 DEF StepHolds
  <1>9. LocksHeld'
    BY <1>1, <1>5, <1>6, <1>8, StepsAreNotBuilds, HeldStays
  <1>10. QED
    BY <1>3, <1>4, <1>9 DEF IInv

\* A step ends, with whatever locks it owns.
LEMMA FinishStepKeeps ==
  ASSUME IInv, NEW s \in Step, FinishStep(s)
  PROVE  IInv'
  <1>1. LocksTyped /\ OthersTyped /\ LocksLawful /\ LocksHeld /\ s \in Requester
    BY StepsAreNotBuilds DEF IInv
  <1>2. /\ Release(s)
        /\ phase' = [Rings(waiting') EXCEPT ![s] = "done"]
        /\ UNCHANGED <<maxCount, acquiring, stopped, lost, pending>>
    BY DEF FinishStep
  <1>3. /\ LocksLawful' /\ LocksTyped'
        /\ \A l \in Lock : owners'[l] = owners[l] \ {s}
    BY <1>1, <1>2, ReleaseKeepsLocks
  <1>4. OthersTyped'
    <2>1. "done" \in Phase /\ Rings(waiting') \in [Requester -> Phase]
      BY <1>1, RingsWakes DEF Phase, OthersTyped
    <2>2. QED
      BY <1>1, <1>2, <2>1 DEF OthersTyped
  <1>5. OthersKeep({s}) /\ phase'[s] = "done"
    <2>1. \A l \in Lock : \A x \in Requester \ {s} : x \in owners'[l] <=> x \in owners[l]
      BY <1>3
    <2>2. s \in Requester /\ phase' = [Rings(waiting') EXCEPT ![s] = "done"]
      BY <1>2 DEF Requester
    <2>3. QED
      BY <1>1, <1>2, <2>1, <2>2, MovesAlone
  <1>6. OwnersLive(s)'
    BY <1>3 DEF OwnersLive
  <1>7. StepHolds(s)'
    BY <1>5 DEF StepHolds, Active
  <1>8. LocksHeld'
    BY <1>1, <1>5, <1>6, <1>7, StepsAreNotBuilds, HeldStays
  <1>9. QED
    BY <1>3, <1>4, <1>8 DEF IInv

\* A build comes to its end once no step of its is active.
LEMMA FinishBuildKeeps ==
  ASSUME IInv, NEW b \in Build, FinishBuild(b)
  PROVE  IInv'
  <1>1. LocksTyped /\ OthersTyped /\ LocksLawful /\ LocksHeld /\ b \in Requester
    BY DEF IInv, Requester
  <1>2. /\ \/ phase[b] = "running" /\ CurrentStep(b) = {}
           \/ phase[b] = "starting"
        /\ phase' = [phase EXCEPT ![b] = "finishing"]
        /\ UNCHANGED <<maxCount, waiting, owners, claimed, acquiring, stopped, lost,
                       pending>>
    BY DEF FinishBuild
  <1>3. LocksLawful' /\ LocksTyped'
    BY <1>1, <1>2, SameLocks
  <1>4. OthersTyped'
    <2>1. "finishing" \in Phase
      BY DEF Phase
    <2>2. QED
      BY <1>1, <1>2, <2>1 DEF OthersTyped
  <1>5. OthersKeep({b}) /\ phase'[b] = "finishing"
    BY <1>1, <1>2, MovesAlone DEF OthersTyped
  <1>6. OwnersLive(b)' /\ BuildHolds(b)'
    BY <1>5 DEF OwnersLive, BuildHolds
  <1>7. \A s \in StepsOf(b) : ~Active(s)
    <2>1. CASE CurrentStep(b) = {}
      BY <2>1 DEF CurrentStep
    <2>2. CASE phase[b] = "starting"
      BY <1>1, <2>2, IdleBuild
    <2>3. QED
      BY <1>2, <2>1, <2>2
  <1>8. LocksHeld'
    BY <1>1, <1>5, <1>6, <1>7, StepsAreNotBuilds, HeldStays
  <1>9. QED
    BY <1>3, <1>4, <1>8 DEF IInv

\* The requests that are to be looked at again are builds.
LEMMA RescheduleIsTyped ==
  ASSUME OthersTyped, NEW b, NEW over, Reschedule(b, over)
  PROVE  pending' \subseteq Build
  BY DEF Reschedule, OthersTyped

\* A build at its end releases its locks.
LEMMA ReleaseLocksKeeps ==
  ASSUME IInv, NEW b \in Build, ReleaseLocks(b)
  PROVE  IInv'
  <1>1. LocksTyped /\ OthersTyped /\ LocksLawful /\ LocksHeld /\ b \in Requester
    BY DEF IInv, Requester
  <1> DEFINE v == IF phase[b] = "recorded" THEN "done" ELSE "released"
  <1>2. /\ phase[b] \in {"finishing", "recorded"}
        /\ Release(b)
        /\ phase' = [Rings(waiting') EXCEPT ![b] = v]
        /\ Reschedule(b, phase[b] = "recorded")
        /\ UNCHANGED <<maxCount, acquiring, stopped, lost>>
    BY DEF ReleaseLocks
  <1>3. v \in {"done", "released"}
    OBVIOUS
  <1> HIDE DEF v
  <1>4. /\ LocksLawful' /\ LocksTyped'
        /\ \A l \in Lock : owners'[l] = owners[l] \ {b}
    BY <1>1, <1>2, ReleaseKeepsLocks
  <1>5. OthersTyped'
    <2>1. v \in Phase /\ Rings(waiting') \in [Requester -> Phase]
      BY <1>1, <1>3, RingsWakes DEF Phase, OthersTyped
    <2>2. pending' \subseteq Build
      BY <1>1, <1>2, RescheduleIsTyped
    <2>3. QED
      BY <1>1, <1>2, <2>1, <2>2 DEF OthersTyped
  <1>6. OthersKeep({b}) /\ phase'[b] = v
    <2>1. \A l \in Lock : \A x \in Requester \ {b} : x \in owners'[l] <=> x \in owners[l]
      BY <1>4
    <2>2. QED
      BY <1>1, <1>2, <2>1, MovesAlone
  <1>7. OwnersLive(b)' /\ BuildHolds(b)'
    BY <1>3, <1>4, <1>6 DEF OwnersLive, BuildHolds
  <1>8. \A s \in StepsOf(b) : ~Active(s)
    BY <1>1, <1>2, IdleBuild
  <1>9. LocksHeld'
    BY <1>1, <1>6, <1>7, <1>8, StepsAreNotBuilds, HeldStays
  <1>10. QED
    BY <1>4, <1>5, <1>9 DEF IInv

\* The result of a build at its end is recorded.
LEMMA RecordFinishedKeeps ==
  ASSUME IInv, NEW b \in Build, RecordFinished(b)
  PROVE  IInv'
  <1>1. LocksTyped /\ OthersTyped /\ LocksLawful /\ LocksHeld /\ b \in Requester
    BY DEF IInv, Requester
  <1> DEFINE v == IF phase[b] = "released" THEN "done" ELSE "recorded"
  <1>2. /\ phase[b] \in {"finishing", "released"}
        /\ phase' = [phase EXCEPT ![b] = v]
        /\ Reschedule(b, phase[b] = "released")
        /\ UNCHANGED <<maxCount, waiting, owners, claimed, acquiring, stopped, lost>>
    BY DEF RecordFinished
  <1>3. v \in {"done", "recorded"} /\ (v = "done" => phase[b] = "released")
    OBVIOUS
  <1> HIDE DEF v
  <1>4. LocksLawful' /\ LocksTyped'
    BY <1>1, <1>2, SameLocks
  <1>5. OthersTyped'
    <2>1. v \in Phase
      BY <1>3 DEF Phase
    <2>2. pending' \subseteq Build
      BY <1>1, <1>2, RescheduleIsTyped
    <2>3. QED
      BY <1>1, <1>2, <2>1, <2>2 DEF OthersTyped
  <1>6. OthersKeep({b}) /\ phase'[b] = v
    BY <1>1, <1>2, MovesAlone DEF OthersTyped
  <1>7. OwnersLive(b)'
    <2>1. CASE v = "recorded"
      BY <1>6, <2>1 DEF OwnersLive
    <2>2. CASE v = "done"
      <3>1. \A l \in Lock : b \notin owners[l]
        BY <1>1, <1>3, <2>2, OwnsNothing
      <3>2. QED
        BY <1>2, <3>1 DEF OwnersLive
    <2>3. QED
      BY <1>3, <2>1, <2>2
  <1>8. BuildHolds(b)' /\ \A s \in StepsOf(b) : ~Active(s)
    BY <1>1, <1>2, <1>3, <1>6, IdleBuild DEF BuildHolds
  <1>9. LocksHeld'
    BY <1>1, <1>6, <1>7, <1>8, StepsAreNotBuilds, HeldStays
  <1>10. QED
    BY <1>4, <1>5, <1>9 DEF IInv

\* Giving up waits: the locks stay lawful, and the requester keeps its phase, is
\* woken, or goes on.
LEMMA StopWaitingMoves ==
  ASSUME LocksLawful, LocksTyped, OthersTyped, NEW r \in Requester, NEW ls,
         StopWaiting(r, ls), UNCHANGED <<maxCount, owners, claimed>>
  PROVE  /\ LocksLawful' /\ LocksTyped'
         /\ phase' \in [Requester -> Phase] /\ acquiring' \in [Requester -> Seq(Lock)]
         /\ \A x \in Requester \ {r} :
              /\ phase'[x] = phase[x] \/ (phase[x] = "waiting" /\ phase'[x] = "woken")
              /\ acquiring'[x] = acquiring[x]
         /\ \/ phase'[r] = phase[r]
            \/ phase[r] = "waiting" /\ phase'[r] = "woken"
            \/ phase'[r] = GoesOn(r) /\ ls # {}
         /\ acquiring'[r] \in {<<>>, acquiring[r]}
         /\ \A l \in Lock : InQueue(waiting'[l]) =
              IF l \in ls THEN InQueue(waiting[l]) \ {r} ELSE InQueue(waiting[l])
  <1> DEFINE calledBack == \E l \in ls : [who |-> r, woken |-> FALSE] \in ToSet(waiting[l])
             v == IF calledBack THEN GoesOn(r) ELSE Rings(waiting')[r]
             a == IF r \in Build
                  THEN (IF calledBack THEN <<>> ELSE acquiring[r])
                  ELSE IF ls = ToSet(acquiring[r]) THEN <<>> ELSE acquiring[r]
  <1>1. /\ waiting' = Abandoned(r, ls)
        /\ phase' = [Rings(waiting') EXCEPT ![r] = v]
        /\ acquiring' = [acquiring EXCEPT ![r] = a]
    BY DEF StopWaiting
  <1>2. a \in {<<>>, acquiring[r]}
    OBVIOUS
  <1>3. v = Rings(waiting')[r] \/ (v = GoesOn(r) /\ ls # {})
    OBVIOUS
  <1> HIDE DEF v, a
  <1>4. /\ LocksLawful' /\ LocksTyped'
        /\ \A l \in Lock : InQueue(waiting'[l]) =
             IF l \in ls THEN InQueue(waiting[l]) \ {r} ELSE InQueue(waiting[l])
    BY <1>1, AbandonKeepsLocks
  <1>5. /\ Rings(waiting') \in [Requester -> Phase]
        /\ \A x \in Requester : \/ Rings(waiting')[x] = phase[x]
                                \/ phase[x] = "waiting" /\ Rings(waiting')[x] = "woken"
    BY RingsWakes DEF OthersTyped
  <1>6. v \in Phase
    BY <1>3, <1>5 DEF GoesOn, Phase
  <1>7. phase' \in [Requester -> Phase] /\ phase'[r] = v
    BY <1>1, <1>5, <1>6
  <1>8. \A x \in Requester \ {r} : phase'[x] = Rings(waiting')[x]
    BY <1>1, <1>5
  <1>9. /\ acquiring' \in [Requester -> Seq(Lock)] /\ acquiring'[r] = a
        /\ \A x \in Requester \ {r} : acquiring'[x] = acquiring[x]
    <2>1. a \in Seq(Lock)
      <3>1. acquiring[r] \in Seq(Lock) /\ <<>> \in Seq(Lock)
        BY DEF OthersTyped
      <3>2. QED
        BY <1>2, <3>1, Zenon
    <2>2. QED
      BY <1>1, <2>1 DEF OthersTyped
  <1>10. QED
    BY <1>2, <1>3, <1>4, <1>5, <1>7, <1>8, <1>9

\* A build that is stopped without an active step goes on to the steps that
\* always run.
LEMMA StopWaitingBuildKeeps ==
  ASSUME IInv, NEW b \in Build, Stoppable(b), CurrentStep(b) = {},
         NEW ls, StopWaiting(b, ls),
         stopped' = stopped \cup {b}, lost' \subseteq Build,
         UNCHANGED <<maxCount, owners, claimed, pending>>
  PROVE  IInv'
  <1>1. LocksTyped /\ OthersTyped /\ LocksLawful /\ LocksHeld /\ b \in Requester
    BY DEF IInv, Requester
  <1>2. /\ LocksLawful' /\ LocksTyped'
        /\ phase' \in [Requester -> Phase] /\ acquiring' \in [Requester -> Seq(Lock)]
        /\ \A x \in Requester \ {b} :
              /\ phase'[x] = phase[x] \/ (phase[x] = "waiting" /\ phase'[x] = "woken")
              /\ acquiring'[x] = acquiring[x]
        /\ \/ phase'[b] = phase[b]
           \/ phase[b] = "waiting" /\ phase'[b] = "woken"
           \/ phase'[b] = GoesOn(b)
    BY <1>1, StopWaitingMoves
  <1>3. OthersTyped'
    BY <1>1, <1>2 DEF OthersTyped
  <1>4. b \in MayStop /\ phase[b] \in {"starting", "waiting", "woken", "running"}
    BY DEF Stoppable
  <1>5. OthersKeep({b})
    BY <1>1, <1>2, <1>4 DEF OthersKeep, LocksHeld
  <1>6. OwnersLive(b)'
    <2>1. CASE phase[b] = "running"
      BY <1>2, <2>1 DEF OwnersLive, GoesOn
    <2>2. CASE phase[b] # "running"
      <3>1. \A l \in Lock : b \notin owners[l]
        BY <1>1, <1>4, <2>2, OwnsNothing
      <3>2. QED
        BY <3>1 DEF OwnersLive
    <2>3. QED
      BY <2>1, <2>2
  <1>7. BuildHolds(b)'
    BY DEF BuildHolds
  <1>8. \A s \in StepsOf(b) : ~Active(s)
    BY DEF CurrentStep
  <1>9. LocksHeld'
    BY <1>1, <1>5, <1>6, <1>7, <1>8, StepsAreNotBuilds, HeldStays
  <1>10. QED
    BY <1>2, <1>3, <1>9 DEF IInv

\* A step that runs does not wait for anything.
LEMMA GivesUpNothing ==
  ASSUME NEW s, acquiring[s] = <<>>
  PROVE  GivenUp(s) = {}
  BY DEF GivenUp

\* A build that is stopped, or loses its worker, with an active step: the step is
\* interrupted.
LEMMA InterruptKeeps ==
  ASSUME IInv, NEW b \in Build, Stoppable(b), NEW t \in CurrentStep(b),
         \A s \in CurrentStep(b) : Interrupt(s),
         stopped \cup CurrentStep(b) \subseteq stopped',
         stopped' \subseteq stopped \cup {b} \cup CurrentStep(b),
         lost' \subseteq Build,
         UNCHANGED <<maxCount, owners, claimed, pending>>
  PROVE  IInv'
  <1>1. LocksTyped /\ OthersTyped /\ LocksLawful /\ LocksHeld
    BY DEF IInv
  <1>2. /\ t \in Step /\ t \in Requester /\ Of[t] = b /\ Active(t)
        /\ b \in Requester /\ b \notin {t} /\ t \notin Build
    BY StepsAreNotBuilds DEF CurrentStep, StepsOf
  <1>3. b \in MayStop /\ phase[b] = "running" /\ Nested(t) /\ StepHolds(t)
    BY <1>1, <1>2 DEF Stoppable, LocksHeld, StepHolds, Nested
  <1>4. \A s \in CurrentStep(b) : s = t
    BY <1>2, LocksAssumption DEF CurrentStep, StepsOf
  <1>5. Interrupt(t)
    OBVIOUS
  <1>6. /\ LocksLawful' /\ LocksTyped'
        /\ phase' \in [Requester -> Phase] /\ acquiring' \in [Requester -> Seq(Lock)]
        /\ \A x \in Requester \ {t} :
              /\ phase'[x] = phase[x] \/ (phase[x] = "waiting" /\ phase'[x] = "woken")
              /\ acquiring'[x] = acquiring[x]
        /\ \/ phase'[t] = phase[t]
           \/ phase[t] = "waiting" /\ phase'[t] = "woken"
           \/ phase'[t] = "leaving" /\ GivenUp(t) # {}
        /\ acquiring'[t] \in {<<>>, acquiring[t]}
    <2>1. CASE t \in stopped
      <3>1. UNCHANGED <<waiting, phase, acquiring>>
        BY <1>5, <2>1 DEF Interrupt
      <3>2. LocksLawful' /\ LocksTyped'
        BY <1>1, <3>1, SameLocks
      <3>3. QED
        BY <1>1, <1>2, <3>1, <3>2 DEF OthersTyped
    <2>2. CASE t \notin stopped
      <3>1. StopWaiting(t, GivenUp(t))
        BY <1>5, <2>2 DEF Interrupt
      <3>2. GoesOn(t) = "leaving"
        BY <1>2 DEF GoesOn
      <3>3. QED
        BY <1>1, <1>2, <3>1, <3>2, StopWaitingMoves
    <2>3. QED
      BY <2>1, <2>2
  <1>7. OthersTyped'
    <2>1. stopped' \subseteq Requester
      BY <1>1, <1>2, <1>4 DEF OthersTyped
    <2>2. QED
      BY <1>1, <1>6, <2>1 DEF OthersTyped
  <1>8. OthersKeep({t})
    <2>1. stopped' \cap Build \subseteq MayStop
      BY <1>1, <1>2, <1>3, <1>4 DEF LocksHeld
    <2>2. QED
      BY <1>6, <2>1 DEF OthersKeep
  <1>9. phase[t] = "running" => phase'[t] = "running" /\ acquiring'[t] = <<>>
    BY <1>3, <1>6, GivesUpNothing DEF StepHolds
  <1>10. OwnersLive(t)'
    <2>1. CASE phase[t] = "running"
      BY <1>9, <2>1 DEF OwnersLive
    <2>2. CASE phase[t] # "running"
      <3>1. \A l \in Lock : t \notin owners[l]
        BY <1>1, <1>2, <2>2, OwnsNothing DEF Active
      <3>2. QED
        BY <3>1 DEF OwnersLive
    <2>3. QED
      BY <2>1, <2>2
  <1>11. StepHolds(t)'
    <2>1. Nested(t)'
      BY <1>2, <1>3, <1>8, NestedStays
    <2>2. phase'[t] = "running" => phase[t] = "running"
      BY <1>6
    <2>3. Owns(t) => Owns(t)'
      BY DEF Owns
    <2>4. QED
      BY <1>3, <1>9, <2>1, <2>2, <2>3 DEF StepHolds
  <1>12. LocksHeld'
    BY <1>1, <1>2, <1>8, <1>10, <1>11, HeldStays
  <1>13. QED
    BY <1>6, <1>7, <1>12 DEF IInv

\* stopBuild.
LEMMA StopBuildKeeps ==
  ASSUME IInv, NEW b \in Build, StopBuild(b)
  PROVE  IInv'
  <1>1. /\ Stoppable(b)
        /\ stopped' = stopped \cup {b} \cup CurrentStep(b)
        /\ IF CurrentStep(b) = {}
           THEN StopWaiting(b, ToSet(acquiring[b]))
           ELSE \A s \in CurrentStep(b) : Interrupt(s)
        /\ UNCHANGED <<maxCount, owners, claimed, lost, pending>>
    BY DEF StopBuild
  <1>2. lost' \subseteq Build
    BY <1>1 DEF IInv, OthersTyped
  <1>3. CASE CurrentStep(b) = {}
    <2>1. stopped' = stopped \cup {b}
      BY <1>1, <1>3
    <2>2. QED
      BY <1>1, <1>2, <1>3, <2>1, StopWaitingBuildKeeps
  <1>4. CASE CurrentStep(b) # {}
    <2>1. PICK t : t \in CurrentStep(b)
      BY <1>4
    <2>2. QED
      BY <1>1, <1>2, <1>4, <2>1, InterruptKeeps
  <1>5. QED
    BY <1>3, <1>4

\* lostRemote.
LEMMA LostRemoteKeeps ==
  ASSUME IInv, NEW b \in Build, LostRemote(b)
  PROVE  IInv'
  <1>1. /\ Stoppable(b)
        /\ lost' = lost \cup {b}
        /\ stopped' = stopped \cup (IF CurrentStep(b) = {} THEN {b} ELSE CurrentStep(b))
        /\ IF CurrentStep(b) = {}
           THEN StopWaiting(b, {l \in ToSet(acquiring[b]) : Waits(b, l)})
           ELSE \A s \in CurrentStep(b) : Interrupt(s)
        /\ UNCHANGED <<maxCount, owners, claimed, pending>>
    BY DEF LostRemote
  <1>2. lost' \subseteq Build
    BY <1>1 DEF IInv, OthersTyped
  <1>3. CASE CurrentStep(b) = {}
    <2>1. stopped' = stopped \cup {b}
      BY <1>1, <1>3
    <2>2. QED
      BY <1>1, <1>2, <1>3, <2>1, StopWaitingBuildKeeps
  <1>4. CASE CurrentStep(b) # {}
    <2>1. PICK t : t \in CurrentStep(b)
      BY <1>4
    <2>2. stopped' = stopped \cup CurrentStep(b)
      BY <1>1, <1>4
    <2>3. QED
      BY <1>1, <1>2, <1>4, <2>1, <2>2, InterruptKeeps
  <1>5. QED
    BY <1>3, <1>4

-----------------------------------------------------------------------------
(* The theorems *)

\* The invariant holds at first.
LEMMA InitHolds == Init => IInv
  <1> SUFFICES ASSUME Init PROVE IInv
    OBVIOUS
  <1>1. ASSUME NEW l \in Lock
        PROVE  /\ Lawful(l, maxCount[l], waiting[l], owners[l], claimed[l])
               /\ maxCount[l] \in Nat \ {0}
    <2>1. /\ maxCount[l] \in MaxCounts[l] /\ waiting[l] = <<>> /\ owners[l] = {}
          /\ claimed[l] = [exclusive |-> 0, counting |-> 0]
      BY DEF Init
    <2>2. maxCount[l] \in Nat \ {0}
      BY <2>1, LocksAssumption
    <2>3. Queued(l, waiting[l]) /\ HeadWoken(waiting[l])
      BY <2>1 DEF Queued, HeadWoken
    <2>4. Compatible(l, owners[l], claimed[l])
      <3>1. IsFiniteSet({}) /\ {} \in SUBSET Askers(l)
        BY FS_EmptySet
      <3>2. /\ SumOf(l, InMode({}, l, "exclusive")) = 0
            /\ SumOf(l, InMode({}, l, "counting")) = 0
        BY <3>1, InModeSums DEF Mode
      <3>3. claimed[l] \in Counters /\ claimed[l].exclusive = 0 /\ claimed[l].counting = 0
        BY <2>1 DEF Counters
      <3>4. 0 <= maxCount[l]
        BY <2>2
      <3>5. QED
        BY <2>1, <3>1, <3>2, <3>3, <3>4 DEF Compatible
    <2>5. QED
      BY <2>1, <2>2, <2>3, <2>4 DEF Lawful
  <1>2. LocksLawful
    BY <1>1 DEF LocksLawful
  <1>3. LocksTyped
    <2>1. \A l \in Lock : maxCount[l] \in Nat \ {0}
      BY <1>1
    <2>2. maxCount = [l \in Lock |-> maxCount[l]]
      BY DEF Init
    <2>3. maxCount \in [Lock -> Nat \ {0}]
      BY <2>1, <2>2, Zenon
    <2>4. <<>> \in Seq(Waiter) /\ [exclusive |-> 0, counting |-> 0] \in Counters
      BY DEF Counters
    <2>5. QED
      BY <2>3, <2>4 DEF Init, LocksTyped
  <1>4. OthersTyped
    BY DEF Init, OthersTyped, Phase
  <1>5. LocksHeld
    <2>1. \A r \in Requester : OwnersLive(r)
      BY DEF Init, OwnersLive
    <2>2. \A s \in Step : StepHolds(s)
      BY StepsAreNotBuilds DEF Init, StepHolds, Active
    <2>3. \A b \in Build : BuildHolds(b)
      BY DEF Init, BuildHolds, Requester
    <2>4. QED
      BY <2>1, <2>2, <2>3 DEF Init, LocksHeld
  <1>6. QED
    BY <1>2, <1>3, <1>4, <1>5 DEF IInv

\* Every step keeps it.
LEMMA StepKeeps == IInv /\ [Next]_vars => IInv'
  <1> SUFFICES ASSUME IInv, [Next]_vars PROVE IInv'
    OBVIOUS
  <1>1. ASSUME NEW l \in Lock, SetMaxCount(l) PROVE IInv'
    BY <1>1, SetMaxCountKeeps
  <1>2. ASSUME NEW r \in Requester, AcquireStopped(r) \/ ClaimAll(r) \/ WaitForLock(r)
        PROVE  IInv'
    BY <1>2, AcquireStoppedKeeps, ClaimAllKeeps, WaitForLockKeeps
  <1>3. ASSUME NEW s \in Step, StartStep(s) \/ FinishStep(s) PROVE IInv'
    BY <1>3, StartStepKeeps, FinishStepKeeps
  <1>4. ASSUME NEW b \in Build,
               \/ Distribute(b) \/ FinishBuild(b) \/ ReleaseLocks(b)
               \/ RecordFinished(b) \/ StopBuild(b) \/ LostRemote(b)
        PROVE  IInv'
    BY <1>4, DistributeKeeps, FinishBuildKeeps, ReleaseLocksKeeps, RecordFinishedKeeps,
       StopBuildKeeps, LostRemoteKeeps
  <1>5. CASE UNCHANGED vars
    BY <1>5 DEF vars, IInv, LocksTyped, OthersTyped, LocksLawful, LocksHeld, OwnersLive,
       StepHolds, BuildHolds, Owns, Nested, Active
  <1>6. QED
    BY <1>1, <1>2, <1>3, <1>4, <1>5 DEF Next

\* The inductive invariant of the locks and of who waits for them.
THEOREM LocksAreInvariant == Spec => []IInv
  BY InitHolds, StepKeeps, PTL DEF Spec

\* Every variable keeps its type.
THEOREM TypeCorrect == Spec => []TypeOK
  <1>1. IInv => TypeOK
    BY TypesAreTwo DEF IInv
  <1>2. QED
    BY <1>1, LocksAreInvariant, PTL

\* An exclusive owner of a lock is its only owner, and the two counters agree
\* with the owners and stay within the largest limit.
THEOREM OwnersStayCompatible == Spec => []OwnersAreCompatible
  <1>1. IInv => OwnersAreCompatible
    <2>1. SUFFICES ASSUME IInv, NEW l \in Lock
                   PROVE  /\ \A r \in owners[l] : Need(r, l).mode = "exclusive" => owners[l] = {r}
                          /\ claimed[l].exclusive = Total(l, "exclusive")
                          /\ claimed[l].counting = Total(l, "counting")
                          /\ \E m \in MaxCounts[l] : claimed[l].counting <= m
      BY DEF OwnersAreCompatible
    <2>2. Compatible(l, owners[l], claimed[l])
      BY <2>1 DEF IInv, LocksLawful, Lawful
    <2>3. /\ Total(l, "exclusive") = SumOf(l, InMode(owners[l], l, "exclusive"))
          /\ Total(l, "counting") = SumOf(l, InMode(owners[l], l, "counting"))
      BY DEF Total, SumOf, InMode
    <2>4. QED
      BY <2>2, <2>3 DEF Compatible
  <1>2. QED
    BY <1>1, LocksAreInvariant, PTL

\* A lock that is free and has a queue has a waiter that was woken.
THEOREM NoWakeUpIsLost == Spec => []NoLostWakeUp
  <1>1. IInv => NoLostWakeUp
    <2>1. SUFFICES ASSUME IInv, NEW l \in Lock, waiting[l] # <<>>, owners[l] = {}
                   PROVE  \E i \in DOMAIN waiting[l] : waiting[l][i].woken
      BY DEF NoLostWakeUp
    <2>2. Queued(l, waiting[l]) /\ HeadWoken(waiting[l])
      BY <2>1 DEF IInv, LocksLawful, Lawful
    <2>3. 1 \in DOMAIN waiting[l]
      BY <2>1, <2>2 DEF Queued
    <2>4. waiting[l][1].woken
      BY <2>1, <2>2 DEF HeadWoken
    <2>5. QED
      BY <2>3, <2>4
  <1>2. QED
    BY <1>1, LocksAreInvariant, PTL

\* Where no step that always runs is in a build that may be stopped, a step that
\* runs owns its locks and its build's. (Such a step runs on in a stopped build,
\* which may have gone on without its locks.)
THEOREM RunningStepsHoldTheirLocks ==
  ASSUME \A s \in AlwaysRun : Of[s] \notin MayStop
  PROVE  Spec => []RunningHoldsLocks
  <1>1. IInv => RunningHoldsLocks
    <2>1. SUFFICES ASSUME IInv, NEW s \in Step, phase[s] = "running"
                   PROVE  Owns(s) /\ Owns(Of[s])
      BY DEF RunningHoldsLocks, Owns
    <2>2. StepHolds(s) /\ Active(s)
      BY <2>1 DEF IInv, LocksHeld, Active
    <2>3. Sheltered(s)
      BY DEF Sheltered
    <2>4. QED
      BY <2>1, <2>2, <2>3 DEF StepHolds, Nested
  <1>2. QED
    BY <1>1, LocksAreInvariant, PTL

\* Whatever is stopped: a step runs only while it owns its own locks, and who owns
\* a lock runs, or is at its end; what is over owns nothing.
THEOREM OnlyTheLiveOwnLocks ==
  Spec => [](/\ \A s \in Step : phase[s] = "running" => Owns(s)
             /\ \A r \in Requester : OwnersLive(r))
  <1>1. IInv => /\ \A s \in Step : phase[s] = "running" => Owns(s)
                /\ \A r \in Requester : OwnersLive(r)
    BY DEF IInv, LocksHeld, StepHolds
  <1>2. QED
    BY <1>1, LocksAreInvariant, PTL

-----------------------------------------------------------------------------
(* Nobody waits behind a requester that has given up *)

\* No step of a stoppable build waits twice for one lock: when it is interrupted,
\* stopWaitingUntilAvailable is given the deferred of its only wait ("The supplied
\* deferred must be a result of waitUntilMaybeAvailable()").
NoSecondWait ==
  \A s \in Step : Of[s] \in MayStop =>
    \A i, j \in DOMAIN acquiring[s] : acquiring[s][i] = acquiring[s][j] => i = j

\* Who is in a queue acquires its locks and was not stopped.
Interested(r) ==
  (\E l \in Lock : r \in InQueue(waiting[l])) =>
    phase[r] \in {"waiting", "woken"} /\ r \notin stopped

\* What a requester is about to acquire, as far as it goes by, is what it waits for.
Recalls(r) ==
  r \notin stopped => {l \in Lock : r \in InQueue(waiting[l])} = ToSet(acquiring[r])

WInv ==
  /\ \A r \in Requester : Interested(r)
  /\ \A r \in Step \cup MayStop : Recalls(r)

\* A step of the system in which the queues of nobody but M change.
OthersWait(M) ==
  \A x \in Requester \ M :
    /\ phase'[x] = phase[x] \/ (phase[x] = "waiting" /\ phase'[x] = "woken")
    /\ acquiring'[x] = acquiring[x]
    /\ x \in stopped' <=> x \in stopped
    /\ \A l \in Lock : x \in InQueue(waiting'[l]) <=> x \in InQueue(waiting[l])

\* Interest stays if it does for those who move.
LEMMA InterestStays ==
  ASSUME WInv, NEW M, OthersWait(M),
         \A r \in M \cap Requester : Interested(r)' /\ (r \in Step \cup MayStop => Recalls(r)')
  PROVE  WInv'
  <1>1. ASSUME NEW r \in Requester
        PROVE  Interested(r)' /\ (r \in Step \cup MayStop => Recalls(r)')
    <2>1. CASE r \in M
      BY <2>1
    <2>2. CASE r \notin M
      <3>1. /\ phase'[r] = phase[r] \/ (phase[r] = "waiting" /\ phase'[r] = "woken")
            /\ acquiring'[r] = acquiring[r]
            /\ r \in stopped' <=> r \in stopped
            /\ \A l \in Lock : r \in InQueue(waiting'[l]) <=> r \in InQueue(waiting[l])
        BY <2>2 DEF OthersWait
      <3>2. Interested(r) /\ (r \in Step \cup MayStop => Recalls(r))
        BY DEF WInv
      <3>3. Interested(r)'
        BY <3>1, <3>2 DEF Interested
      <3>4. {l \in Lock : r \in InQueue(waiting'[l])} = {l \in Lock : r \in InQueue(waiting[l])}
        BY <3>1
      <3>5. Recalls(r) => Recalls(r)'
        BY <3>1, <3>4 DEF Recalls
      <3>6. QED
        BY <3>2, <3>3, <3>5
    <2>3. QED
      BY <2>1, <2>2
  <1>2. Step \cup MayStop \subseteq Requester
    BY LocksAssumption DEF Requester
  <1>3. QED
    BY <1>1, <1>2 DEF WInv

\* A stopped requester goes on: it waits for nothing.
LEMMA AcquireStoppedInterest ==
  ASSUME IInv, WInv, NEW r \in Requester, AcquireStopped(r)
  PROVE  WInv'
  <1>1. /\ r \in stopped /\ phase' = [phase EXCEPT ![r] = GoesOn(r)]
        /\ acquiring' = [acquiring EXCEPT ![r] = ForgetsLock(r)]
        /\ UNCHANGED <<waiting, stopped>>
    BY DEF AcquireStopped
  <1>2. OthersWait({r})
    BY <1>1 DEF OthersWait, IInv, OthersTyped
  <1>3. Interested(r)' /\ Recalls(r)'
    BY <1>1 DEF WInv, Interested, Recalls
  <1>4. QED
    BY <1>2, <1>3, InterestStays

\* A requester that claims its locks leaves their queues.
LEMMA ClaimAllInterest ==
  ASSUME IInv, WInv, NEW r \in Requester, ClaimAll(r)
  PROVE  WInv'
  <1>1. /\ phase[r] \in {"starting", "woken"} /\ phase' = [phase EXCEPT ![r] = "running"]
        /\ acquiring' = [acquiring EXCEPT ![r] = <<>>] /\ stopped' = stopped
    BY DEF ClaimAll, Acquires
  <1>2. \A l \in Lock : r \notin owners[l]
    BY <1>1, OwnsNothing DEF IInv
  <1>3. \A l \in Lock : InQueue(waiting'[l]) =
          IF l \in LocksOf(r) THEN InQueue(waiting[l]) \ {r} ELSE InQueue(waiting[l])
    BY <1>2, ClaimAllKeepsLocks DEF IInv
  <1>4. OthersWait({r})
    BY <1>1, <1>3 DEF OthersWait, IInv, OthersTyped
  <1>5. \A l \in Lock : r \notin InQueue(waiting'[l])
    <2>1. ASSUME NEW l \in Lock, r \in InQueue(waiting[l])
          PROVE  l \in LocksOf(r)
      BY <2>1 DEF InQueue, IInv, LocksLawful, Lawful, Queued, Askers
    <2>2. QED
      BY <1>3, <2>1
  <1>6. acquiring'[r] = <<>>
    BY <1>1 DEF IInv, OthersTyped
  <1>7. Interested(r)' /\ Recalls(r)'
    BY <1>5, <1>6 DEF Interested, Recalls, ToSet
  <1>8. QED
    BY <1>4, <1>7, InterestStays

\* The elements of a sequence with one more.
LEMMA AppendedSet ==
  ASSUME NEW S, NEW q \in Seq(S), NEW e \in S
  PROVE  ToSet(Append(q, e)) = ToSet(q) \cup {e}
  <1> DEFINE t == Append(q, e)
  <1>1. /\ Len(q) \in Nat /\ DOMAIN q = 1..Len(q) /\ DOMAIN t = 1..(Len(q) + 1)
        /\ \A i \in 1..Len(q) : t[i] = q[i]
        /\ t[Len(q) + 1] = e
    OBVIOUS
  <1> HIDE DEF t
  <1>2. ToSet(t) \subseteq ToSet(q) \cup {e}
    BY <1>1 DEF ToSet
  <1>3. ToSet(q) \cup {e} \subseteq ToSet(t)
    <2>1. Len(q) + 1 \in DOMAIN t /\ \A i \in DOMAIN q : i \in DOMAIN t /\ t[i] = q[i]
      BY <1>1
    <2>2. QED
      BY <1>1, <2>1 DEF ToSet
  <1>4. QED
    BY <1>2, <1>3 DEF t

\* A requester that waits remembers what for. A stoppable build has nothing else
\* to wait for.
LEMMA WaitForLockInterest ==
  ASSUME \A b \in MayStop : Len(Locks[b]) <= 1,
         IInv, WInv, NEW r \in Requester, WaitForLock(r)
  PROVE  WInv'
  <1> DEFINE k == FirstUnavailable(r)
             forgets == ForgetsLock(r)
             a == Append(forgets, k)
  <1>1. /\ r \notin stopped /\ phase' = [phase EXCEPT ![r] = "waiting"]
        /\ acquiring' = [acquiring EXCEPT ![r] = a] /\ stopped' = stopped
    BY DEF WaitForLock, Acquires
  <1>2. /\ k \in LocksOf(r) /\ k \in Lock
        /\ \A l \in Lock : InQueue(waiting'[l]) =
             IF l = k THEN InQueue(waiting[l]) \cup {r} ELSE InQueue(waiting[l])
    BY WaitKeepsLocks, LocksOfAreLocks DEF IInv
  <1>3. forgets \in Seq(Lock)
    BY DEF ForgetsLock, IInv, OthersTyped
  <1> HIDE DEF k, forgets
  <1>4. ToSet(a) = ToSet(forgets) \cup {k}
    BY <1>2, <1>3, AppendedSet
  <1> HIDE DEF a
  <1>5. OthersWait({r})
    BY <1>1, <1>2 DEF OthersWait, IInv, OthersTyped
  <1>6. Interested(r)'
    BY <1>1 DEF Interested, IInv, OthersTyped
  <1>7. ASSUME r \in Step \cup MayStop
        PROVE  Recalls(r)'
    <2>1. acquiring'[r] = a
      BY <1>1 DEF IInv, OthersTyped
    <2>2. {l \in Lock : r \in InQueue(waiting'[l])} =
            {l \in Lock : r \in InQueue(waiting[l])} \cup {k}
      BY <1>2
    <2>3. CASE r \in Step
      <3>1. forgets = acquiring[r]
        BY <2>3, StepsAreNotBuilds DEF forgets, ForgetsLock
      <3>2. {l \in Lock : r \in InQueue(waiting[l])} = ToSet(acquiring[r])
        BY <1>1, <2>3 DEF WInv, Recalls
      <3>3. QED
        BY <1>4, <2>1, <2>2, <3>1, <3>2 DEF Recalls
    <2>4. CASE r \in MayStop
      <3>1. r \in Build
        BY <2>4, LocksAssumption
      <3>2. ToSet(a) = {k}
        BY <1>4, <3>1 DEF forgets, ForgetsLock, ToSet
      <3>3. \A l \in LocksOf(r) : l = k
        <4>1. Len(Locks[r]) \in Nat /\ DOMAIN Locks[r] = 1..Len(Locks[r])
          BY LocksAssumption
        <4>2. \A i, j \in DOMAIN Locks[r] : i = j
          BY <2>4, <4>1
        <4>3. QED
          BY <1>2, <4>2 DEF LocksOf
      <3>4. \A l \in Lock : r \in InQueue(waiting[l]) => l \in LocksOf(r)
        BY DEF InQueue, IInv, LocksLawful, Lawful, Queued, Askers
      <3>5. {l \in Lock : r \in InQueue(waiting'[l])} = {k}
        BY <1>2, <2>2, <3>3, <3>4
      <3>6. QED
        BY <2>1, <3>2, <3>5 DEF Recalls
    <2>5. QED
      BY <1>7, <2>3, <2>4
  <1>8. QED
    BY <1>5, <1>6, <1>7, InterestStays

\* Somebody who does not wait, and does not begin to, moves.
LEMMA IdleInterest ==
  ASSUME WInv, NEW r \in Requester, phase[r] \notin {"waiting", "woken"},
         \A x \in Requester \ {r} :
           phase'[x] = phase[x] \/ (phase[x] = "waiting" /\ phase'[x] = "woken"),
         \A l \in Lock : InQueue(waiting'[l]) = InQueue(waiting[l]),
         UNCHANGED <<acquiring, stopped>>
  PROVE  WInv'
  <1>1. OthersWait({r})
    BY DEF OthersWait
  <1>2. \A l \in Lock : r \notin InQueue(waiting[l])
    BY DEF WInv, Interested
  <1>3. Interested(r)'
    BY <1>2 DEF Interested
  <1>4. {l \in Lock : r \in InQueue(waiting'[l])} = {l \in Lock : r \in InQueue(waiting[l])}
    BY <1>2
  <1>5. r \in Step \cup MayStop => Recalls(r)'
    BY <1>4 DEF WInv, Recalls
  <1>6. QED
    BY <1>1, <1>3, <1>5, InterestStays

\* The other operations of builds and steps that run to their end.
LEMMA ProgressInterest ==
  ASSUME IInv, WInv,
         \/ \E s \in Step : StartStep(s) \/ FinishStep(s)
         \/ \E b \in Build : \/ Distribute(b) \/ FinishBuild(b) \/ ReleaseLocks(b)
                             \/ RecordFinished(b)
  PROVE  WInv'
  <1>1. Step \subseteq Requester /\ Build \subseteq Requester
    BY DEF Requester
  <1>2. phase \in [Requester -> Phase]
    BY DEF IInv, OthersTyped
  <1>3. ASSUME NEW s \in Step, StartStep(s) PROVE WInv'
    <2>1. /\ phase[s] = "queued" /\ phase' = [phase EXCEPT ![s] = "starting"]
          /\ UNCHANGED <<waiting, acquiring, stopped>>
      BY <1>3 DEF StartStep
    <2>2. QED
      BY <1>1, <1>2, <2>1, IdleInterest
  <1>4. ASSUME NEW s \in Step, FinishStep(s) PROVE WInv'
    <2>1. /\ phase[s] \in {"running", "leaving"} /\ Release(s)
          /\ phase' = [Rings(waiting') EXCEPT ![s] = "done"]
          /\ UNCHANGED <<maxCount, acquiring, stopped>>
      BY <1>4 DEF FinishStep
    <2>2. \A l \in Lock : InQueue(waiting'[l]) = InQueue(waiting[l])
      BY <1>1, <2>1, ReleaseKeepsLocks DEF IInv
    <2>3. \A x \in Requester \ {s} :
            phase'[x] = phase[x] \/ (phase[x] = "waiting" /\ phase'[x] = "woken")
      BY <1>2, <2>1, RingsWakes
    <2>4. QED
      BY <1>1, <2>1, <2>2, <2>3, IdleInterest
  <1>5. ASSUME NEW b \in Build, Distribute(b) PROVE WInv'
    <2>1. /\ phase[b] = "queued"
          /\ \A x \in Requester \ {b} : phase'[x] = phase[x]
          /\ UNCHANGED <<waiting, acquiring, stopped>>
      BY <1>2, <1>5 DEF Distribute
    <2>2. QED
      BY <1>1, <2>1, IdleInterest
  <1>6. ASSUME NEW b \in Build, FinishBuild(b) PROVE WInv'
    <2>1. /\ phase[b] \in {"running", "starting"}
          /\ \A x \in Requester \ {b} : phase'[x] = phase[x]
          /\ UNCHANGED <<waiting, acquiring, stopped>>
      BY <1>2, <1>6 DEF FinishBuild
    <2>2. QED
      BY <1>1, <2>1, IdleInterest
  <1>7. ASSUME NEW b \in Build, ReleaseLocks(b) PROVE WInv'
    <2> DEFINE v == IF phase[b] = "recorded" THEN "done" ELSE "released"
    <2>1. /\ phase[b] \in {"finishing", "recorded"} /\ Release(b)
          /\ phase' = [Rings(waiting') EXCEPT ![b] = v]
          /\ UNCHANGED <<maxCount, acquiring, stopped>>
      BY <1>7 DEF ReleaseLocks
    <2> HIDE DEF v
    <2>2. \A l \in Lock : InQueue(waiting'[l]) = InQueue(waiting[l])
      BY <1>1, <2>1, ReleaseKeepsLocks DEF IInv
    <2>3. \A x \in Requester \ {b} :
            phase'[x] = phase[x] \/ (phase[x] = "waiting" /\ phase'[x] = "woken")
      BY <1>2, <2>1, RingsWakes
    <2>4. QED
      BY <1>1, <2>1, <2>2, <2>3, IdleInterest
  <1>8. ASSUME NEW b \in Build, RecordFinished(b) PROVE WInv'
    <2>1. /\ phase[b] \in {"finishing", "released"}
          /\ \A x \in Requester \ {b} : phase'[x] = phase[x]
          /\ UNCHANGED <<waiting, acquiring, stopped>>
      BY <1>2, <1>8 DEF RecordFinished
    <2>2. QED
      BY <1>1, <2>1, IdleInterest
  <1>9. QED
    BY <1>3, <1>4, <1>5, <1>6, <1>7, <1>8

\* setMaxCount wakes waiters only.
LEMMA SetMaxCountInterest ==
  ASSUME IInv, WInv, NEW k \in Lock, SetMaxCount(k)
  PROVE  WInv'
  <1>1. phase' = Rings(waiting') /\ UNCHANGED <<acquiring, stopped>>
    BY DEF SetMaxCount
  <1>2. \A l \in Lock : InQueue(waiting'[l]) = InQueue(waiting[l])
    BY SetMaxCountKeepsLocks DEF IInv
  <1>3. OthersWait({})
    BY <1>1, <1>2, RingsWakes DEF OthersWait, IInv, OthersTyped
  <1>4. QED
    BY <1>3, InterestStays

\* A step that waits for every lock once gives up all its waits.
LEMMA GivesUpAll ==
  ASSUME NEW s, acquiring[s] \in Seq(Lock),
         \A l \in ToSet(acquiring[s]) : Waits(s, l),
         \A i, j \in DOMAIN acquiring[s] : acquiring[s][i] = acquiring[s][j] => i = j
  PROVE  GivenUp(s) = ToSet(acquiring[s])
  <1>1. DOMAIN acquiring[s] = 1..Len(acquiring[s]) /\ Len(acquiring[s]) \in Nat
    OBVIOUS
  <1>2. ASSUME NEW i \in DOMAIN acquiring[s]
        PROVE  ~Refused(s, i)
    <2>1. Waits(s, acquiring[s][i])
      BY DEF ToSet
    <2>2. \A j \in DOMAIN acquiring[s] : acquiring[s][j] = acquiring[s][i] => ~(j > i) /\ ~(j < i)
      BY <1>1
    <2>3. QED
      BY <2>1, <2>2 DEF Refused
  <1>3. \A i \in DOMAIN acquiring[s] : \A j \in 1..i : j \in DOMAIN acquiring[s]
    BY <1>1
  <1>4. \A i \in DOMAIN acquiring[s] : \A j \in 1..i : ~Refused(s, j)
    BY <1>2, <1>3
  <1>5. QED
    BY <1>4 DEF GivenUp, ToSet

\* A build that is stopped while it waits leaves every queue it is in.
LEMMA StopBuildInterest ==
  ASSUME IInv, WInv, NEW b \in Build, b \in MayStop, NEW ls,
         StopWaiting(b, ls), stopped' = stopped \cup {b},
         UNCHANGED <<maxCount, owners, claimed>>,
         \A l \in ToSet(acquiring[b]) : b \in InQueue(waiting[l]) => l \in ls
  PROVE  WInv'
  <1>1. b \in Requester
    BY DEF Requester
  <1>2. /\ \A x \in Requester \ {b} :
             /\ phase'[x] = phase[x] \/ (phase[x] = "waiting" /\ phase'[x] = "woken")
             /\ acquiring'[x] = acquiring[x]
        /\ \A l \in Lock : InQueue(waiting'[l]) =
             IF l \in ls THEN InQueue(waiting[l]) \ {b} ELSE InQueue(waiting[l])
    BY <1>1, StopWaitingMoves DEF IInv
  <1>3. OthersWait({b})
    BY <1>2 DEF OthersWait
  <1>4. \A l \in Lock : b \in InQueue(waiting[l]) => l \in ls
    <2>1. CASE b \in stopped
      BY <1>1, <2>1 DEF WInv, Interested
    <2>2. CASE b \notin stopped
      <3>1. {l \in Lock : b \in InQueue(waiting[l])} = ToSet(acquiring[b])
        BY <2>2 DEF WInv, Recalls
      <3>2. QED
        BY <3>1
    <2>3. QED
      BY <2>1, <2>2
  <1>5. \A l \in Lock : b \notin InQueue(waiting'[l])
    BY <1>2, <1>4
  <1>6. Interested(b)' /\ Recalls(b)'
    BY <1>5 DEF Interested, Recalls
  <1>7. QED
    BY <1>3, <1>6, InterestStays

\* A step that is interrupted while it waits leaves every queue it is in; its
\* build, which runs, is in none.
LEMMA InterruptInterest ==
  ASSUME IInv, WInv, NoSecondWait, NEW b \in Build, Stoppable(b), NEW t \in CurrentStep(b),
         Interrupt(t),
         stopped \cup {t} \subseteq stopped', stopped' \subseteq stopped \cup {b, t},
         UNCHANGED <<maxCount, owners, claimed>>
  PROVE  WInv'
  <1>1. /\ t \in Step /\ t \in Requester /\ Of[t] = b /\ Active(t)
        /\ b \in Requester /\ t # b /\ b \in MayStop
    BY StepsAreNotBuilds DEF CurrentStep, StepsOf, Stoppable
  <1>2. phase[b] = "running"
    BY <1>1 DEF IInv, LocksHeld, StepHolds, Nested
  <1>3. \A l \in Lock : b \notin InQueue(waiting[l])
    BY <1>1, <1>2 DEF WInv, Interested
  <1>4. /\ \A x \in Requester \ {t} :
             /\ phase'[x] = phase[x] \/ (phase[x] = "waiting" /\ phase'[x] = "woken")
             /\ acquiring'[x] = acquiring[x]
        /\ \A l \in Lock : InQueue(waiting'[l]) = InQueue(waiting[l]) \ {t}
    <2>1. CASE t \in stopped
      <3>1. UNCHANGED <<waiting, phase, acquiring>>
        BY <2>1 DEF Interrupt
      <3>2. \A l \in Lock : t \notin InQueue(waiting[l])
        BY <1>1, <2>1 DEF WInv, Interested
      <3>3. QED
        BY <3>1, <3>2
    <2>2. CASE t \notin stopped
      <3>1. StopWaiting(t, GivenUp(t))
        BY <2>2 DEF Interrupt
      <3>2. {l \in Lock : t \in InQueue(waiting[l])} = ToSet(acquiring[t])
        BY <1>1, <2>2 DEF WInv, Recalls
      <3>3. \A l \in ToSet(acquiring[t]) : Waits(t, l)
        BY <3>2 DEF Waits, Places, InQueue
      <3>4. acquiring[t] \in Seq(Lock)
        BY <1>1 DEF IInv, OthersTyped
      <3>5. GivenUp(t) = ToSet(acquiring[t])
        BY <1>1, <3>3, <3>4, GivesUpAll DEF NoSecondWait
      <3>6. /\ \A x \in Requester \ {t} :
                 /\ phase'[x] = phase[x] \/ (phase[x] = "waiting" /\ phase'[x] = "woken")
                 /\ acquiring'[x] = acquiring[x]
            /\ \A l \in Lock : InQueue(waiting'[l]) =
                 IF l \in GivenUp(t) THEN InQueue(waiting[l]) \ {t} ELSE InQueue(waiting[l])
        BY <1>1, <3>1, StopWaitingMoves DEF IInv
      <3>7. \A l \in Lock : l \notin GivenUp(t) => t \notin InQueue(waiting[l])
        BY <3>2, <3>5
      <3>8. QED
        BY <3>6, <3>7
    <2>3. QED
      BY <2>1, <2>2
  <1>5. OthersWait({t, b})
    BY <1>4 DEF OthersWait
  <1>6. Interested(t)' /\ Recalls(t)'
    BY <1>4 DEF Interested, Recalls
  <1>7. Interested(b)' /\ Recalls(b)'
    <2>1. \A l \in Lock : b \notin InQueue(waiting'[l])
      BY <1>3, <1>4
    <2>2. Interested(b)'
      BY <2>1 DEF Interested
    <2>3. acquiring'[b] = acquiring[b] /\ (b \notin stopped' => b \notin stopped)
      BY <1>1, <1>4
    <2>4. Recalls(b)
      BY <1>1 DEF WInv
    <2>5. Recalls(b)'
      BY <1>3, <2>1, <2>3, <2>4 DEF Recalls
    <2>6. QED
      BY <2>2, <2>5
  <1>8. QED
    BY <1>5, <1>6, <1>7, InterestStays

\* Every step of the system keeps the invariant, if no step waits twice for a lock.
LEMMA InterestIsKept ==
  ASSUME \A b \in MayStop : Len(Locks[b]) <= 1,
         IInv, WInv, NoSecondWait, [Next]_vars
  PROVE  WInv'
  <1>1. ASSUME NEW l \in Lock, SetMaxCount(l) PROVE WInv'
    BY <1>1, SetMaxCountInterest
  <1>2. ASSUME NEW r \in Requester, AcquireStopped(r) \/ ClaimAll(r) \/ WaitForLock(r)
        PROVE  WInv'
    BY <1>2, AcquireStoppedInterest, ClaimAllInterest, WaitForLockInterest
  <1>3. ASSUME NEW s \in Step, StartStep(s) \/ FinishStep(s) PROVE WInv'
    BY <1>3, ProgressInterest
  <1>4. ASSUME NEW b \in Build,
               Distribute(b) \/ FinishBuild(b) \/ ReleaseLocks(b) \/ RecordFinished(b)
        PROVE  WInv'
    BY <1>4, ProgressInterest
  <1>5. ASSUME NEW b \in Build, StopBuild(b) PROVE WInv'
    <2>1. /\ Stoppable(b) /\ b \in MayStop
          /\ stopped' = stopped \cup {b} \cup CurrentStep(b)
          /\ IF CurrentStep(b) = {}
             THEN StopWaiting(b, ToSet(acquiring[b]))
             ELSE \A s \in CurrentStep(b) : Interrupt(s)
          /\ UNCHANGED <<maxCount, owners, claimed>>
      BY <1>5 DEF StopBuild, Stoppable
    <2>2. CASE CurrentStep(b) = {}
      <3>1. stopped' = stopped \cup {b}
        BY <2>1, <2>2
      <3>2. QED
        BY <2>1, <2>2, <3>1, StopBuildInterest
    <2>3. CASE CurrentStep(b) # {}
      <3>1. PICK t : t \in CurrentStep(b)
        BY <2>3
      <3>2. CurrentStep(b) = {t}
        BY <3>1, LocksAssumption DEF CurrentStep, StepsOf
      <3>3. stopped' = stopped \cup {b, t}
        BY <2>1, <3>2
      <3>4. QED
        BY <2>1, <2>3, <3>1, <3>3, InterruptInterest
    <2>4. QED
      BY <2>2, <2>3
  <1>6. ASSUME NEW b \in Build, LostRemote(b) PROVE WInv'
    <2> DEFINE ls == {l \in ToSet(acquiring[b]) : Waits(b, l)}
    <2>1. /\ Stoppable(b) /\ b \in MayStop
          /\ stopped' = stopped \cup (IF CurrentStep(b) = {} THEN {b} ELSE CurrentStep(b))
          /\ IF CurrentStep(b) = {}
             THEN StopWaiting(b, ls)
             ELSE \A s \in CurrentStep(b) : Interrupt(s)
          /\ UNCHANGED <<maxCount, owners, claimed>>
      BY <1>6 DEF LostRemote, Stoppable
    <2>2. CASE CurrentStep(b) = {}
      <3>1. stopped' = stopped \cup {b} /\ StopWaiting(b, ls)
        BY <2>1, <2>2
      <3>2. \A l \in ToSet(acquiring[b]) : b \in InQueue(waiting[l]) => l \in ls
        BY DEF Waits, Places, InQueue
      <3> HIDE DEF ls
      <3>3. QED
        BY <2>1, <3>1, <3>2, StopBuildInterest
    <2>3. CASE CurrentStep(b) # {}
      <3>1. PICK t : t \in CurrentStep(b)
        BY <2>3
      <3>2. CurrentStep(b) = {t}
        BY <3>1, LocksAssumption DEF CurrentStep, StepsOf
      <3>3. stopped' = stopped \cup {t}
        BY <2>1, <3>2
      <3>4. QED
        BY <2>1, <2>3, <3>1, <3>3, InterruptInterest
    <2>4. QED
      BY <2>2, <2>3
  <1>7. CASE UNCHANGED vars
    BY <1>7 DEF vars, WInv, Interested, Recalls
  <1>8. QED
    BY <1>1, <1>2, <1>3, <1>4, <1>5, <1>6, <1>7 DEF Next

-----------------------------------------------------------------------------
(* What a woken waiter finds *)

\* A lock whose limit stays as it is, and of which everybody takes one unit.
Plain(l) ==
  /\ \A m, n \in MaxCounts[l] : m = n
  /\ \A r \in Askers(l) : Need(r, l).count = 1

\* Sets of places have a last one.
LEMMA LastPlace ==
  ASSUME NEW n \in Nat, NEW T \in SUBSET (1..n), T # {}
  PROVE  Max(T) \in T
  <1> DEFINE G == {S \in SUBSET (1..n) : S # {} => \E i \in S : \A j \in S : i >= j}
  <1>1. ASSUME NEW S \in SUBSET (1..n), \A x \in S : S \ {x} \in G
        PROVE  S \in G
    <2>1. SUFFICES ASSUME S # {} PROVE \E i \in S : \A j \in S : i >= j
      OBVIOUS
    <2>2. PICK x \in S : S \ {x} \in G
      BY <1>1, <2>1
    <2>3. CASE S \ {x} = {}
      <3>1. \A j \in S : x >= j
        BY <2>3
      <3>2. QED
        BY <3>1
    <2>4. CASE S \ {x} # {}
      <3>1. PICK i \in S \ {x} : \A j \in S \ {x} : i >= j
        BY <2>2, <2>4
      <3>2. CASE x > i
        <4>1. \A j \in S : x >= j
          BY <3>1, <3>2
        <4>2. QED
          BY <4>1
      <3>3. CASE ~(x > i)
        <4>1. \A j \in S : i >= j
          BY <3>1, <3>3
        <4>2. QED
          BY <4>1
      <3>4. QED
        BY <3>2, <3>3
    <2>5. QED
      BY <2>3, <2>4
  <1>2. IsFiniteSet(T)
    <2>1. IsFiniteSet(1..n)
      BY FS_Interval
    <2>2. QED
      BY <2>1, FS_Subset
  <1>3. T \in G
    <2> HIDE DEF G
    <2>1. QED
      BY <1>1, <1>2, FiniteInduction
  <1>4. QED
    BY <1>3 DEF Max

\* The places of queue q before place i whose waiters ask for a mode.
Before(l, q, i, mode) == {j \in 1..(i - 1) : Need(q[j].who, l).mode = mode}

\* Where everybody takes one unit, _tryWakeUp counts the waiters it passes.
LEMMA PassedAreCounted ==
  ASSUME NEW l \in Lock, NEW q, Queued(l, q), \A r \in Askers(l) : Need(r, l).count = 1,
         NEW i \in DOMAIN q, NEW mode
  PROVE  /\ IsFiniteSet(Before(l, q, i, mode))
         /\ PassedBefore(l, q, i, mode) = Cardinality(Before(l, q, i, mode))
  <1> DEFINE a == SubSeq(q, 1, i - 1)
             D == DOMAIN a
             agrees(j) == Need(a[j].who, l).mode = mode
             Folds(f) == f = [T \in SUBSET D |->
                               IF T = {} THEN 0
                               ELSE IF Need(a[Max(T)].who, l).mode = mode
                                    THEN f[T \ {Max(T)}] + Need(a[Max(T)].who, l).count
                                    ELSE f[T \ {Max(T)}]]
             g == [T \in SUBSET D |-> Cardinality({j \in T : agrees(j)})]
  <1>1. q \in Seq(Waiter) /\ Len(q) \in Nat /\ DOMAIN q = 1..Len(q)
    BY DEF Queued
  <1>2. /\ i \in Nat /\ i - 1 \in Nat /\ D = 1..(i - 1)
        /\ \A j \in D : a[j] = q[j] /\ j \in DOMAIN q
    BY <1>1
  <1>3. PassedBefore(l, q, i, mode) = (CHOOSE f : Folds(f))[D]
    BY DEF PassedBefore, FoldLeft, MapThenFoldSet
  <1> HIDE DEF a, D
  <1>4. \A T \in SUBSET D : IsFiniteSet(T) /\ (T # {} => Max(T) \in T)
    <2>1. IsFiniteSet(1..(i - 1))
      BY <1>2, FS_Interval
    <2>2. QED
      BY <1>2, <2>1, FS_Subset, LastPlace
  <1>5. \A j \in D : Need(a[j].who, l).count = 1
    BY <1>2 DEF Queued
  <1>6. Folds(g)
    <2>1. ASSUME NEW T \in SUBSET D
          PROVE  g[T] = IF T = {} THEN 0
                        ELSE IF agrees(Max(T))
                             THEN g[T \ {Max(T)}] + Need(a[Max(T)].who, l).count
                             ELSE g[T \ {Max(T)}]
      <3>1. CASE T = {}
        <4>1. {j \in T : agrees(j)} = {}
          BY <3>1
        <4>2. QED
          BY <3>1, <4>1, FS_EmptySet
      <3>2. CASE T # {}
        <4> DEFINE x == Max(T)
                   A == {j \in T : agrees(j)}
                   B == {j \in T \ {x} : agrees(j)}
        <4>1. x \in T /\ T \ {x} \in SUBSET D /\ IsFiniteSet(A)
          <5>1. IsFiniteSet(T) /\ A \subseteq T
            BY <1>4
          <5>2. QED
            BY <1>4, <3>2, <5>1, FS_Subset
        <4>2. g[T] = Cardinality(A) /\ g[T \ {x}] = Cardinality(B)
          BY <4>1
        <4>3. Need(a[x].who, l).count = 1
          BY <1>5, <4>1
        <4> HIDE DEF x
        <4>4. CASE agrees(x)
          <5>1. x \in A /\ B = A \ {x}
            BY <4>1, <4>4
          <5> HIDE DEF A, B, agrees
          <5>2. Cardinality(A) = Cardinality(B) + 1
            <6>1. /\ Cardinality(A) \in Nat /\ Cardinality(A \ {x}) \in Nat
                  /\ Cardinality(A \ {x}) = IF x \in A THEN Cardinality(A) - 1 ELSE Cardinality(A)
              BY <4>1, FS_RemoveElement, FS_CardinalityType
            <6>2. QED
              BY <5>1, <6>1
          <5>3. QED
            BY <3>2, <4>2, <4>3, <4>4, <5>2 DEF x
        <4>5. CASE ~agrees(x)
          <5>1. B = A
            BY <4>1, <4>5
          <5> HIDE DEF A, B, agrees
          <5>2. QED
            BY <3>2, <4>2, <4>5, <5>1 DEF x
        <4>6. QED
          BY <4>4, <4>5
      <3>3. QED
        BY <3>1, <3>2
    <2>2. QED
      BY <2>1
  <1>7. ASSUME NEW f, Folds(f) PROVE f[D] = g[D]
    <2> DEFINE G == {T \in SUBSET D : f[T] = g[T]}
               next(h, T) == IF T = {} THEN 0
                             ELSE IF agrees(Max(T))
                                  THEN h[T \ {Max(T)}] + Need(a[Max(T)].who, l).count
                                  ELSE h[T \ {Max(T)}]
    <2>1. \A T \in SUBSET D : f[T] = next(f, T) /\ g[T] = next(g, T)
      BY <1>6, <1>7
    <2>2. ASSUME NEW T \in SUBSET D, \A x \in T : T \ {x} \in G
          PROVE  f[T] = g[T]
      <3>1. T # {} => f[T \ {Max(T)}] = g[T \ {Max(T)}]
        BY <1>4, <2>2
      <3> HIDE DEF g, agrees
      <3>2. next(f, T) = next(g, T)
        BY <3>1
      <3>3. QED
        BY <2>1, <3>2
    <2>3. \A T \in SUBSET D : IsFiniteSet(T) => T \in G
      <3>1. \A T \in SUBSET D : IsFiniteSet(T) /\ (\A x \in T : T \ {x} \in G) => T \in G
        BY <2>2
      <3> HIDE DEF G
      <3>2. QED
        BY <3>1, FiniteInduction
    <2>4. QED
      BY <1>4, <2>3
  <1>8. (CHOOSE f : Folds(f))[D] = g[D]
    <2> HIDE DEF Folds, g
    <2>1. Folds(CHOOSE f : Folds(f))
      BY <1>6
    <2>2. QED
      BY <1>7, <2>1
  <1>9. {j \in D : agrees(j)} = Before(l, q, i, mode)
    BY <1>2 DEF Before
  <1>10. IsFiniteSet(Before(l, q, i, mode))
    <2>1. {j \in D : agrees(j)} \subseteq D
      OBVIOUS
    <2>2. QED
      BY <1>4, <1>9, <2>1, FS_Subset
  <1>11. g[D] = Cardinality({j \in D : agrees(j)})
    OBVIOUS
  <1>12. QED
    BY <1>3, <1>8, <1>9, <1>10, <1>11

\* Whoever was woken in queue q finds lock l, with limit m and counters c, free
\* for all who were there before, and for itself.
Served(l, m, q, c) ==
  \A i \in DOMAIN q : q[i].woken =>
    /\ c.exclusive = 0
    /\ \/ Need(q[i].who, l).mode = "exclusive" /\ i = 1 /\ c.counting = 0
       \/ /\ c.counting + i <= m
          /\ \A j \in 1..i : Need(q[j].who, l).mode = "counting"

\* _tryWakeUp wakes only waiters that will be served.
LEMMA WakeServes ==
  ASSUME NEW l \in Lock, Plain(l), NEW m \in Nat, NEW q, Queued(l, q), NEW c \in Counters,
         Served(l, m, q, c)
  PROVE  Served(l, m, TryWakeUp(l, q, c, m), c)
  <1> DEFINE t == TryWakeUp(l, q, c, m)
  <1>1. q \in Seq(Waiter) /\ Len(q) \in Nat /\ DOMAIN q = 1..Len(q)
    BY DEF Queued
  <1>2. /\ DOMAIN t = DOMAIN q
        /\ \A i \in DOMAIN q :
             /\ t[i].who = q[i].who
             /\ t[i].woken <=> q[i].woken \/ \A j \in 1..i : Passes(l, q, c, m, j)
    BY WakePlaces
  <1> HIDE DEF t
  <1>3. c.exclusive \in Nat /\ c.counting \in Nat
    BY DEF Counters
  <1>4. ASSUME NEW i \in DOMAIN q, Passes(l, q, c, m, i)
        PROVE  /\ c.exclusive = 0
               /\ \/ Need(q[i].who, l).mode = "exclusive" /\ i = 1 /\ c.counting = 0
                  \/ /\ c.counting + i <= m
                     /\ \A j \in 1..i : Need(q[j].who, l).mode = "counting"
    <2> DEFINE E == Before(l, q, i, "exclusive")
               C == Before(l, q, i, "counting")
    <2>1. i \in Nat \ {0} /\ \A j \in 1..i : j \in DOMAIN q
      BY <1>1
    <2>2. \A j \in 1..i : Need(q[j].who, l).mode \in {"counting", "exclusive"}
      BY <2>1, NeedIsAccess DEF Queued, Mode
    <2>3. /\ IsFiniteSet(E) /\ PassedBefore(l, q, i, "exclusive") = Cardinality(E)
          /\ IsFiniteSet(C) /\ PassedBefore(l, q, i, "counting") = Cardinality(C)
      BY PassedAreCounted DEF Plain
    <2>4. Cardinality(E) \in Nat /\ Cardinality(C) \in Nat
      BY <2>3, FS_CardinalityType
    <2>5. /\ c.exclusive + Cardinality(E) = 0
          /\ IF Need(q[i].who, l).mode = "counting"
             THEN c.counting + Cardinality(C) < m ELSE c.counting + Cardinality(C) = 0
      BY <1>4, <2>3 DEF Passes
    <2>6. c.exclusive = 0 /\ E = {}
      <3>1. c.exclusive = 0 /\ Cardinality(E) = 0
        BY <1>3, <2>4, <2>5
      <3>2. QED
        BY <2>3, <3>1, FS_EmptySet
    <2>7. \A j \in 1..(i - 1) : j \in 1..i /\ Need(q[j].who, l).mode = "counting"
      <3>1. \A j \in 1..(i - 1) : j \in 1..i /\ Need(q[j].who, l).mode # "exclusive"
        BY <2>1, <2>6 DEF Before
      <3>2. QED
        BY <2>2, <3>1
    <2>8. Cardinality(C) = i - 1
      <3>1. C = 1..(i - 1)
        BY <2>7 DEF Before
      <3>2. \A k \in Nat : Cardinality(1..k) = k
        <4>1. \A k \in Nat : Cardinality(1..k) = IF 1 > k THEN 0 ELSE k - 1 + 1
          BY FS_Interval
        <4>2. \A k \in Nat : (IF 1 > k THEN 0 ELSE k - 1 + 1) = k
          OBVIOUS
        <4>3. QED
          BY <4>1, <4>2
      <3>3. i - 1 \in Nat
        BY <2>1
      <3>4. QED
        BY <3>1, <3>2, <3>3
    <2>9. CASE Need(q[i].who, l).mode = "counting"
      <3>1. c.counting + i <= m
        BY <1>3, <2>1, <2>5, <2>8, <2>9
      <3>2. \A j \in 1..i : j \in 1..(i - 1) \/ j = i
        BY <2>1
      <3>3. QED
        BY <2>6, <2>7, <2>9, <3>1, <3>2
    <2>10. CASE Need(q[i].who, l).mode # "counting"
      <3>1. i = 1 /\ c.counting = 0
        BY <1>3, <2>1, <2>5, <2>8, <2>10
      <3>2. i \in 1..i
        BY <2>1
      <3>3. QED
        BY <2>2, <2>6, <2>10, <3>1, <3>2
    <2>11. QED
      BY <2>9, <2>10
  <1>5. ASSUME NEW i \in DOMAIN t, t[i].woken
        PROVE  /\ c.exclusive = 0
               /\ \/ Need(q[i].who, l).mode = "exclusive" /\ i = 1 /\ c.counting = 0
                  \/ /\ c.counting + i <= m
                     /\ \A j \in 1..i : Need(q[j].who, l).mode = "counting"
    <2>1. CASE q[i].woken
      BY <1>2, <2>1 DEF Served
    <2>2. CASE ~q[i].woken
      <3>1. i \in 1..i
        BY <1>1, <1>2
      <3>2. Passes(l, q, c, m, i)
        BY <1>2, <1>5, <2>2, <3>1
      <3>3. QED
        BY <1>2, <1>4, <3>2
    <2>3. QED
      BY <2>1, <2>2
  <1>6. \A i \in DOMAIN t : t[i].who = q[i].who /\ \A j \in 1..i : t[j].who = q[j].who
    BY <1>1, <1>2
  <1>7. Served(l, m, t, c)
    BY <1>5, <1>6 DEF Served
  <1>8. QED
    BY <1>7 DEF t

\* When somebody leaves the queue, the others move up.
LEMMA WithoutServes ==
  ASSUME NEW l \in Lock, NEW m \in Nat, NEW q, Queued(l, q), NEW c \in Counters, NEW r,
         Served(l, m, q, c)
  PROVE  Served(l, m, Without(q, r), c)
  <1> DEFINE w == Without(q, r)
             p == Place(q, r)
  <1>1. Len(q) \in Nat /\ DOMAIN q = 1..Len(q) /\ c.counting \in Nat
    BY DEF Queued, Counters
  <1>2. CASE Places(q, r) = {}
    BY <1>2 DEF Without
  <1>3. CASE Places(q, r) # {}
    <2>1. /\ p \in 1..Len(q) /\ DOMAIN w = 1..(Len(q) - 1)
          /\ \A j \in 1..(Len(q) - 1) : w[j] = IF j < p THEN q[j] ELSE q[j + 1]
      BY <1>3, WithoutPlaces
    <2> HIDE DEF w, p
    <2>2. ASSUME NEW i \in DOMAIN w, w[i].woken
          PROVE  /\ c.exclusive = 0
                 /\ \/ Need(w[i].who, l).mode = "exclusive" /\ i = 1 /\ c.counting = 0
                    \/ /\ c.counting + i <= m
                       /\ \A j \in 1..i : Need(w[j].who, l).mode = "counting"
      <3>1. CASE i < p
        <4>1. i \in DOMAIN q /\ w[i] = q[i] /\ \A j \in 1..i : w[j] = q[j]
          BY <1>1, <2>1, <3>1
        <4>2. QED
          BY <2>2, <4>1 DEF Served
      <3>2. CASE ~(i < p)
        <4>1. /\ i + 1 \in DOMAIN q /\ w[i] = q[i + 1] /\ i + 1 # 1
              /\ \A j \in 1..i : /\ w[j] = q[j] \/ w[j] = q[j + 1]
                                 /\ j \in 1..(i + 1) /\ j + 1 \in 1..(i + 1)
          BY <1>1, <2>1, <3>2
        <4>2. /\ c.exclusive = 0 /\ c.counting + (i + 1) <= m
              /\ \A j \in 1..(i + 1) : Need(q[j].who, l).mode = "counting"
          BY <2>2, <4>1 DEF Served
        <4>3. c.counting + i <= m
          BY <1>1, <2>1, <4>2
        <4>4. \A j \in 1..i : Need(w[j].who, l).mode = "counting"
          BY <4>1, <4>2
        <4>5. QED
          BY <4>2, <4>3, <4>4
      <3>3. QED
        BY <3>1, <3>2
    <2>3. QED
      BY <2>2 DEF Served, w
  <1>4. QED
    BY <1>2, <1>3

\* The lock is available to a woken waiter.
LEMMA ServedIsAvailable ==
  ASSUME NEW l \in Lock, Plain(l), Queued(l, waiting[l]), claimed[l] \in Counters,
         Served(l, maxCount[l], waiting[l], claimed[l]),
         NEW p \in DOMAIN waiting[l], waiting[l][p].woken
  PROVE  IsAvailable(waiting[l][p].who, l)
  <1> DEFINE q == waiting[l]
             r == q[p].who
             c == claimed[l]
             n == Need(r, l)
  <1>1. /\ q \in Seq(Waiter) /\ Len(q) \in Nat /\ DOMAIN q = 1..Len(q)
        /\ \A i, j \in DOMAIN q : q[i].who = q[j].who => i = j
        /\ \A i \in DOMAIN q : q[i].who \in Askers(l)
    BY DEF Queued
  <1>2. n.count = 1 /\ n.mode \in Mode
    BY <1>1, NeedIsAccess DEF Plain
  <1>3. Places(q, r) = {p}
    BY <1>1 DEF Places
  <1>4. Ahead(r, l) = SubSeq(q, 1, p - 1)
    BY <1>3 DEF Ahead, Waits, Place
  <1> DEFINE a == SubSeq(q, 1, p - 1)
  <1>5. Len(a) = p - 1 /\ DOMAIN a = 1..(p - 1) /\ \A j \in 1..(p - 1) : a[j] = q[j]
    BY <1>1
  <1>6. /\ c.exclusive = 0 /\ c.counting \in Nat
        /\ \/ n.mode = "exclusive" /\ p = 1 /\ c.counting = 0
           \/ /\ c.counting + p <= maxCount[l]
              /\ \A j \in 1..p : Need(q[j].who, l).mode = "counting"
    BY DEF Served, Counters
  <1> HIDE DEF a
  <1>7. Grants(l, n, a)
    <2>1. CASE n.mode = "exclusive" /\ p = 1 /\ c.counting = 0
      <3>1. a = <<>>
        BY <1>1, <2>1 DEF a
      <3>2. QED
        BY <1>6, <2>1, <3>1 DEF Grants
    <2>2. CASE /\ c.counting + p <= maxCount[l]
               /\ \A j \in 1..p : Need(q[j].who, l).mode = "counting"
      <3>1. p \in 1..p /\ \A j \in 1..(p - 1) : j \in 1..p
        BY <1>1
      <3>2. n.mode = "counting" /\ \A j \in DOMAIN a : Need(a[j].who, l).mode = "counting"
        BY <1>5, <2>2, <3>1
      <3>3. c.counting + Len(a) + n.count = c.counting + p
        BY <1>1, <1>2, <1>5, <1>6
      <3>4. QED
        BY <1>6, <2>2, <3>2, <3>3 DEF Grants
    <2>3. QED
      BY <1>6, <2>1, <2>2
  <1>8. QED
    BY <1>4, <1>7 DEF IsAvailable, a

\* Who claims the lock leaves room for those who were woken.
LEMMA ClaimServes ==
  ASSUME NEW l \in Lock, Plain(l), Queued(l, waiting[l]), claimed[l] \in Counters,
         maxCount[l] \in Nat,
         Served(l, maxCount[l], waiting[l], claimed[l]),
         NEW r \in Askers(l), IsAvailable(r, l)
  PROVE  Served(l, maxCount[l], Without(waiting[l], r), Charge(claimed[l], Need(r, l), 1))
  <1> DEFINE q == waiting[l]
             w == Without(q, r)
             c == claimed[l]
             n == Need(r, l)
             d == Charge(c, n, 1)
             a == Ahead(r, l)
             p == Place(q, r)
             m == maxCount[l]
  <1> SUFFICES Served(l, m, w, d)
    OBVIOUS
  <1>1. q \in Seq(Waiter) /\ Len(q) \in Nat /\ DOMAIN q = 1..Len(q)
    BY DEF Queued
  <1>2. n.count = 1 /\ n.mode \in {"counting", "exclusive"}
    BY NeedIsAccess DEF Plain, Mode
  <1>3. /\ c.exclusive = 0 /\ c.counting \in Nat /\ m \in Nat
        /\ \/ /\ n.mode = "counting"
              /\ c.counting + Len(a) + n.count <= m
              /\ \A i \in DOMAIN a : Need(a[i].who, l).mode = "counting"
           \/ n.mode = "exclusive" /\ c.counting = 0 /\ a = <<>>
    BY DEF IsAvailable, Grants, Counters
  <1>4. /\ n.mode = "exclusive" => d.exclusive = 1
        /\ n.mode = "counting" => d.exclusive = 0 /\ d.counting = c.counting + 1
    BY <1>2, <1>3, Charged DEF Counters
  <1>5. \A i \in DOMAIN q : q[i].woken =>
          \/ Need(q[i].who, l).mode = "exclusive" /\ i = 1 /\ c.counting = 0
          \/ /\ c.counting + i <= m
             /\ \A j \in 1..i : Need(q[j].who, l).mode = "counting"
    BY DEF Served
  <1> HIDE DEF c, d, m, n
  <1>6. CASE Places(q, r) = {}
    <2>1. a = q /\ w = q
      BY <1>6 DEF Ahead, Waits, Without
    <2> HIDE DEF a, w
    <2>2. CASE n.mode = "counting"
      <3>1. c.counting + Len(q) + 1 <= m /\ \A i \in DOMAIN q : Need(q[i].who, l).mode = "counting"
        BY <1>2, <1>3, <2>1, <2>2
      <3>2. ASSUME NEW i \in DOMAIN q
            PROVE  d.counting + i <= m /\ \A j \in 1..i : j \in DOMAIN q
        BY <1>1, <1>3, <1>4, <2>2, <3>1
      <3>3. QED
        BY <1>4, <2>1, <2>2, <3>1, <3>2 DEF Served
    <2>3. CASE n.mode = "exclusive"
      <3>1. DOMAIN w = {}
        BY <1>2, <1>3, <2>1, <2>3
      <3>2. QED
        BY <3>1 DEF Served
    <2>4. QED
      BY <1>2, <2>2, <2>3
  <1>7. CASE Places(q, r) # {}
    <2>1. /\ p \in 1..Len(q) /\ q[p].who = r /\ DOMAIN w = 1..(Len(q) - 1)
          /\ \A j \in 1..(Len(q) - 1) : w[j] = IF j < p THEN q[j] ELSE q[j + 1]
      BY <1>7, WithoutPlaces
    <2>2. a = SubSeq(q, 1, p - 1)
      BY <1>7 DEF Ahead, Waits
    <2> HIDE DEF a, w, p
    <2>3. Len(a) = p - 1 /\ DOMAIN a = 1..(p - 1) /\ \A j \in 1..(p - 1) : a[j] = q[j]
      BY <1>1, <2>1, <2>2
    <2>4. CASE n.mode = "counting"
      <3>1. c.counting + p <= m /\ \A j \in 1..(p - 1) : Need(q[j].who, l).mode = "counting"
        <4>1. c.counting + Len(a) + n.count = c.counting + p
          BY <1>1, <1>2, <1>3, <2>1, <2>3
        <4>2. QED
          BY <1>2, <1>3, <2>3, <2>4, <4>1
      <3>2. ASSUME NEW i \in DOMAIN w, w[i].woken
            PROVE  /\ d.counting + i <= m
                   /\ \A j \in 1..i : Need(w[j].who, l).mode = "counting"
        <4>1. CASE i < p
          <5>1. \A j \in 1..i : j \in 1..(p - 1) /\ w[j] = q[j]
            BY <1>1, <2>1, <4>1
          <5>2. d.counting + i <= m
            BY <1>1, <1>3, <1>4, <2>1, <2>4, <3>1, <4>1
          <5>3. QED
            BY <3>1, <5>1, <5>2
        <4>2. CASE ~(i < p)
          <5>1. /\ i + 1 \in DOMAIN q /\ w[i] = q[i + 1] /\ i + 1 # 1
                /\ \A j \in 1..i : /\ w[j] = q[j] \/ w[j] = q[j + 1]
                                   /\ j \in 1..(i + 1) /\ j + 1 \in 1..(i + 1)
            BY <1>1, <2>1, <4>2
          <5>2. /\ c.counting + (i + 1) <= m
                /\ \A j \in 1..(i + 1) : Need(q[j].who, l).mode = "counting"
            BY <1>5, <3>2, <5>1
          <5>3. d.counting + i <= m
            BY <1>1, <1>3, <1>4, <2>1, <2>4, <5>2
          <5>4. QED
            BY <5>1, <5>2, <5>3
        <4>3. QED
          BY <4>1, <4>2
      <3>3. QED
        BY <1>4, <2>4, <3>2 DEF Served
    <2>5. CASE n.mode = "exclusive"
      <3>1. p = 1
        <4>1. Len(a) = 0
          BY <1>2, <1>3, <2>5
        <4>2. QED
          BY <2>1, <2>3, <4>1
      <3>2. ASSUME NEW i \in DOMAIN w, w[i].woken
            PROVE  FALSE
        <4>1. i + 1 \in DOMAIN q /\ w[i] = q[i + 1] /\ i + 1 # 1 /\ 1 \in 1..(i + 1)
          BY <1>1, <2>1, <3>1
        <4>2. Need(q[1].who, l).mode = "counting"
          BY <1>5, <3>2, <4>1
        <4>3. QED
          BY <2>1, <2>5, <3>1, <4>2 DEF n
      <3>3. QED
        BY <3>2 DEF Served
    <2>6. QED
      BY <1>2, <2>4, <2>5
  <1>8. QED
    BY <1>6, <1>7

\* A release leaves more room.
LEMMA ReleaseServes ==
  ASSUME NEW l \in Lock, NEW o, NEW c, Compatible(l, o, c), NEW m \in Nat,
         NEW q, Served(l, m, q, c), Queued(l, q), NEW r \in o
  PROVE  Served(l, m, q, Charge(c, Need(r, l), -1))
  <1> DEFINE n == Need(r, l)
             d == Charge(c, n, -1)
  <1> SUFFICES Served(l, m, q, d)
    OBVIOUS
  <1>1. c \in Counters /\ r \in Askers(l)
    BY DEF Compatible
  <1>2. n.count \in Nat \ {0} /\ n.mode \in {"counting", "exclusive"}
    BY <1>1, NeedIsAccess DEF Mode
  <1>3. d \in Counters
    BY ReleaseKeeps DEF Compatible
  <1>4. /\ n.mode = "exclusive" => d.exclusive = c.exclusive - n.count
        /\ n.mode = "counting" => d.exclusive = c.exclusive /\ d.counting = c.counting - n.count
    BY <1>1, <1>2, Charged DEF Counters
  <1> HIDE DEF d
  <1>5. CASE n.mode = "exclusive"
    <2>1. c.exclusive # 0
      BY <1>1, <1>2, <1>3, <1>4, <1>5 DEF Counters
    <2>2. QED
      BY <2>1 DEF Served
  <1>6. CASE n.mode = "counting"
    <2>1. /\ d.exclusive = c.exclusive /\ c.counting # 0
          /\ \A i \in Nat : c.counting + i <= m => d.counting + i <= m
      BY <1>1, <1>2, <1>3, <1>4, <1>6 DEF Counters
    <2>2. \A i \in DOMAIN q : i \in Nat
      BY DEF Queued
    <2>3. QED
      BY <2>1, <2>2 DEF Served
  <1>7. QED
    BY <1>2, <1>5, <1>6

\* Who joins the queue, or waits again, was not woken.
LEMMA WaitServes ==
  ASSUME NEW l, NEW m, NEW q, Queued(l, q), NEW c, NEW t, NEW n \in Nat,
         Served(l, m, q, c), DOMAIN t = 1..n,
         \A i \in 1..n : t[i].woken => i \in DOMAIN q /\ q[i].woken,
         \A i \in DOMAIN q : i \in 1..n /\ t[i].who = q[i].who
  PROVE  Served(l, m, t, c)
  <1>1. DOMAIN q = 1..Len(q) /\ Len(q) \in Nat
    BY DEF Queued
  <1>2. ASSUME NEW i \in DOMAIN t, t[i].woken
        PROVE  /\ c.exclusive = 0
               /\ \/ Need(t[i].who, l).mode = "exclusive" /\ i = 1 /\ c.counting = 0
                  \/ /\ c.counting + i <= m
                     /\ \A j \in 1..i : Need(t[j].who, l).mode = "counting"
    <2>1. i \in DOMAIN q /\ q[i].woken
      BY <1>2
    <2>2. \A j \in 1..i : j \in DOMAIN q
      BY <1>1, <2>1
    <2>3. t[i].who = q[i].who /\ \A j \in 1..i : t[j].who = q[j].who
      BY <2>1, <2>2
    <2>4. QED
      BY <2>1, <2>3 DEF Served
  <1>3. QED
    BY <1>2 DEF Served

WokenServed ==
  \A l \in Lock : Plain(l) => Served(l, maxCount[l], waiting[l], claimed[l])

\* What the following lemmas need to know of a lock.
LEMMA LockFacts ==
  ASSUME IInv, NEW l \in Lock
  PROVE  /\ Queued(l, waiting[l]) /\ Compatible(l, owners[l], claimed[l])
         /\ claimed[l] \in Counters /\ maxCount[l] \in Nat /\ maxCount[l] \in MaxCounts[l]
  BY DEF IInv, LocksLawful, Lawful, LocksTyped

\* A step of the system that leaves limits, queues and counters alone.
LEMMA StillServes ==
  ASSUME WokenServed, UNCHANGED <<maxCount, waiting, claimed>>
  PROVE  WokenServed'
  BY DEF WokenServed

\* A larger limit wakes more waiters; a plain lock has one limit only.
LEMMA SetMaxCountServes ==
  ASSUME IInv, WokenServed, NEW k \in Lock, SetMaxCount(k)
  PROVE  WokenServed'
  <1>1. PICK m \in MaxCounts[k] \ {maxCount[k]} :
          /\ maxCount' = [maxCount EXCEPT ![k] = m]
          /\ waiting' = IF m > maxCount[k]
                        THEN [waiting EXCEPT ![k] = TryWakeUp(k, @, claimed[k], m)]
                        ELSE waiting
    BY DEF SetMaxCount
  <1>2. claimed' = claimed
    BY DEF SetMaxCount
  <1>3. ASSUME NEW l \in Lock, Plain(l)
        PROVE  Served(l, maxCount'[l], waiting'[l], claimed'[l])
    <2>1. l # k
      BY <1>1, <1>3, LockFacts DEF Plain
    <2>2. maxCount'[l] = maxCount[l] /\ waiting'[l] = waiting[l]
      BY <1>1, <2>1 DEF IInv, LocksTyped
    <2>3. QED
      BY <1>2, <1>3, <2>2 DEF WokenServed
  <1>4. QED
    BY <1>3 DEF WokenServed

\* Who claims all its locks takes the room kept for it, no more.
LEMMA ClaimAllServes ==
  ASSUME IInv, WokenServed, NEW r \in Requester, ClaimAll(r)
  PROVE  WokenServed'
  <1>1. /\ \A l \in LocksOf(r) : IsAvailable(r, l)
        /\ claimed' = [l \in Lock |->
             IF l \in LocksOf(r) THEN Charge(claimed[l], Need(r, l), 1) ELSE claimed[l]]
        /\ waiting' = [l \in Lock |->
             IF l \in LocksOf(r) THEN Without(waiting[l], r) ELSE waiting[l]]
        /\ maxCount' = maxCount
    BY DEF ClaimAll
  <1>2. ASSUME NEW l \in Lock, Plain(l)
        PROVE  Served(l, maxCount'[l], waiting'[l], claimed'[l])
    <2>1. Served(l, maxCount[l], waiting[l], claimed[l])
      BY <1>2 DEF WokenServed
    <2>2. CASE l \in LocksOf(r)
      <3>1. r \in Askers(l) /\ IsAvailable(r, l)
        BY <1>1, <2>2 DEF Askers
      <3>2. Served(l, maxCount[l], Without(waiting[l], r), Charge(claimed[l], Need(r, l), 1))
        BY <1>2, <2>1, <3>1, LockFacts, ClaimServes
      <3>3. /\ waiting'[l] = Without(waiting[l], r) /\ maxCount'[l] = maxCount[l]
            /\ claimed'[l] = Charge(claimed[l], Need(r, l), 1)
        BY <1>1, <2>2
      <3>4. QED
        BY <3>2, <3>3
    <2>3. CASE l \notin LocksOf(r)
      <3>1. /\ waiting'[l] = waiting[l] /\ maxCount'[l] = maxCount[l]
            /\ claimed'[l] = claimed[l]
        BY <1>1, <2>3
      <3>2. QED
        BY <2>1, <3>1
    <2>4. QED
      BY <2>2, <2>3
  <1>3. QED
    BY <1>2 DEF WokenServed

\* Who waits for a lock takes no room.
LEMMA WaitForLockServes ==
  ASSUME IInv, WokenServed, NEW r \in Requester, WaitForLock(r)
  PROVE  WokenServed'
  <1> DEFINE k == FirstUnavailable(r)
             e == [who |-> r, woken |-> FALSE]
             asleep == [i \in DOMAIN waiting[k] |->
               IF waiting[k][i].who = r THEN e ELSE waiting[k][i]]
             q == IF Waits(r, k) THEN asleep ELSE Append(waiting[k], e)
  <1>1. waiting' = [waiting EXCEPT ![k] = q]
    BY DEF WaitForLock
  <1>2. UNCHANGED <<maxCount, claimed>>
    BY DEF WaitForLock
  <1> HIDE DEF k
  <1>3. ASSUME NEW l \in Lock, Plain(l)
        PROVE  Served(l, maxCount'[l], waiting'[l], claimed'[l])
    <2>1. /\ Served(l, maxCount[l], waiting[l], claimed[l])
          /\ Queued(l, waiting[l])
      BY <1>3, LockFacts DEF WokenServed
    <2>2. CASE l = k
      <3>1. waiting[l] \in Seq(Waiter) /\ Len(waiting[l]) \in Nat
            /\ DOMAIN waiting[l] = 1..Len(waiting[l])
        BY <2>1 DEF Queued
      <3>2. e.who = r /\ ~e.woken
        OBVIOUS
      <3> HIDE DEF e
      <3>3. CASE Waits(r, k)
        <4>1. q = asleep /\ DOMAIN asleep = 1..Len(waiting[l])
          BY <2>2, <3>1, <3>3
        <4>2. \A i \in 1..Len(waiting[l]) :
                /\ asleep[i].woken => waiting[l][i].woken
                /\ asleep[i].who = waiting[l][i].who
          BY <2>2, <3>1, <3>2
        <4> HIDE DEF asleep, q
        <4>3. Served(l, maxCount[l], q, claimed[l])
          BY <2>1, <3>1, <4>1, <4>2, WaitServes
        <4>4. QED
          BY <1>1, <1>2, <1>3, <2>2, <4>3 DEF IInv, LocksTyped
      <3>4. CASE ~Waits(r, k)
        <4> DEFINE t == Append(waiting[l], e)
        <4>1. q = t
          BY <2>2, <3>4
        <4>2. /\ DOMAIN t = 1..(Len(waiting[l]) + 1) /\ Len(waiting[l]) + 1 \in Nat
              /\ \A i \in 1..Len(waiting[l]) : t[i] = waiting[l][i]
              /\ t[Len(waiting[l]) + 1] = e
          BY <3>1
        <4> HIDE DEF t, q
        <4>3. \A i \in 1..(Len(waiting[l]) + 1) : i \in 1..Len(waiting[l]) \/ i = Len(waiting[l]) + 1
          BY <3>1
        <4>4. \A i \in 1..(Len(waiting[l]) + 1) : t[i].woken => i \in DOMAIN waiting[l] /\ waiting[l][i].woken
          BY <3>1, <3>2, <4>2, <4>3
        <4>5. \A i \in DOMAIN waiting[l] : i \in 1..(Len(waiting[l]) + 1) /\ t[i].who = waiting[l][i].who
          BY <3>1, <4>2
        <4>6. Served(l, maxCount[l], t, claimed[l])
          BY <2>1, <4>2, <4>4, <4>5, WaitServes
        <4>7. QED
          BY <1>1, <1>2, <1>3, <2>2, <4>1, <4>6 DEF IInv, LocksTyped
      <3>5. QED
        BY <3>3, <3>4
    <2>3. CASE l # k
      <3>1. waiting'[l] = waiting[l]
        BY <1>1, <2>3 DEF IInv, LocksTyped
      <3>2. QED
        BY <1>2, <2>1, <3>1
    <2>4. QED
      BY <2>2, <2>3
  <1>4. QED
    BY <1>3 DEF WokenServed

\* Who is woken by a release finds the room that it left.
LEMMA ReleaseKeepsServed ==
  ASSUME IInv, WokenServed, NEW r \in Requester, Release(r), maxCount' = maxCount
  PROVE  WokenServed'
  <1> DEFINE freed == {l \in LocksOf(r) : r \in owners[l]}
  <1>1. /\ claimed' = [l \in Lock |->
             IF l \in freed THEN Charge(claimed[l], Need(r, l), -1) ELSE claimed[l]]
        /\ waiting' = [l \in Lock |->
             IF l \in freed THEN TryWakeUp(l, waiting[l], claimed'[l], maxCount[l])
                            ELSE waiting[l]]
    BY DEF Release
  <1>2. ASSUME NEW l \in Lock, Plain(l)
        PROVE  Served(l, maxCount'[l], waiting'[l], claimed'[l])
    <2>1. /\ Served(l, maxCount[l], waiting[l], claimed[l])
          /\ Queued(l, waiting[l]) /\ Compatible(l, owners[l], claimed[l])
          /\ maxCount[l] \in Nat
      BY <1>2, LockFacts DEF WokenServed
    <2>2. CASE l \in freed
      <3>1. r \in owners[l]
        BY <2>2
      <3>2. /\ claimed'[l] = Charge(claimed[l], Need(r, l), -1)
            /\ waiting'[l] = TryWakeUp(l, waiting[l], claimed'[l], maxCount[l])
        BY <1>1, <2>2
      <3>3. Served(l, maxCount[l], waiting[l], claimed'[l])
        BY <2>1, <3>1, <3>2, ReleaseServes
      <3>4. claimed'[l] \in Counters
        <4>1. Compatible(l, owners[l] \ {r}, Charge(claimed[l], Need(r, l), -1))
          BY <2>1, <3>1, ReleaseKeeps
        <4>2. QED
          BY <3>2, <4>1 DEF Compatible
      <3>5. Served(l, maxCount[l], waiting'[l], claimed'[l])
        BY <1>2, <2>1, <3>2, <3>3, <3>4, WakeServes
      <3>6. QED
        BY <3>5
    <2>3. CASE l \notin freed
      <3>1. waiting'[l] = waiting[l] /\ claimed'[l] = claimed[l]
        BY <1>1, <2>3
      <3>2. QED
        BY <2>1, <3>1
    <2>4. QED
      BY <2>2, <2>3
  <1>3. QED
    BY <1>2 DEF WokenServed

\* Who gives up leaves its room to those behind it.
LEMMA AbandonKeepsServed ==
  ASSUME IInv, WokenServed, NEW r, NEW ls, waiting' = Abandoned(r, ls),
         UNCHANGED <<maxCount, claimed>>
  PROVE  WokenServed'
  <1>1. waiting' = [l \in Lock |->
          IF l \notin ls THEN waiting[l]
          ELSE IF [who |-> r, woken |-> TRUE] \in ToSet(waiting[l])
               THEN TryWakeUp(l, Without(waiting[l], r), claimed[l], maxCount[l])
               ELSE Without(waiting[l], r)]
    BY DEF Abandoned
  <1>2. ASSUME NEW l \in Lock, Plain(l)
        PROVE  Served(l, maxCount'[l], waiting'[l], claimed'[l])
    <2> DEFINE left == Without(waiting[l], r)
    <2>1. /\ Served(l, maxCount[l], waiting[l], claimed[l]) /\ Queued(l, waiting[l])
          /\ claimed[l] \in Counters /\ maxCount[l] \in Nat
      BY <1>2, LockFacts DEF WokenServed
    <2>2. Queued(l, left) /\ Served(l, maxCount[l], left, claimed[l])
      BY <2>1, WithoutKeeps, WithoutServes
    <2>3. Served(l, maxCount[l], TryWakeUp(l, left, claimed[l], maxCount[l]), claimed[l])
      <3> HIDE DEF left
      <3>1. QED
        BY <1>2, <2>1, <2>2, WakeServes
    <2>4. \/ waiting'[l] = waiting[l] \/ waiting'[l] = left
          \/ waiting'[l] = TryWakeUp(l, left, claimed[l], maxCount[l])
      BY <1>1
    <2> HIDE DEF left
    <2>5. QED
      BY <2>1, <2>2, <2>3, <2>4
  <1>3. QED
    BY <1>2 DEF WokenServed

\* Every step of the system keeps it.
LEMMA WokenStayServed ==
  ASSUME IInv, WokenServed, [Next]_vars
  PROVE  WokenServed'
  <1>1. ASSUME NEW l \in Lock, SetMaxCount(l) PROVE WokenServed'
    BY <1>1, SetMaxCountServes
  <1>2. ASSUME NEW r \in Requester, AcquireStopped(r) PROVE WokenServed'
    BY <1>2, StillServes DEF AcquireStopped
  <1>3. ASSUME NEW r \in Requester, ClaimAll(r) \/ WaitForLock(r) PROVE WokenServed'
    BY <1>3, ClaimAllServes, WaitForLockServes
  <1>4. ASSUME NEW s \in Step, StartStep(s) PROVE WokenServed'
    BY <1>4, StillServes DEF StartStep
  <1>5. ASSUME NEW s \in Step, FinishStep(s) PROVE WokenServed'
    BY <1>5, StepsAreNotBuilds, ReleaseKeepsServed DEF FinishStep
  <1>6. ASSUME NEW b \in Build, Distribute(b) \/ FinishBuild(b) \/ RecordFinished(b)
        PROVE  WokenServed'
    BY <1>6, StillServes DEF Distribute, FinishBuild, RecordFinished
  <1>7. ASSUME NEW b \in Build, ReleaseLocks(b) PROVE WokenServed'
    BY <1>7, ReleaseKeepsServed DEF ReleaseLocks, Requester
  <1>8. ASSUME NEW r, NEW ls, StopWaiting(r, ls), UNCHANGED <<maxCount, claimed>>
        PROVE  WokenServed'
    BY <1>8, AbandonKeepsServed DEF StopWaiting
  <1>9. ASSUME NEW s, Interrupt(s), UNCHANGED <<maxCount, claimed>> PROVE WokenServed'
    BY <1>8, <1>9, StillServes DEF Interrupt
  <1>10. ASSUME NEW b \in Build, StopBuild(b) PROVE WokenServed'
    <2>1. /\ UNCHANGED <<maxCount, claimed>>
          /\ \/ StopWaiting(b, ToSet(acquiring[b]))
             \/ \E s \in CurrentStep(b) : Interrupt(s)
      BY <1>10 DEF StopBuild
    <2>2. QED
      BY <1>8, <1>9, <2>1
  <1>11. ASSUME NEW b \in Build, LostRemote(b) PROVE WokenServed'
    <2>1. /\ UNCHANGED <<maxCount, claimed>>
          /\ \/ StopWaiting(b, {l \in ToSet(acquiring[b]) : Waits(b, l)})
             \/ \E s \in CurrentStep(b) : Interrupt(s)
      BY <1>11 DEF LostRemote
    <2>2. QED
      BY <1>8, <1>9, <2>1
  <1>12. CASE UNCHANGED vars
    BY <1>12, StillServes DEF vars
  <1>13. QED
    BY <1>1, <1>2, <1>3, <1>4, <1>5, <1>6, <1>7, <1>10, <1>11, <1>12 DEF Next

\* Of a lock whose limit stays as it is, and of which everybody takes one unit, no
\* waiter is woken for nothing: from its wake-up to its claim it can have the lock,
\* however many others claim, release or give up in between.
THEOREM WokenWaitersAreServed ==
  Spec => [](\A l \in Lock : Plain(l) =>
               \A i \in DOMAIN waiting[l] :
                 waiting[l][i].woken => IsAvailable(waiting[l][i].who, l))
  <1>1. Init => WokenServed
    BY DEF Init, WokenServed, Served
  <1>2. IInv /\ WokenServed /\ [Next]_vars => WokenServed'
    BY WokenStayServed
  <1>3. IInv /\ WokenServed =>
          \A l \in Lock : Plain(l) =>
            \A i \in DOMAIN waiting[l] :
              waiting[l][i].woken => IsAvailable(waiting[l][i].who, l)
    BY LockFacts, ServedIsAvailable DEF WokenServed
  <1>4. QED
    BY <1>1, <1>2, <1>3, LocksAreInvariant, PTL DEF Spec

-----------------------------------------------------------------------------
(* A step whose locks are plain waits once for each of them *)

\* The requesters in queue q that were not woken.
Dormant(q) == {q[i].who : i \in {j \in DOMAIN q : ~q[j].woken}}

\* A requester that is called back was woken wherever it waits; before that, one
\* of its waits at most is not yet woken.
Alert(s) ==
  /\ phase[s] = "woken" => \A l \in Lock : s \notin Dormant(waiting[l])
  /\ \A k, l \in Lock : s \in Dormant(waiting[k]) /\ s \in Dormant(waiting[l]) => k = l

Once(a) == \A i, j \in DOMAIN a : a[i] = a[j] => i = j

\* The steps of stoppable builds, if their locks are plain.
StoppableStep == {s \in Step : Of[s] \in MayStop}

AlertOnce == \A s \in StoppableStep : Alert(s) /\ Once(acquiring[s])

\* The dormant are fewer after a wake-up, and after somebody left.
LEMMA DormantLess ==
  ASSUME NEW l, NEW q, Queued(l, q), NEW c, NEW m, NEW r
  PROVE  /\ Dormant(TryWakeUp(l, q, c, m)) \subseteq Dormant(q)
         /\ Dormant(Without(q, r)) \subseteq Dormant(q)
  <1>1. Dormant(TryWakeUp(l, q, c, m)) \subseteq Dormant(q)
    <2> DEFINE t == TryWakeUp(l, q, c, m)
    <2>1. DOMAIN t = DOMAIN q /\ \A i \in DOMAIN q : t[i].who = q[i].who /\ (q[i].woken => t[i].woken)
      BY WakePlaces
    <2> HIDE DEF t
    <2>2. Dormant(t) \subseteq Dormant(q)
      BY <2>1 DEF Dormant
    <2>3. QED
      BY <2>2 DEF t
  <1>2. Dormant(Without(q, r)) \subseteq Dormant(q)
    <2> DEFINE w == Without(q, r)
               p == Place(q, r)
    <2>1. CASE Places(q, r) = {}
      BY <2>1 DEF Without
    <2>2. CASE Places(q, r) # {}
      <3>1. /\ p \in 1..Len(q) /\ DOMAIN w = 1..(Len(q) - 1)
            /\ \A j \in 1..(Len(q) - 1) : w[j] = IF j < p THEN q[j] ELSE q[j + 1]
        BY <2>2, WithoutPlaces
      <3>2. DOMAIN q = 1..Len(q) /\ Len(q) \in Nat
        BY DEF Queued
      <3> HIDE DEF w, p
      <3>3. \A j \in DOMAIN w : \E i \in DOMAIN q : w[j] = q[i]
        BY <3>1, <3>2
      <3>4. Dormant(w) \subseteq Dormant(q)
        BY <3>3 DEF Dormant
      <3>5. QED
        BY <3>4 DEF w
    <2>3. QED
      BY <2>1, <2>2
  <1>3. QED
    BY <1>1, <1>2

\* Who is called back was dormant in a queue, and is no longer.
LEMMA RingsForWoken ==
  ASSUME NEW w, NEW s \in Requester, Rings(w)[s] = "woken", phase[s] # "woken",
         \A l \in Lock : Queued(l, w[l])
  PROVE  \E l \in Lock : s \in Dormant(waiting[l]) /\ s \notin Dormant(w[l])
  <1>1. PICK l \in Lock : /\ [who |-> s, woken |-> FALSE] \in ToSet(waiting[l])
                          /\ [who |-> s, woken |-> TRUE] \in ToSet(w[l])
    BY DEF Rings
  <1>2. s \in Dormant(waiting[l])
    BY <1>1 DEF ToSet, Dormant
  <1>3. s \notin Dormant(w[l])
    BY <1>1 DEF ToSet, Dormant, Queued
  <1>4. QED
    BY <1>2, <1>3

\* Whom the queues and the callbacks of others concern only so far.
LEMMA AlertStays ==
  ASSUME NEW s, Alert(s),
         \A l \in Lock : Dormant(waiting'[l]) \subseteq Dormant(waiting[l]),
         phase'[s] = "woken" =>
           \/ phase[s] = "woken"
           \/ \E l \in Lock : s \in Dormant(waiting[l]) /\ s \notin Dormant(waiting'[l])
  PROVE  Alert(s)'
  BY DEF Alert

\* A step of the system other than the wait of a requester wakes waiters, or takes
\* them off the queues.
LEMMA QueuesCalmDown ==
  ASSUME IInv, IInv', [Next]_vars, \A r \in Requester : ~WaitForLock(r)
  PROVE  /\ \A l \in Lock : Dormant(waiting'[l]) \subseteq Dormant(waiting[l])
         /\ \A s \in Requester : phase'[s] = "woken" =>
              \/ phase[s] = "woken"
              \/ \E l \in Lock : s \in Dormant(waiting[l]) /\ s \notin Dormant(waiting'[l])
         /\ \A s \in Step : acquiring'[s] \in {<<>>, acquiring[s]}
  <1> DEFINE Calm(s) == phase'[s] = "woken" =>
               \/ phase[s] = "woken"
               \/ \E l \in Lock : s \in Dormant(waiting[l]) /\ s \notin Dormant(waiting'[l])
             Goal == /\ \A l \in Lock : Dormant(waiting'[l]) \subseteq Dormant(waiting[l])
                     /\ \A s \in Requester : Calm(s)
                     /\ \A s \in Step : acquiring'[s] \in {<<>>, acquiring[s]}
  <1>1. /\ \A l \in Lock : Queued(l, waiting[l]) /\ Queued(l, waiting'[l])
        /\ phase \in [Requester -> Phase] /\ acquiring \in [Requester -> Seq(Lock)]
        /\ Step \subseteq Requester /\ Build \subseteq Requester
    BY DEF IInv, LocksLawful, Lawful, OthersTyped, Requester
  <1>2. \A s \in Requester : Rings(waiting')[s] = "woken" =>
          \/ phase[s] = "woken"
          \/ \E l \in Lock : s \in Dormant(waiting[l]) /\ s \notin Dormant(waiting'[l])
    BY <1>1, RingsForWoken
  <1>3. ASSUME \A l \in Lock : \/ waiting'[l] = waiting[l]
                               \/ \E c, m : waiting'[l] = TryWakeUp(l, waiting[l], c, m)
                               \/ \E r : waiting'[l] = Without(waiting[l], r)
                               \/ \E c, m, r : waiting'[l] = TryWakeUp(l, Without(waiting[l], r), c, m)
        PROVE  \A l \in Lock : Dormant(waiting'[l]) \subseteq Dormant(waiting[l])
    <2>1. TAKE l \in Lock
    <2>2. Queued(l, waiting[l]) /\ \A r : Queued(l, Without(waiting[l], r))
      BY <1>1, WithoutKeeps
    <2>3. QED
      BY <1>3, <2>2, DormantLess
  <1>4. ASSUME NEW r \in Requester, NEW v, v # "woken",
               \/ phase' = [phase EXCEPT ![r] = v]
               \/ phase' = [Rings(waiting') EXCEPT ![r] = v]
        PROVE  \A s \in Requester : Calm(s)
    <2>1. TAKE s \in Requester
    <2>2. Rings(waiting') \in [Requester -> Phase]
      BY <1>1, RingsWakes
    <2>3. CASE s = r
      BY <1>1, <1>4, <2>2, <2>3
    <2>4. CASE s # r
      <3>1. phase'[s] = phase[s] \/ phase'[s] = Rings(waiting')[s]
        BY <1>1, <1>4, <2>2, <2>4
      <3>2. QED
        BY <1>2, <3>1
    <2>5. QED
      BY <2>3, <2>4
  <1> HIDE DEF Calm
  <1>5. ASSUME NEW k \in Lock, SetMaxCount(k) PROVE Goal
    <2>1. /\ phase' = Rings(waiting') /\ acquiring' = acquiring
          /\ \/ waiting' = waiting
             \/ \E m : waiting' = [waiting EXCEPT ![k] = TryWakeUp(k, @, claimed[k], m)]
      BY <1>5 DEF SetMaxCount
    <2>2. \A l \in Lock : \/ waiting'[l] = waiting[l]
                          \/ \E c, m : waiting'[l] = TryWakeUp(l, waiting[l], c, m)
      BY <2>1 DEF IInv, LocksTyped
    <2>3. QED
      BY <1>2, <1>3, <2>1, <2>2 DEF Calm
  <1>6. ASSUME NEW r \in Requester, AcquireStopped(r) PROVE Goal
    <2>1. /\ phase' = [phase EXCEPT ![r] = GoesOn(r)] /\ GoesOn(r) # "woken"
          /\ acquiring' = [acquiring EXCEPT ![r] = ForgetsLock(r)]
          /\ ForgetsLock(r) \in {<<>>, acquiring[r]} /\ waiting' = waiting
      BY <1>6 DEF AcquireStopped, GoesOn, ForgetsLock
    <2>2. \A s \in Step : acquiring'[s] \in {<<>>, acquiring[s]}
      BY <1>1, <2>1
    <2>3. QED
      BY <1>3, <1>4, <2>1, <2>2
  <1>7. ASSUME NEW r \in Requester, ClaimAll(r) PROVE Goal
    <2>1. /\ phase' = [phase EXCEPT ![r] = "running"]
          /\ acquiring' = [acquiring EXCEPT ![r] = <<>>]
          /\ waiting' = [l \in Lock |->
               IF l \in LocksOf(r) THEN Without(waiting[l], r) ELSE waiting[l]]
      BY <1>7 DEF ClaimAll
    <2>2. \A s \in Step : acquiring'[s] \in {<<>>, acquiring[s]}
      BY <1>1, <2>1
    <2>3. \A l \in Lock : waiting'[l] = waiting[l] \/ waiting'[l] = Without(waiting[l], r)
      BY <2>1
    <2>4. QED
      BY <1>3, <1>4, <2>1, <2>2, <2>3
  <1>8. ASSUME NEW r \in Requester, Release(r), NEW v, v # "woken",
               phase' = [Rings(waiting') EXCEPT ![r] = v], acquiring' = acquiring
        PROVE  Goal
    <2>1. \A l \in Lock : \/ waiting'[l] = waiting[l]
                          \/ waiting'[l] = TryWakeUp(l, waiting[l], claimed'[l], maxCount[l])
      BY <1>8 DEF Release
    <2>2. QED
      BY <1>3, <1>4, <1>8, <2>1
  <1>9. ASSUME NEW r \in Requester, NEW v, v # "woken", phase' = [phase EXCEPT ![r] = v],
               UNCHANGED <<waiting, acquiring>>
        PROVE  Goal
    BY <1>3, <1>4, <1>9
  <1>10. ASSUME NEW r \in Requester, NEW ls, StopWaiting(r, ls) PROVE Goal
    <2> DEFINE v == IF \E l \in ls : [who |-> r, woken |-> FALSE] \in ToSet(waiting[l])
                    THEN GoesOn(r) ELSE Rings(waiting')[r]
    <2>1. /\ waiting' = Abandoned(r, ls) /\ phase' = [Rings(waiting') EXCEPT ![r] = v]
          /\ \E a \in {<<>>, acquiring[r]} : acquiring' = [acquiring EXCEPT ![r] = a]
      BY <1>10 DEF StopWaiting
    <2>2. v = Rings(waiting')[r] \/ v \in {"running", "leaving"}
      BY DEF GoesOn
    <2> HIDE DEF v
    <2>3. \A s \in Step : acquiring'[s] \in {<<>>, acquiring[s]}
      BY <1>1, <2>1
    <2>4. \A l \in Lock :
            \/ waiting'[l] = waiting[l] \/ waiting'[l] = Without(waiting[l], r)
            \/ waiting'[l] = TryWakeUp(l, Without(waiting[l], r), claimed[l], maxCount[l])
      BY <2>1 DEF Abandoned
    <2>5. \A s \in Requester : Calm(s)
      <3>1. TAKE s \in Requester
      <3>2. Rings(waiting') \in [Requester -> Phase]
        BY <1>1, RingsWakes
      <3>3. phase'[s] = Rings(waiting')[s] \/ phase'[s] \in {"running", "leaving"}
        BY <2>1, <2>2, <3>2
      <3>4. QED
        BY <1>2, <3>3 DEF Calm
    <2>6. QED
      BY <1>3, <2>3, <2>4, <2>5
  <1>11. ASSUME UNCHANGED <<waiting, phase, acquiring>> PROVE Goal
    BY <1>11 DEF Calm
  <1>12. ASSUME NEW b \in Build, StopBuild(b) \/ LostRemote(b) PROVE Goal
    <2>1. \/ \E ls : StopWaiting(b, ls)
          \/ \E s \in CurrentStep(b) : Interrupt(s)
      BY <1>12 DEF StopBuild, LostRemote
    <2>2. ASSUME NEW s \in CurrentStep(b), Interrupt(s) PROVE Goal
      <3>1. s \in Requester
        BY <1>1 DEF CurrentStep, StepsOf
      <3>2. UNCHANGED <<waiting, phase, acquiring>> \/ StopWaiting(s, GivenUp(s))
        BY <2>2 DEF Interrupt
      <3>3. QED
        BY <1>10, <1>11, <3>1, <3>2
    <2>3. QED
      BY <1>1, <1>10, <2>1, <2>2
  <1>13. ASSUME NEW s \in Step, StartStep(s) \/ FinishStep(s) PROVE Goal
    <2>1. s \in Requester
      BY <1>1
    <2>2. CASE StartStep(s)
      <3>1. /\ phase' = [phase EXCEPT ![s] = "starting"]
            /\ UNCHANGED <<waiting, acquiring>>
        BY <2>2 DEF StartStep
      <3>2. QED
        BY <1>9, <2>1, <3>1
    <2>3. CASE FinishStep(s)
      <3>1. /\ Release(s) /\ phase' = [Rings(waiting') EXCEPT ![s] = "done"]
            /\ acquiring' = acquiring
        BY <2>3 DEF FinishStep
      <3>2. QED
        BY <1>8, <2>1, <3>1
    <2>4. QED
      BY <1>13, <2>2, <2>3
  <1>14. ASSUME NEW b \in Build, Distribute(b) \/ FinishBuild(b) \/ RecordFinished(b)
         PROVE  Goal
    <2>1. /\ UNCHANGED <<waiting, acquiring>>
          /\ \E v : v # "woken" /\ phase' = [phase EXCEPT ![b] = v]
      <3>1. CASE Distribute(b)
        <4>1. phase[b] = "queued"
          BY <3>1 DEF Distribute
        <4>2. QED
          BY <3>1, <4>1 DEF Distribute
      <3>2. CASE FinishBuild(b)
        BY <3>2 DEF FinishBuild
      <3>3. CASE RecordFinished(b)
        BY <3>3 DEF RecordFinished
      <3>4. QED
        BY <1>14, <3>1, <3>2, <3>3
    <2>2. QED
      BY <1>1, <1>9, <2>1
  <1>15. ASSUME NEW b \in Build, ReleaseLocks(b) PROVE Goal
    <2> DEFINE v == IF phase[b] = "recorded" THEN "done" ELSE "released"
    <2>1. /\ Release(b) /\ phase' = [Rings(waiting') EXCEPT ![b] = v]
          /\ acquiring' = acquiring /\ v # "woken"
      BY <1>15 DEF ReleaseLocks
    <2> HIDE DEF v
    <2>2. QED
      BY <1>1, <1>8, <2>1
  <1>16. ASSUME UNCHANGED vars PROVE Goal
    BY <1>11, <1>16 DEF vars
  <1>17. Goal
    <2> HIDE DEF Goal
    <2>1. ASSUME NEW r \in Requester, AcquireStopped(r) \/ ClaimAll(r) PROVE Goal
      BY <1>6, <1>7, <2>1
    <2>2. ASSUME NEW b \in Build, \/ Distribute(b) \/ FinishBuild(b) \/ ReleaseLocks(b)
                                  \/ RecordFinished(b) \/ StopBuild(b) \/ LostRemote(b)
          PROVE  Goal
      BY <1>12, <1>14, <1>15, <2>2
    <2>3. ASSUME Next PROVE Goal
      <3>1. \/ \E l \in Lock : SetMaxCount(l)
            \/ \E r \in Requester : AcquireStopped(r) \/ ClaimAll(r)
            \/ \E s \in Step : StartStep(s) \/ FinishStep(s)
            \/ \E b \in Build : \/ Distribute(b) \/ FinishBuild(b) \/ ReleaseLocks(b)
                                \/ RecordFinished(b) \/ StopBuild(b) \/ LostRemote(b)
        BY <2>3 DEF Next
      <3>2. QED
        BY <1>5, <1>13, <2>1, <2>2, <3>1
    <2>4. QED
      BY <1>16, <2>3
  <1>18. QED
    BY <1>17 DEF Calm

\* A requester that waits is dormant in the queue it waits in, and otherwise where
\* it was.
LEMMA WaitPuts ==
  ASSUME IInv, NEW r \in Requester, WaitForLock(r), NEW l \in Lock
  PROVE  Dormant(waiting'[l]) =
           IF l = FirstUnavailable(r) THEN Dormant(waiting[l]) \cup {r}
                                      ELSE Dormant(waiting[l])
  <1> DEFINE k == FirstUnavailable(r)
             e == [who |-> r, woken |-> FALSE]
             asleep == [i \in DOMAIN waiting[k] |->
               IF waiting[k][i].who = r THEN e ELSE waiting[k][i]]
             q == IF Waits(r, k) THEN asleep ELSE Append(waiting[k], e)
  <1>1. waiting' = [waiting EXCEPT ![k] = q] /\ k \in Lock
    BY FirstUnavailableIsOne, LocksOfAreLocks DEF WaitForLock
  <1>2. waiting'[l] = IF l = k THEN q ELSE waiting[l]
    BY <1>1 DEF IInv, LocksTyped
  <1>3. Queued(k, waiting[k])
    BY <1>1, LockFacts
  <1>4. Dormant(q) = Dormant(waiting[k]) \cup {r}
    <2>1. DOMAIN waiting[k] = 1..Len(waiting[k]) /\ Len(waiting[k]) \in Nat
      BY <1>3 DEF Queued
    <2>2. CASE Waits(r, k)
      <3>1. PICK p \in DOMAIN waiting[k] : waiting[k][p].who = r
        BY <2>2 DEF Waits, Places
      <3>2. /\ DOMAIN q = DOMAIN waiting[k] /\ q[p] = e
            /\ \A i \in DOMAIN waiting[k] :
                 q[i] = IF waiting[k][i].who = r THEN e ELSE waiting[k][i]
        BY <2>2, <3>1
      <3> HIDE DEF q
      <3>3. r \in Dormant(q)
        BY <3>1, <3>2 DEF Dormant
      <3>4. Dormant(waiting[k]) \subseteq Dormant(q)
        BY <3>2, <3>3 DEF Dormant
      <3>5. Dormant(q) \subseteq Dormant(waiting[k]) \cup {r}
        BY <3>2 DEF Dormant
      <3>6. QED
        BY <3>3, <3>4, <3>5
    <2>3. CASE ~Waits(r, k)
      <3>1. waiting[k] \in Seq(Waiter)
        BY <1>3 DEF Queued
      <3>2. /\ DOMAIN q = 1..(Len(waiting[k]) + 1) /\ q[Len(waiting[k]) + 1] = e
            /\ \A i \in 1..Len(waiting[k]) : q[i] = waiting[k][i]
        BY <2>3, <3>1
      <3> HIDE DEF q
      <3>3. r \in Dormant(q)
        BY <2>1, <3>2 DEF Dormant
      <3>4. Dormant(waiting[k]) \subseteq Dormant(q)
        BY <2>1, <3>2 DEF Dormant
      <3>5. Dormant(q) \subseteq Dormant(waiting[k]) \cup {r}
        <4>1. ASSUME NEW i \in DOMAIN q
              PROVE  (i \in DOMAIN waiting[k] /\ q[i] = waiting[k][i]) \/ q[i] = e
          BY <2>1, <3>2
        <4>2. QED
          BY <4>1 DEF Dormant
      <3>6. QED
        BY <3>3, <3>4, <3>5
    <2>4. QED
      BY <2>2, <2>3
  <1>5. QED
    BY <1>2, <1>4

\* A sequence without repetition, with one more.
LEMMA OnceMore ==
  ASSUME NEW S, NEW a \in Seq(S), Once(a), NEW e \in S, e \notin ToSet(a)
  PROVE  Once(Append(a, e))
  <1> DEFINE t == Append(a, e)
  <1>1. /\ Len(a) \in Nat /\ DOMAIN a = 1..Len(a) /\ DOMAIN t = 1..(Len(a) + 1)
        /\ \A i \in 1..Len(a) : t[i] = a[i]
        /\ t[Len(a) + 1] = e
    OBVIOUS
  <1> HIDE DEF t
  <1>2. \A i \in 1..Len(a) : t[i] # e
    BY <1>1 DEF ToSet
  <1>3. \A i \in DOMAIN t : i \in 1..Len(a) \/ i = Len(a) + 1
    BY <1>1
  <1>4. Once(t)
    BY <1>1, <1>2, <1>3 DEF Once
  <1>5. QED
    BY <1>4 DEF t

\* A step that is called back and finds a lock taken waits for that lock the first
\* time: where it waited it was woken, and whoever is woken is served.
LEMMA WaitForLockAlert ==
  ASSUME IInv, WInv, WokenServed, AlertOnce, NEW r \in Requester, WaitForLock(r),
         \A s \in StoppableStep : \A l \in LocksOf(s) : Plain(l)
  PROVE  AlertOnce'
  <1> DEFINE k == FirstUnavailable(r)
  <1>1. /\ phase[r] \in {"starting", "woken"} /\ r \notin stopped
        /\ phase' = [phase EXCEPT ![r] = "waiting"]
        /\ acquiring' = [acquiring EXCEPT ![r] = Append(ForgetsLock(r), k)]
    BY DEF WaitForLock, Acquires
  <1>2. k \in LocksOf(r) /\ k \in Lock /\ ~IsAvailable(r, k)
    BY FirstUnavailableIsOne, LocksOfAreLocks DEF WaitForLock
  <1>3. \A l \in Lock : Dormant(waiting'[l]) =
          IF l = k THEN Dormant(waiting[l]) \cup {r} ELSE Dormant(waiting[l])
    BY WaitPuts
  <1>4. phase \in [Requester -> Phase] /\ acquiring \in [Requester -> Seq(Lock)]
    BY DEF IInv, OthersTyped
  <1> HIDE DEF k
  <1>5. SUFFICES ASSUME NEW s \in StoppableStep
                 PROVE  Alert(s)' /\ Once(acquiring'[s])
    BY DEF AlertOnce, StoppableStep
  <1>6. s \in Step /\ s \in Requester /\ s \notin Build /\ Alert(s) /\ Once(acquiring[s])
    BY StepsAreNotBuilds DEF StoppableStep, AlertOnce
  <1>7. CASE s # r
    <2>1. phase'[s] = phase[s] /\ acquiring'[s] = acquiring[s]
      BY <1>1, <1>4, <1>6, <1>7
    <2>2. \A l \in Lock : s \in Dormant(waiting'[l]) <=> s \in Dormant(waiting[l])
      BY <1>3, <1>7
    <2>3. QED
      BY <1>6, <2>1, <2>2 DEF Alert
  <1>8. CASE s = r
    <2>1. \A l \in Lock : s \notin Dormant(waiting[l])
      <3>1. CASE phase[s] = "woken"
        BY <1>6, <3>1 DEF Alert
      <3>2. CASE phase[s] = "starting"
        <4>1. \A l \in Lock : s \notin InQueue(waiting[l])
          BY <1>6, <3>2 DEF WInv, Interested
        <4>2. QED
          BY <4>1 DEF InQueue, Dormant
      <3>3. QED
        BY <1>1, <1>8, <3>1, <3>2
    <2>2. s \notin InQueue(waiting[k])
      <3>1. SUFFICES ASSUME NEW i \in DOMAIN waiting[k], waiting[k][i].who = s
                     PROVE  FALSE
        BY DEF InQueue
      <3>2. waiting[k][i].woken
        BY <1>2, <2>1, <3>1 DEF Dormant
      <3>3. Plain(k)
        BY <1>2, <1>8
      <3>4. IsAvailable(s, k)
        BY <1>2, <3>1, <3>2, <3>3, LockFacts, ServedIsAvailable DEF WokenServed
      <3>5. QED
        BY <1>2, <1>8, <3>4
    <2>3. k \notin ToSet(acquiring[s])
      BY <1>1, <1>2, <1>6, <1>8, <2>2 DEF WInv, Recalls
    <2>4. acquiring'[s] = Append(acquiring[s], k)
      BY <1>1, <1>4, <1>6, <1>8 DEF ForgetsLock
    <2>5. Once(acquiring'[s])
      BY <1>2, <1>4, <1>6, <2>3, <2>4, OnceMore
    <2>6. phase'[s] = "waiting"
      BY <1>1, <1>4, <1>6, <1>8
    <2>7. \A l \in Lock : s \in Dormant(waiting'[l]) => l = k
      BY <1>3, <2>1
    <2>8. QED
      BY <2>5, <2>6, <2>7 DEF Alert
  <1>9. QED
    BY <1>7, <1>8

\* Every step of the system keeps it.
LEMMA StepsStayAlert ==
  ASSUME IInv, IInv', WInv, WokenServed, AlertOnce, [Next]_vars,
         \A s \in StoppableStep : \A l \in LocksOf(s) : Plain(l)
  PROVE  AlertOnce'
  <1>1. CASE \E r \in Requester : WaitForLock(r)
    BY <1>1, WaitForLockAlert
  <1>2. CASE \A r \in Requester : ~WaitForLock(r)
    <2>1. SUFFICES ASSUME NEW s \in StoppableStep
                   PROVE  Alert(s)' /\ Once(acquiring'[s])
      BY DEF AlertOnce, StoppableStep
    <2>2. s \in Step /\ s \in Requester /\ Alert(s) /\ Once(acquiring[s])
      BY StepsAreNotBuilds DEF StoppableStep, AlertOnce
    <2>3. Alert(s)'
      BY <1>2, <2>2, QueuesCalmDown, AlertStays
    <2>4. acquiring'[s] \in {<<>>, acquiring[s]}
      BY <1>2, <2>2, QueuesCalmDown
    <2>5. Once(acquiring'[s])
      BY <2>2, <2>4 DEF Once
    <2>6. QED
      BY <2>3, <2>5
  <1>3. QED
    BY <1>1, <1>2

\* Alert steps wait once.
LEMMA AlertWaitOnce == AlertOnce => NoSecondWait
  BY DEF AlertOnce, Once, StoppableStep, NoSecondWait

-----------------------------------------------------------------------------
(* Who waits is interested *)

\* At first every queue is empty.
LEMMA NobodyWaitsAtFirst == Init => WInv
  BY StepsAreNotBuilds, LocksAssumption
     DEF Init, WInv, Interested, Recalls, InQueue, ToSet, Requester

\* The invariant says what is to be shown of the queues.
LEMMA InterestedWaiters == IInv /\ WInv => WaitersAreInterested
  <1>1. SUFFICES ASSUME IInv, WInv, NEW l \in Lock, NEW i \in DOMAIN waiting[l]
                 PROVE  phase[waiting[l][i].who] \in {"waiting", "woken"}
    BY DEF WaitersAreInterested
  <1>2. /\ waiting[l][i].who \in InQueue(waiting[l])
        /\ waiting[l][i].who \in Requester
    BY <1>1 DEF InQueue, IInv, LocksLawful, Lawful, Queued, Askers
  <1>3. QED
    BY <1>1, <1>2 DEF WInv, Interested

\* Whatever the locks: as long as no step of a stoppable build waits twice for one
\* lock, and if stoppable builds take one lock at most, nobody waits behind a
\* requester that has given up.
THEOREM SingleWaitersStayInterested ==
  ASSUME \A b \in MayStop : Len(Locks[b]) <= 1
  PROVE  Spec /\ []NoSecondWait => []WaitersAreInterested
  <1>1. IInv /\ WInv /\ NoSecondWait /\ [Next]_vars => WInv'
    BY InterestIsKept
  <1>2. QED
    BY <1>1, NobodyWaitsAtFirst, InterestedWaiters, LocksAreInvariant, PTL DEF Spec

\* Plain locks: who was woken is served, and so waits for no lock a second time.
LEMMA WaitsAreInvariant ==
  ASSUME \A b \in MayStop : Len(Locks[b]) <= 1,
         \A s \in Step : Of[s] \in MayStop => \A l \in LocksOf(s) : Plain(l)
  PROVE  Spec => [](WInv /\ AlertOnce)
  <1> DEFINE Inv == WInv /\ WokenServed /\ AlertOnce
  <1>1. Init => Inv
    <2>1. Init => WokenServed
      BY DEF Init, WokenServed, Served
    <2>2. Init => AlertOnce
      BY StepsAreNotBuilds DEF Init, AlertOnce, Alert, Once, Dormant, StoppableStep
    <2>3. QED
      BY <2>1, <2>2, NobodyWaitsAtFirst
  <1>2. IInv /\ IInv' /\ Inv /\ [Next]_vars => Inv'
    <2>1. SUFFICES ASSUME IInv, IInv', Inv, [Next]_vars PROVE Inv'
      OBVIOUS
    <2>2. WInv'
      BY <2>1, AlertWaitOnce, InterestIsKept
    <2>3. WokenServed'
      BY <2>1, WokenStayServed
    <2>4. \A s \in StoppableStep : \A l \in LocksOf(s) : Plain(l)
      BY DEF StoppableStep
    <2>5. AlertOnce'
      BY <2>1, <2>4, StepsStayAlert
    <2>6. QED
      BY <2>2, <2>3, <2>5
  <1>3. Inv => WInv /\ AlertOnce
    OBVIOUS
  <1> HIDE DEF Inv
  <1>4. QED
    BY <1>1, <1>2, <1>3, LocksAreInvariant, PTL DEF Spec

\* Where stoppable builds take one lock at most, and their steps take plain locks,
\* no such step waits twice for one lock: the assertion of stopWaitingUntilAvailable
\* holds when it is interrupted.
THEOREM StepsWaitOnce ==
  ASSUME \A b \in MayStop : Len(Locks[b]) <= 1,
         \A s \in Step : Of[s] \in MayStop => \A l \in LocksOf(s) : Plain(l)
  PROVE  Spec => []NoSecondWait
  <1>1. Spec => [](WInv /\ AlertOnce)
    BY WaitsAreInvariant
  <1>2. WInv /\ AlertOnce => NoSecondWait
    BY AlertWaitOnce
  <1>3. QED
    BY <1>1, <1>2, PTL

\* Under the same conditions nobody waits behind a requester that has given up.
\* (A build that was woken for one lock and waits for a second one leaves only the
\* queue of the second; of two waits of a step for one lock, one is refused.)
THEOREM NobodyWaitsBehindTheDead ==
  ASSUME \A b \in MayStop : Len(Locks[b]) <= 1,
         \A s \in Step : Of[s] \in MayStop => \A l \in LocksOf(s) : Plain(l)
  PROVE  Spec => []WaitersAreInterested
  <1>1. Spec => [](WInv /\ AlertOnce)
    BY WaitsAreInvariant
  <1>2. IInv /\ WInv /\ AlertOnce => WaitersAreInterested
    BY InterestedWaiters
  <1>3. QED
    BY <1>1, <1>2, LocksAreInvariant, PTL
=============================================================================
