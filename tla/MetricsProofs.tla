---------------------------- MODULE MetricsProofs ----------------------------
(***************************************************************************)
(* The metrics, for any tasks, connections, series, histograms, bounds and *)
(* limits.  Everything is counted twice here: what a task has still to bump*)
(* is on its list, so at every moment a total is the count of observations *)
(* plus the tasks that are between the two (CountsInv); the lines of a log *)
(* that were sampled out follow from how many there were.  A page is torn, *)
(* but not at will: it has the buckets of a histogram before its count, and*)
(* counters only grow (TearInv).  How many exits have a series is bounded  *)
(* as the quarantine's domains are, by those there or on their way.        *)
(*                                                                         *)
(* Sums over finite sets come first: what MapThenSumSet computes is the    *)
(* value of a recursive function, and induction over a set is by a minimal *)
(* subset for which the claim fails.  The order of a page needs what       *)
(* FlattenSeq and SetToSeq return.                                         *)
(***************************************************************************)
EXTENDS Metrics, FiniteSetTheorems, SequenceTheorems, WellFoundedInduction, TLAPS

-----------------------------------------------------------------------------
\* Sums over finite sets

Chosen(S) == CHOOSE x \in S : TRUE

\* The recursive function that MapThenSumSet evaluates.
IsSums(f, S, sums) ==
  sums = [s \in SUBSET S |-> IF s = {} THEN 0 ELSE f[Chosen(s)] + sums[s \ {Chosen(s)}]]

Sums(f, S) == CHOOSE sums : IsSums(f, S, sums)

SumOver(f, S) == Sums(f, S)[S]

LEMMA SumIsSumOver == ASSUME NEW f, NEW S PROVE MapThenSumSet(LAMBDA x : f[x], S) = SumOver(f, S)
BY DEF MapThenSumSet, MapThenFoldSet, SumOver, Sums, IsSums, Chosen

\* Induction over the subsets of a finite set, in terms of a minimal counterexample.
LEMMA MinimalSubset ==
  ASSUME NEW S, IsFiniteSet(S), NEW Bad \in SUBSET SUBSET S, Bad # {}
  PROVE  \E T \in Bad : \A U \in Bad : U \subseteq T => U = T
<1>1. IsWellFoundedOn(StrictSubsetOrdering(S), SUBSET S)
  BY FS_StrictSubsetOrderingWellFounded, FS_FiniteSubsetsOfFinite
<1>2. PICK T \in Bad : \A U \in Bad : <<U, T>> \notin StrictSubsetOrdering(S)
  BY <1>1, WFMin
<1>3. ASSUME NEW U \in Bad, U \subseteq T, U # T PROVE FALSE
  <2>1. <<U, T>> \in StrictSubsetOrdering(S)
    BY <1>3 DEF StrictSubsetOrdering
  <2>. QED
    BY <1>2, <2>1
<1>. QED
  BY <1>3

LEMMA ChosenLess ==
  ASSUME NEW S, S # {}
  PROVE  Chosen(S) \in S /\ S \ {Chosen(S)} \subseteq S /\ S \ {Chosen(S)} # S
BY DEF Chosen

\* Two of them agree where both are defined.
LEMMA SumsUnique ==
  ASSUME NEW f, NEW S, NEW T \in SUBSET S, IsFiniteSet(T), NEW a, NEW b, IsSums(f, S, a), IsSums(f, T, b)
  PROVE  a[T] = b[T]
<1>. DEFINE Bad == {s \in SUBSET T : a[s] # b[s]}
<1>1. \A s \in SUBSET T :
        /\ a[s] = IF s = {} THEN 0 ELSE f[Chosen(s)] + a[s \ {Chosen(s)}]
        /\ b[s] = IF s = {} THEN 0 ELSE f[Chosen(s)] + b[s \ {Chosen(s)}]
  BY DEF IsSums
<1>2. ASSUME Bad # {} PROVE FALSE
  <2>1. PICK s \in Bad : \A U \in Bad : U \subseteq s => U = s
    <3>1. Bad \in SUBSET SUBSET T
      OBVIOUS
    <3>. HIDE DEF Bad
    <3>. QED
      BY <1>2, <3>1, MinimalSubset
  <2>2. s # {}
    BY <1>1
  <2>3. a[s \ {Chosen(s)}] = b[s \ {Chosen(s)}]
    BY <2>1, <2>2, ChosenLess
  <2>. QED
    BY <1>1, <2>2, <2>3
<1>. QED
  BY <1>2

LEMMA SumsExist == ASSUME NEW f, NEW S, IsFiniteSet(S) PROVE IsSums(f, S, Sums(f, S))
<1>. DEFINE Bad == {T \in SUBSET S : ~IsSums(f, T, Sums(f, T))}
<1>1. ASSUME Bad # {} PROVE FALSE
  <2>1. PICK T \in Bad : \A U \in Bad : U \subseteq T => U = T
    <3>1. Bad \in SUBSET SUBSET S
      OBVIOUS
    <3>. HIDE DEF Bad
    <3>. QED
      BY <1>1, <3>1, MinimalSubset
  <2>2. \A U \in SUBSET T : U # T => IsSums(f, U, Sums(f, U)) /\ IsFiniteSet(U)
    BY <2>1, FS_Subset
  <2>. DEFINE sums == [s \in SUBSET T |->
                         IF s = {} THEN 0 ELSE f[Chosen(s)] + SumOver(f, s \ {Chosen(s)})]
  <2>3. ASSUME NEW U \in SUBSET T, U # T PROVE sums[U] = SumOver(f, U)
    <3>1. Sums(f, U)[U] = IF U = {} THEN 0 ELSE f[Chosen(U)] + Sums(f, U)[U \ {Chosen(U)}]
      BY <2>2, <2>3 DEF IsSums
    <3>2. ASSUME U # {} PROVE Sums(f, U)[U \ {Chosen(U)}] = SumOver(f, U \ {Chosen(U)})
      <4>1. U \ {Chosen(U)} \in SUBSET U /\ U \ {Chosen(U)} \in SUBSET T /\ U \ {Chosen(U)} # T
        BY <3>2, ChosenLess
      <4>. QED
        BY <2>2, <2>3, <4>1, SumsUnique DEF SumOver
    <3>. QED
      BY <3>1, <3>2 DEF SumOver
  <2>4. \A s \in SUBSET T : s # {} => sums[s \ {Chosen(s)}] = SumOver(f, s \ {Chosen(s)})
    BY <2>3, ChosenLess
  <2>5. IsSums(f, T, sums)
    BY <2>4 DEF IsSums
  <2>. QED
    BY <2>1, <2>5 DEF Sums
<1>. QED
  BY <1>1

LEMMA SumChosen ==
  ASSUME NEW f, NEW S, IsFiniteSet(S)
  PROVE  SumOver(f, S) = IF S = {} THEN 0 ELSE f[Chosen(S)] + SumOver(f, S \ {Chosen(S)})
<1>1. Sums(f, S)[S] = IF S = {} THEN 0 ELSE f[Chosen(S)] + Sums(f, S)[S \ {Chosen(S)}]
  <2>1. ASSUME NEW sums, IsSums(f, S, sums)
        PROVE  sums[S] = IF S = {} THEN 0 ELSE f[Chosen(S)] + sums[S \ {Chosen(S)}]
    BY <2>1 DEF IsSums
  <2>. QED
    BY <2>1, SumsExist
<1>2. ASSUME S # {} PROVE Sums(f, S)[S \ {Chosen(S)}] = SumOver(f, S \ {Chosen(S)})
  <2>1. S \ {Chosen(S)} \in SUBSET S /\ IsFiniteSet(S \ {Chosen(S)})
    BY FS_Subset
  <2>. QED
    BY <2>1, SumsExist, SumsUnique DEF SumOver
<1>. QED
  BY <1>1, <1>2 DEF SumOver

\* A sum is an integer, and any of its terms can be taken out.
LEMMA SumStep ==
  ASSUME NEW S, IsFiniteSet(S), NEW f, \A x \in S : f[x] \in Int
  PROVE  /\ SumOver(f, S) \in Int
         /\ \A x \in S : SumOver(f, S) = f[x] + SumOver(f, S \ {x})
<1>. DEFINE Good(T) == /\ SumOver(f, T) \in Int
                       /\ \A x \in T : SumOver(f, T) = f[x] + SumOver(f, T \ {x})
            Bad == {T \in SUBSET S : ~Good(T)}
<1>1. ASSUME Bad # {} PROVE FALSE
  <2>1. PICK T \in Bad : \A U \in Bad : U \subseteq T => U = T
    <3>1. Bad \in SUBSET SUBSET S
      OBVIOUS
    <3>. HIDE DEF Bad
    <3>. QED
      BY <1>1, <3>1, MinimalSubset
  <2>2. \A U \in SUBSET T : IsFiniteSet(U) /\ (U # T => Good(U))
    BY <2>1, FS_Subset
  <2>. HIDE DEF Good
  <2>3. CASE T = {}
    <3>1. SumOver(f, T) = 0
      BY <2>2, <2>3, SumChosen
    <3>. QED
      BY <2>1, <2>3, <3>1 DEF Good
  <2>4. CASE T # {}
    <3>. DEFINE c == Chosen(T)
    <3>1. c \in T /\ T \ {c} \in SUBSET T /\ T \ {c} # T /\ f[c] \in Int
      BY <2>4, ChosenLess
    <3>. HIDE DEF c
    <3>2. SumOver(f, T) = f[c] + SumOver(f, T \ {c}) /\ SumOver(f, T \ {c}) \in Int
      BY <2>2, <2>4, <3>1, SumChosen DEF Good, c
    <3>3. ASSUME NEW x \in T, x # c PROVE SumOver(f, T) = f[x] + SumOver(f, T \ {x})
      <4>1. T \ {x} \in SUBSET T /\ T \ {x} # T /\ c \in T \ {x} /\ x \in T \ {c} /\ f[x] \in Int
        BY <3>1, <3>3
      <4>2. (T \ {x}) \ {c} = (T \ {c}) \ {x} /\ (T \ {x}) \ {c} \in SUBSET T /\ (T \ {x}) \ {c} # T
        BY <3>1
      <4>3. SumOver(f, T \ {x}) = f[c] + SumOver(f, (T \ {x}) \ {c})
        BY <2>2, <4>1 DEF Good
      <4>4. SumOver(f, T \ {c}) = f[x] + SumOver(f, (T \ {x}) \ {c})
        BY <2>2, <3>1, <4>1, <4>2 DEF Good
      <4>5. SumOver(f, (T \ {x}) \ {c}) \in Int
        BY <2>2, <4>2 DEF Good
      <4>. QED
        BY <3>1, <3>2, <4>1, <4>3, <4>4, <4>5
    <3>4. SumOver(f, T) \in Int
      BY <3>1, <3>2
    <3>. QED
      BY <2>1, <3>2, <3>3, <3>4 DEF Good
  <2>. QED
    BY <2>3, <2>4
<1>2. S \in SUBSET S
  OBVIOUS
<1>. QED
  BY <1>1, <1>2

\* A sum depends on its terms only.
LEMMA SumSame ==
  ASSUME NEW S, IsFiniteSet(S), NEW f, NEW g, \A x \in S : f[x] = g[x]
  PROVE  SumOver(f, S) = SumOver(g, S)
<1>. DEFINE Bad == {T \in SUBSET S : SumOver(f, T) # SumOver(g, T)}
<1>1. ASSUME Bad # {} PROVE FALSE
  <2>1. PICK T \in Bad : \A U \in Bad : U \subseteq T => U = T
    <3>1. Bad \in SUBSET SUBSET S
      OBVIOUS
    <3>. HIDE DEF Bad
    <3>. QED
      BY <1>1, <3>1, MinimalSubset
  <2>2. IsFiniteSet(T)
    BY FS_Subset
  <2>3. T # {}
    BY <2>2, SumChosen
  <2>4. Chosen(T) \in S /\ SumOver(f, T \ {Chosen(T)}) = SumOver(g, T \ {Chosen(T)})
    BY <2>1, <2>3, ChosenLess
  <2>. QED
    BY <2>2, <2>3, <2>4, SumChosen
<1>. QED
  BY <1>1

\* A non-empty set of natural numbers has a least member.
LEMMA Least ==
  ASSUME NEW S \in SUBSET Nat, S # {}
  PROVE  \E n \in S : \A m \in S : n <= m
<1>1. IsWellFoundedOn(OpToRel(<, Nat), Nat)
  BY NatLessThanWellFounded
<1>2. PICK n \in S : \A m \in S : <<m, n>> \notin OpToRel(<, Nat)
  BY <1>1, WFMin
<1>3. ASSUME NEW m \in S, m < n PROVE FALSE
  <2>1. <<m, n>> \in Nat \X Nat /\ <<m, n>>[1] < <<m, n>>[2]
    BY <1>3
  <2>2. <<m, n>> \in OpToRel(<, Nat)
    BY <2>1, Zenon DEF OpToRel
  <2>. QED
    BY <1>2, <2>2
<1>. QED
  BY <1>3

-----------------------------------------------------------------------------
\* Counters

\* Counting a finite set after one element came or went.
LEMMA CountMoves ==
  ASSUME NEW S, IsFiniteSet(S), NEW x
  PROVE  /\ Cardinality(S) \in Nat
         /\ IsFiniteSet(S \cup {x}) /\ IsFiniteSet(S \ {x})
         /\ x \notin S => Cardinality(S \cup {x}) = Cardinality(S) + 1
         /\ x \in S => Cardinality(S \ {x}) = Cardinality(S) - 1
         /\ x \in S => Cardinality(S) >= 1
<1>1. Cardinality(S) \in Nat
  BY FS_CardinalityType
<1>2. /\ IsFiniteSet(S \cup {x})
      /\ Cardinality(S \cup {x}) =
           IF x \in S THEN Cardinality(S) ELSE Cardinality(S) + 1
  BY FS_AddElement
<1>3. /\ IsFiniteSet(S \ {x})
      /\ Cardinality(S \ {x}) =
           IF x \in S THEN Cardinality(S) - 1 ELSE Cardinality(S)
  BY FS_RemoveElement
<1>4. Cardinality(S \ {x}) \in Nat
  BY <1>3, FS_CardinalityType
<1>. QED
  BY <1>1, <1>2, <1>3, <1>4

\* A table of counters, and its sum.
Counters(f) == IsFiniteSet(DOMAIN f) /\ f \in [DOMAIN f -> Nat]

LEMMA TotalIsSum == ASSUME NEW f PROVE Total(f) = SumOver(f, DOMAIN f)
BY SumIsSumOver DEF Total

LEMMA TotalInt == ASSUME NEW f, Counters(f) PROVE Total(f) \in Int
<1>1. \A x \in DOMAIN f : f[x] \in Int
  BY DEF Counters
<1>. QED
  BY <1>1, TotalIsSum, SumStep DEF Counters

LEMMA BumpedTotal ==
  ASSUME NEW f, Counters(f), NEW s
  PROVE  /\ Counters(Bumped(f, s)) /\ DOMAIN Bumped(f, s) = DOMAIN f \cup {s}
         /\ Total(Bumped(f, s)) = Total(f) + 1
<1>. DEFINE D == DOMAIN f
            g == Bumped(f, s)
<1>1. /\ DOMAIN g = D \cup {s} /\ g \in [D \cup {s} -> Nat]
      /\ g[s] = (IF s \in D THEN f[s] ELSE 0) + 1
      /\ \A x \in D \ {s} : g[x] = f[x]
  BY DEF Bumped, Counters
<1>2. IsFiniteSet(D) /\ IsFiniteSet(D \cup {s}) /\ IsFiniteSet(D \ {s})
  BY FS_AddElement, FS_RemoveElement DEF Counters
<1>3. \A x \in D : f[x] \in Int
  BY DEF Counters
<1>. HIDE DEF g, D
<1>4. SumOver(g, D \cup {s}) = g[s] + SumOver(g, (D \cup {s}) \ {s})
  <2>1. \A x \in D \cup {s} : g[x] \in Int
    BY <1>1
  <2>. QED
    BY <1>2, <2>1, SumStep
<1>5. (D \cup {s}) \ {s} = D \ {s}
  OBVIOUS
<1>6. SumOver(g, D \ {s}) = SumOver(f, D \ {s}) /\ SumOver(f, D \ {s}) \in Int
  BY <1>1, <1>2, <1>3, SumSame, SumStep
<1>7. SumOver(f, D) = (IF s \in D THEN f[s] ELSE 0) + SumOver(f, D \ {s})
  <2>1. CASE s \in D
    BY <1>2, <1>3, <2>1, SumStep
  <2>2. CASE s \notin D
    <3>1. D \ {s} = D
      BY <2>2
    <3>2. SumOver(f, D) = SumOver(f, D \ {s})
      BY <3>1
    <3>. QED
      BY <1>6, <2>2, <3>2
  <2>. QED
    BY <2>1, <2>2
<1>8. SumOver(g, D \cup {s}) = SumOver(f, D) + 1
  BY <1>1, <1>3, <1>4, <1>5, <1>6, <1>7
<1>. QED
  BY <1>1, <1>2, <1>8, TotalIsSum DEF Counters, g, D

LEMMA EmptyTotal == ASSUME NEW f, DOMAIN f = {} PROVE Total(f) = 0
BY TotalIsSum, FS_EmptySet, SumChosen

LEMMA EmptySum == ASSUME NEW S, IsFiniteSet(S) PROVE Total([x \in S |-> 0]) = 0
<1>. DEFINE f == [x \in S |-> 0]
            Bad == {T \in SUBSET S : SumOver(f, T) # 0}
<1>1. ASSUME Bad # {} PROVE FALSE
  <2>1. PICK T \in Bad : \A U \in Bad : U \subseteq T => U = T
    <3>1. Bad \in SUBSET SUBSET S
      OBVIOUS
    <3>. HIDE DEF Bad
    <3>. QED
      BY <1>1, <3>1, MinimalSubset
  <2>2. IsFiniteSet(T)
    BY FS_Subset
  <2>3. T # {}
    BY <2>2, SumChosen
  <2>4. f[Chosen(T)] = 0 /\ SumOver(f, T \ {Chosen(T)}) = 0
    BY <2>1, <2>3, ChosenLess
  <2>. QED
    BY <2>2, <2>3, <2>4, SumChosen
<1>2. DOMAIN f = S /\ S \in SUBSET S
  OBVIOUS
<1>. HIDE DEF f
<1>. QED
  BY <1>1, <1>2, TotalIsSum DEF f

-----------------------------------------------------------------------------
\* The endpoint

Open == {c \in Conns : conn[c] # "closed"}
Served == {c \in Conns : conn[c] \notin {"closed", "over"}}
Slots == inflight = Cardinality(Open) /\ Cardinality(Served) <= MaxConns

ConnStates == conn \in [Conns -> {"closed", "over", "read", "render", "write"}]

LEMMA SlotsAgree == SlotsReturned <=> Slots
BY DEF SlotsReturned, Slots, Open, Served

LEMMA ConnsFinite ==
  IsFiniteSet(Open) /\ IsFiniteSet(Served) /\ Cardinality(Open) \in Nat /\ Cardinality(Served) \in Nat
BY Finite, FS_Subset, FS_CardinalityType DEF Open, Served

LEMMA SlotsStep ==
  ASSUME ConnStates, Slots, [Next]_vars
  PROVE  ConnStates' /\ Slots'
<1>1. MaxConns \in Nat \ {0} /\ Cardinality(Open) \in Nat /\ Cardinality(Served) \in Nat
  BY Limits, ConnsFinite
<1>2. ASSUME UNCHANGED <<conn, inflight>> PROVE ConnStates' /\ Slots'
  BY <1>2 DEF ConnStates, Slots, Open, Served
<1>3. ASSUME NEW c \in Conns, Accept(c) PROVE ConnStates' /\ Slots'
  <2>1. c \notin Open /\ c \notin Served /\ Open = Served
    BY <1>3 DEF Accept, Open, Served
  <2>2. Open' = Open \cup {c}
    BY <1>3 DEF Accept, Open, ConnStates
  <2>3. Served' = IF inflight >= MaxConns THEN Served ELSE Served \cup {c}
    BY <1>3 DEF Accept, Served, ConnStates
  <2>4. inflight' = inflight + 1 /\ Cardinality(Open') = Cardinality(Open) + 1
    BY <1>3, <2>1, <2>2, ConnsFinite, CountMoves DEF Accept
  <2>5. Cardinality(Served \cup {c}) = Cardinality(Served) + 1
    BY <2>1, ConnsFinite, CountMoves
  <2>6. inflight = Cardinality(Served)
    BY <2>1 DEF Slots
  <2>7. Cardinality(Served') <= MaxConns
    BY <1>1, <2>3, <2>5, <2>6 DEF Slots
  <2>8. ConnStates'
    BY <1>3 DEF Accept, ConnStates
  <2>. QED
    BY <2>4, <2>7, <2>8 DEF Slots
<1>4. ASSUME NEW c \in Conns, conn[c] # "closed", Close(c) PROVE ConnStates' /\ Slots'
  <2>1. Open' = Open \ {c} /\ c \in Open /\ Served' = Served \ {c}
    BY <1>4 DEF Close, Open, Served, ConnStates
  <2>2. Cardinality(Open') = Cardinality(Open) - 1 /\ Cardinality(Served') <= Cardinality(Served)
    BY <2>1, ConnsFinite, CountMoves, FS_Subset
  <2>3. Cardinality(Served') \in Nat
    BY <2>1, ConnsFinite, CountMoves
  <2>4. inflight' = inflight - 1 /\ ConnStates'
    BY <1>4 DEF Close, ConnStates
  <2>. QED
    BY <1>1, <2>2, <2>3, <2>4 DEF Slots
<1>5. ASSUME NEW c \in Conns, ReadRequest(c) \/ ReadOther(c) \/ RenderItem(c) PROVE ConnStates' /\ Slots'
  <2>1. Open' = Open /\ Served' = Served /\ inflight' = inflight
    BY <1>5 DEF ReadRequest, ReadOther, RenderItem, Open, Served, ConnStates
  <2>2. ConnStates'
    BY <1>5 DEF ReadRequest, ReadOther, RenderItem, ConnStates
  <2>. QED
    BY <2>1, <2>2 DEF Slots
<1>6. ASSUME NEW c \in Conns, Serve(c) PROVE ConnStates' /\ Slots'
  BY <1>4, <1>5, <1>6 DEF Serve, TurnAway, ReadTimeout, Written
<1>7. ASSUME NEW t \in Threads, Begin(t) \/ Record(t) PROVE UNCHANGED endpoint
  BY <1>7 DEF Begin, Record, BumpSeries, SeriesDone, BumpBucket, BumpCount, LoadSum, ExchangeSum,
              GetExit, CheckLen, InsertExit
<1>. QED
  BY <1>2, <1>3, <1>6, <1>7 DEF Next, vars, endpoint

LEMMA InitSlots == Init => ConnStates /\ Slots
<1>. SUFFICES ASSUME Init PROVE ConnStates /\ Slots
  OBVIOUS
<1>1. Open = {} /\ Served = {}
  BY DEF Init, Open, Served
<1>. QED
  BY <1>1, FS_EmptySet, Limits DEF Init, ConnStates, Slots

\* serve_metrics gives a connection back on every path, the refused, the timed out
\* and the failed one too, and never serves more than METRICS_MAX_CONCURRENT.
THEOREM EndpointSlots == Spec => []SlotsReturned
BY InitSlots, SlotsStep, SlotsAgree, PTL DEF Spec

-----------------------------------------------------------------------------
\* Tasks

Labels == {"idle", "series", "bucket", "count", "load", "cas", "get", "len", "insert", "overflow"}

TaskTypes ==
  /\ pc \in [Threads -> Labels]
  /\ job = [t \in Threads |-> job[t]]
  /\ todo = [t \in Threads |-> todo[t]]
  /\ cur \in [Threads -> Nat]
  /\ \A t \in Threads :
       /\ pc[t] # "idle" => job[t] \in Jobs
       /\ pc[t] = "series" => job[t].kind # "exit"
       /\ pc[t] \in {"bucket", "count", "load", "cas"} => job[t].kind \in {"observe", "stage", "fetch"}
       /\ pc[t] \in {"bucket", "count"} => job[t].kind # "fetch"
       /\ pc[t] # "series" => todo[t] = <<>>

SumTypes == sum \in [Hists -> Nat] /\ recorded \in [Hists -> Nat]

\* What a histogram is given.
LEMMA HistOf ==
  ASSUME NEW j \in Jobs, j.kind \in {"observe", "stage", "fetch"}
  PROVE  /\ j.hist \in Hists /\ j.ms \in Nat
         /\ j.kind = "observe" <=> j.hist = "duration"
         /\ j.kind = "fetch" <=> j.hist = "fetch"
BY JobTypes, HistsKnown

LEMMA ClipType == Len(Bounds) \in Nat \ {0} /\ Clip \in Nat /\ \A i \in Bucket : Bounds[i] \in Nat
BY BoundsRise DEF Clip, Bucket

LEMMA ClippedType == ASSUME NEW ms \in Nat PROVE Clipped(ms) \in Nat /\ Clipped(ms) <= Clip
BY ClipType DEF Clipped

\* How a task goes on: another changes nothing of it.
LEMMA TasksStep == ASSUME TaskTypes, SumTypes, [Next]_vars PROVE TaskTypes'
<1>1. ASSUME UNCHANGED tasks PROVE TaskTypes'
  BY <1>1 DEF TaskTypes, tasks
<1>. USE DEF Labels
<1>2. ASSUME NEW t \in Threads, Begin(t) PROVE TaskTypes'
  <2>1. PICK j \in Jobs :
          /\ job' = [job EXCEPT ![t] = j]
          /\ todo' = [todo EXCEPT ![t] = SeriesOf(j)]
          /\ pc' = [pc EXCEPT ![t] = IF j.kind = "exit" THEN "get" ELSE "series"]
    BY <1>2 DEF Begin
  <2>2. j.kind = "exit" => SeriesOf(j) = <<>>
    BY DEF SeriesOf, Observation
  <2>3. cur' = cur
    BY <1>2 DEF Begin
  <2>. HIDE DEF SeriesOf
  <2>. QED
    BY <2>1, <2>2, <2>3 DEF TaskTypes
<1>3. ASSUME NEW t \in Threads, BumpSeries(t) PROVE TaskTypes'
  <2>1. UNCHANGED <<pc, job, cur>> /\ pc[t] = "series"
    BY <1>3 DEF BumpSeries
  <2>2. PICK q : todo' = [todo EXCEPT ![t] = q]
    BY <1>3 DEF BumpSeries, TaskTypes
  <2>. QED
    BY <2>1, <2>2 DEF TaskTypes
<1>4. ASSUME NEW t \in Threads, SeriesDone(t) PROVE TaskTypes'
  <2>1. job[t].kind # "exit" /\ pc[t] = "series" /\ job[t] \in Jobs
    BY <1>4 DEF SeriesDone, Goto, Finish, TaskTypes
  <2>2. job[t].kind \in {"observe", "stage", "fetch", "note", "log"}
    BY <2>1, JobTypes
  <2>3. UNCHANGED <<todo, cur>> /\ todo[t] = <<>>
    BY <1>4 DEF SeriesDone
  <2>4. CASE job[t].kind \in {"note", "log"}
    BY <1>4, <2>3, <2>4 DEF SeriesDone, Finish, Goto, TaskTypes
  <2>5. CASE job[t].kind = "fetch"
    BY <1>4, <2>1, <2>3, <2>5 DEF SeriesDone, Goto, TaskTypes
  <2>6. CASE job[t].kind \in {"observe", "stage"}
    BY <1>4, <2>1, <2>3, <2>6 DEF SeriesDone, Goto, TaskTypes
  <2>. QED
    BY <2>2, <2>4, <2>5, <2>6
<1>5. ASSUME NEW t \in Threads, BumpBucket(t) \/ BumpCount(t) PROVE TaskTypes'
  BY <1>5 DEF BumpBucket, BumpCount, Goto, TaskTypes
<1>6. ASSUME NEW t \in Threads, LoadSum(t) PROVE TaskTypes'
  <2>1. sum[job[t].hist] \in Nat
    BY <1>6, HistOf DEF LoadSum, Goto, TaskTypes, SumTypes
  <2>. QED
    BY <1>6, <2>1 DEF LoadSum, Goto, TaskTypes
<1>7. ASSUME NEW t \in Threads, ExchangeSum(t) PROVE TaskTypes'
  <2>1. sum[job[t].hist] \in Nat
    BY <1>7, HistOf DEF ExchangeSum, TaskTypes, SumTypes
  <2>2. CASE cur[t] = sum[job[t].hist]
    <3>1. /\ pc[t] = "cas" /\ pc' = [pc EXCEPT ![t] = "idle"] /\ job' = [job EXCEPT ![t] = NoJob]
          /\ cur' = [cur EXCEPT ![t] = 0] /\ UNCHANGED todo
      BY <1>7, <2>2 DEF ExchangeSum, Finish, Goto
    <3>. QED
      BY <3>1 DEF TaskTypes
  <2>3. CASE cur[t] # sum[job[t].hist]
    <3>1. UNCHANGED <<pc, job, todo>> /\ cur' = [cur EXCEPT ![t] = sum[job[t].hist]]
      BY <1>7, <2>3 DEF ExchangeSum
    <3>. QED
      BY <2>1, <3>1 DEF TaskTypes
  <2>. QED
    BY <2>2, <2>3
<1>8. ASSUME NEW t \in Threads, GetExit(t) \/ CheckLen(t) PROVE TaskTypes'
  BY <1>8 DEF GetExit, CheckLen, Finish, Goto, TaskTypes
<1>9. ASSUME NEW t \in Threads, NEW label, InsertExit(t, "insert", label) \/ InsertExit(t, "overflow", label)
      PROVE  TaskTypes'
  BY <1>9 DEF InsertExit, Finish, Goto, TaskTypes
<1>10. ASSUME NEW c \in Conns, Accept(c) \/ Serve(c) PROVE UNCHANGED tasks
  BY <1>10 DEF Accept, Serve, TurnAway, ReadTimeout, ReadRequest, ReadOther, RenderItem, Written
<1>. QED
  BY <1>1, <1>2, <1>3, <1>4, <1>5, <1>6, <1>7, <1>8, <1>9, <1>10 DEF Next, vars, Record

-----------------------------------------------------------------------------
\* Sums of a histogram

SumsExact == \A h \in Hists : sum[h] = IF recorded[h] > SumMax THEN SumMax ELSE recorded[h]

LEMMA SumsStep ==
  ASSUME TaskTypes, SumTypes, SumsExact, [Next]_vars
  PROVE  SumTypes' /\ SumsExact'
<1>1. ASSUME UNCHANGED <<sum, recorded>> PROVE SumTypes' /\ SumsExact'
  BY <1>1 DEF SumTypes, SumsExact
<1>2. ASSUME NEW t \in Threads, ExchangeSum(t), cur[t] = sum[job[t].hist]
      PROVE  SumTypes' /\ SumsExact'
  <2>. DEFINE h == job[t].hist
              ms == Clipped(job[t].ms)
  <2>1. h \in Hists /\ ms \in Nat
    BY <1>2, HistOf, ClippedType DEF ExchangeSum, TaskTypes
  <2>2. /\ sum' = [sum EXCEPT ![h] = SaturatingPlus(sum[h], ms)]
        /\ recorded' = [recorded EXCEPT ![h] = @ + ms]
    BY <1>2 DEF ExchangeSum
  <2>. HIDE DEF h, ms
  <2>3. sum[h] \in Nat /\ recorded[h] \in Nat /\ SumMax \in Nat
    BY <2>1, Limits DEF SumTypes
  <2>4. /\ SaturatingPlus(sum[h], ms) \in Nat
        /\ SaturatingPlus(sum[h], ms) = IF recorded[h] + ms > SumMax THEN SumMax ELSE recorded[h] + ms
    BY <2>1, <2>3 DEF SaturatingPlus, SumsExact
  <2>5. SumTypes'
    BY <2>1, <2>2, <2>3, <2>4 DEF SumTypes
  <2>6. ASSUME NEW g \in Hists
        PROVE  sum'[g] = IF recorded'[g] > SumMax THEN SumMax ELSE recorded'[g]
    <3>1. CASE g = h
      BY <2>1, <2>2, <2>4, <3>1 DEF SumTypes
    <3>2. CASE g # h
      BY <2>1, <2>2, <3>2 DEF SumTypes, SumsExact
    <3>. QED
      BY <3>1, <3>2
  <2>. QED
    BY <2>5, <2>6 DEF SumsExact
<1>3. ASSUME NEW t \in Threads, ExchangeSum(t), cur[t] # sum[job[t].hist] PROVE UNCHANGED <<sum, recorded>>
  BY <1>3 DEF ExchangeSum
<1>4. ASSUME NEW t \in Threads, Begin(t) \/ (Record(t) /\ ~ExchangeSum(t)) PROVE UNCHANGED <<sum, recorded>>
  BY <1>4 DEF Begin, Record, BumpSeries, SeriesDone, BumpBucket, BumpCount, LoadSum,
              GetExit, CheckLen, InsertExit, registers, history
<1>5. ASSUME NEW c \in Conns, Accept(c) \/ Serve(c) PROVE UNCHANGED <<sum, recorded>>
  BY <1>5 DEF Accept, Serve, TurnAway, ReadTimeout, ReadRequest, ReadOther, RenderItem, Written,
              registers, history
<1>. QED
  BY <1>1, <1>2, <1>3, <1>4, <1>5 DEF Next, vars, registers, history, Record

-----------------------------------------------------------------------------
\* Exits

Inserters == {t \in Threads : pc[t] = "insert"}
Brought == {job[t].ip : t \in Inserters}

\* The exits that have a series, and those that will have one without a further
\* look at the cap.
Claimed == (DOMAIN exits \ {Overflow}) \cup Brought

ExitsClaimed == Cardinality(Claimed) <= LabelCap + Cardinality(Threads) - 1

ExitsKept == Counters(exits) /\ noted \in Nat /\ Total(exits) = noted /\ ExitsClaimed

LEMMA BroughtFinite ==
  /\ IsFiniteSet(Brought) /\ Cardinality(Brought) \in Nat
  /\ Cardinality(Brought) <= Cardinality(Threads)
  /\ Cardinality(Threads) \in Nat
<1>1. IsFiniteSet(Inserters) /\ Cardinality(Inserters) <= Cardinality(Threads) /\ IsFiniteSet(Threads)
  BY Finite, FS_Subset DEF Inserters
<1>2. [t \in Inserters |-> job[t].ip] \in Surjection(Inserters, Brought)
  BY DEF Surjection, Brought
<1>3. IsFiniteSet(Brought) /\ Cardinality(Brought) <= Cardinality(Inserters)
  BY <1>1, <1>2, FS_Surjection
<1>. QED
  BY <1>1, <1>3, FS_CardinalityType

LEMMA ClaimedFinite ==
  ASSUME Counters(exits)
  PROVE  IsFiniteSet(Claimed) /\ Cardinality(Claimed) \in Nat
<1>1. IsFiniteSet(DOMAIN exits \ {Overflow})
  BY FS_Subset DEF Counters
<1>. QED
  BY <1>1, BroughtFinite, FS_Union, FS_CardinalityType DEF Claimed

\* Nothing is claimed but by a look at the cap.
LEMMA NoNewClaim ==
  ASSUME ExitsKept, DOMAIN exits' \subseteq DOMAIN exits \cup Brought \cup {Overflow},
         \A t \in Threads : pc'[t] = "insert" => pc[t] = "insert" /\ job'[t] = job[t]
  PROVE  ExitsClaimed'
<1>1. Brought' \subseteq Brought
  BY DEF Brought, Inserters
<1>2. Claimed' \in SUBSET Claimed
  BY <1>1 DEF Claimed
<1>3. IsFiniteSet(Claimed) /\ Cardinality(Claimed) \in Nat
  BY ClaimedFinite DEF ExitsKept
<1>4. Cardinality(Claimed') <= Cardinality(Claimed) /\ Cardinality(Claimed') \in Nat
  BY <1>2, <1>3, FS_Subset, FS_CardinalityType
<1>5. LabelCap \in Nat /\ Cardinality(Threads) \in Nat
  BY Limits, BroughtFinite
<1>. QED
  BY <1>3, <1>4, <1>5 DEF ExitsKept, ExitsClaimed

LEMMA ExitsStep == ASSUME TaskTypes, ExitsKept, [Next]_vars PROVE ExitsKept'
<1>1. ASSUME UNCHANGED <<exits, noted>>,
             \A t \in Threads : pc'[t] = "insert" => pc[t] = "insert" /\ job'[t] = job[t]
      PROVE  ExitsKept'
  BY <1>1, NoNewClaim DEF ExitsKept
<1>2. ASSUME NEW label \in DOMAIN exits \cup Brought \cup {Overflow},
             exits' = Bumped(exits, label), noted' = noted + 1,
             \A t \in Threads : pc'[t] = "insert" => pc[t] = "insert" /\ job'[t] = job[t]
      PROVE  ExitsKept'
  <2>1. Counters(exits') /\ DOMAIN exits' = DOMAIN exits \cup {label} /\ Total(exits') = Total(exits) + 1
    BY <1>2, BumpedTotal DEF ExitsKept
  <2>2. ExitsClaimed'
    BY <1>2, <2>1, NoNewClaim
  <2>. QED
    BY <1>2, <2>1, <2>2 DEF ExitsKept
<1>. USE DEF Labels
<1>3. ASSUME NEW t \in Threads, Begin(t) PROVE ExitsKept'
  <2>1. UNCHANGED <<exits, noted>>
    BY <1>3 DEF Begin, registers
  <2>2. \A q \in Threads : pc'[q] = "insert" => pc[q] = "insert" /\ job'[q] = job[q]
    BY <1>3 DEF Begin, TaskTypes
  <2>. QED
    BY <1>1, <2>1, <2>2
<1>4. ASSUME NEW t \in Threads,
             BumpSeries(t) \/ SeriesDone(t) \/ BumpBucket(t) \/ BumpCount(t) \/ LoadSum(t) \/ ExchangeSum(t)
      PROVE  ExitsKept'
  <2>1. UNCHANGED <<exits, noted>>
    BY <1>4 DEF BumpSeries, SeriesDone, BumpBucket, BumpCount, LoadSum, ExchangeSum, registers, history
  <2>2. ASSUME NEW q \in Threads, pc'[q] = "insert" PROVE pc[q] = "insert" /\ job'[q] = job[q]
    BY <1>4, <2>2 DEF BumpSeries, SeriesDone, BumpBucket, BumpCount, LoadSum, ExchangeSum, Goto, Finish,
                TaskTypes
  <2>. QED
    BY <1>1, <2>1, <2>2
<1>5. ASSUME NEW t \in Threads, GetExit(t) PROVE ExitsKept'
  <2>1. \A q \in Threads : pc'[q] = "insert" => pc[q] = "insert" /\ job'[q] = job[q]
    BY <1>5 DEF GetExit, Goto, Finish, TaskTypes
  <2>2. CASE job[t].ip \in DOMAIN exits
    BY <1>2, <1>5, <2>1, <2>2 DEF GetExit
  <2>3. CASE job[t].ip \notin DOMAIN exits
    BY <1>1, <1>5, <2>1, <2>3 DEF GetExit
  <2>. QED
    BY <2>2, <2>3
<1>6. ASSUME NEW t \in Threads, CheckLen(t) PROVE ExitsKept'
  <2>1. UNCHANGED <<exits, noted, job>>
    BY <1>6 DEF CheckLen, registers, history
  <2>2. CASE Cardinality(DOMAIN exits) >= LabelCap
    <3>1. \A q \in Threads : pc'[q] = "insert" => pc[q] = "insert"
      BY <1>6, <2>2 DEF CheckLen, Goto, TaskTypes
    <3>. QED
      BY <1>1, <2>1, <3>1
  <2>3. CASE ~(Cardinality(DOMAIN exits) >= LabelCap)
    <3>. DEFINE D == DOMAIN exits \ {Overflow}
    <3>1. IsFiniteSet(DOMAIN exits) /\ Cardinality(DOMAIN exits) \in Nat
      BY FS_CardinalityType DEF ExitsKept, Counters
    <3>2. IsFiniteSet(D) /\ Cardinality(D) \in Nat /\ Cardinality(D) <= Cardinality(DOMAIN exits)
      BY <3>1, FS_Subset, FS_CardinalityType
    <3>3. /\ IsFiniteSet(Brought') /\ Cardinality(Brought') \in Nat
          /\ Cardinality(Brought') <= Cardinality(Threads)
      <4>1. IsFiniteSet(Inserters') /\ Cardinality(Inserters') <= Cardinality(Threads)
        BY Finite, FS_Subset DEF Inserters
      <4>2. [q \in Inserters' |-> job'[q].ip] \in Surjection(Inserters', Brought')
        BY DEF Surjection, Brought
      <4>. QED
        BY <4>1, <4>2, BroughtFinite, FS_Surjection, FS_CardinalityType
    <3>4. Claimed' = D \cup Brought'
      BY <2>1 DEF Claimed
    <3>5. Cardinality(D \cap Brought') \in Nat
      BY <3>2, FS_Intersection, FS_CardinalityType
    <3>6. Cardinality(Claimed') = Cardinality(D) + Cardinality(Brought') - Cardinality(D \cap Brought')
      BY <3>2, <3>3, <3>4, FS_Union
    <3>7. LabelCap \in Nat /\ Cardinality(Threads) \in Nat
      BY Limits, BroughtFinite
    <3>. HIDE DEF D
    <3>8. ExitsClaimed'
      BY <2>3, <3>1, <3>2, <3>3, <3>5, <3>6, <3>7 DEF ExitsClaimed
    <3>. QED
      BY <2>1, <3>8 DEF ExitsKept
  <2>. QED
    BY <2>2, <2>3
<1>7. ASSUME NEW t \in Threads, pc[t] = "insert", InsertExit(t, "insert", job[t].ip) PROVE ExitsKept'
  <2>1. job[t].ip \in Brought
    BY <1>7 DEF Brought, Inserters
  <2>2. \A q \in Threads : pc'[q] = "insert" => pc[q] = "insert" /\ job'[q] = job[q]
    BY <1>7 DEF InsertExit, Goto, Finish, TaskTypes
  <2>. QED
    BY <1>2, <1>7, <2>1, <2>2 DEF InsertExit
<1>8. ASSUME NEW t \in Threads, InsertExit(t, "overflow", Overflow) PROVE ExitsKept'
  <2>1. \A q \in Threads : pc'[q] = "insert" => pc[q] = "insert" /\ job'[q] = job[q]
    BY <1>8 DEF InsertExit, Goto, Finish, TaskTypes
  <2>. QED
    BY <1>2, <1>8, <2>1 DEF InsertExit
<1>9. ASSUME NEW c \in Conns, Accept(c) \/ Serve(c) PROVE UNCHANGED <<exits, noted, pc, job>>
  BY <1>9 DEF Accept, Serve, TurnAway, ReadTimeout, ReadRequest, ReadOther, RenderItem, Written,
              registers, tasks, history
<1>. QED
  BY <1>1, <1>3, <1>4, <1>5, <1>6, <1>7, <1>8, <1>9 DEF Next, vars, registers, tasks, history, Record

LEMMA InitExits == Init => TaskTypes /\ SumTypes /\ SumsExact /\ ExitsKept
<1>. SUFFICES ASSUME Init PROVE TaskTypes /\ SumTypes /\ SumsExact /\ ExitsKept
  OBVIOUS
<1>1. TaskTypes
  BY DEF Init, TaskTypes, Labels
<1>2. SumTypes /\ SumsExact
  BY Limits DEF Init, SumTypes, SumsExact
<1>3. DOMAIN exits = {} /\ Claimed = {} /\ Counters(exits)
  BY FS_EmptySet DEF Init, NoSeries, Claimed, Brought, Inserters, Counters
<1>4. ExitsClaimed
  BY <1>3, FS_EmptySet, Limits, BroughtFinite DEF ExitsClaimed
<1>. QED
  BY <1>1, <1>2, <1>3, <1>4, EmptyTotal DEF Init, ExitsKept

\* note_free_exit looks for room and inserts in two accesses: the exits that have a
\* series exceed EXIT_LABEL_CAP by no more than one for each further task, and each
\* exit is counted, in its own series or in that of the overflow.
THEOREM ExitsBounded == Spec => []ExitsCounted
<1>1. ASSUME ExitsKept PROVE ExitsCounted
  <2>1. DOMAIN exits \ {Overflow} \in SUBSET Claimed
    BY DEF Claimed
  <2>2. Cardinality(DOMAIN exits \ {Overflow}) <= Cardinality(Claimed)
        /\ Cardinality(DOMAIN exits \ {Overflow}) \in Nat
    BY <1>1, <2>1, ClaimedFinite, FS_Subset, FS_CardinalityType DEF ExitsKept
  <2>. QED
    BY <1>1, <2>2, ClaimedFinite, Limits, BroughtFinite DEF ExitsKept, ExitsClaimed, ExitsCounted
<1>2. ExitsKept => ExitsCounted
  BY <1>1
<1>. QED
  BY <1>2, InitExits, TasksStep, SumsStep, ExitsStep, PTL DEF Spec

-----------------------------------------------------------------------------
\* What a task has still to bump

Has(q, name) == \E i \in DOMAIN q : q[i][1] = name

ObserveNames == {"requests", "own", "by_provider", "forbidden"}

\* Every series that SeriesOf may name for a job.
SeriesFor(j) == {<<"requests", StatusClass(j.status)>>, <<"own", j.status>>,
                 <<"by_provider", <<StatusClass(j.status), j.provider>>>>, <<"forbidden", j.provider>>,
                 <<j.name, j.label>>, <<"fetches", j.source>>}
Listed == (UNION {SeriesFor(j) : j \in Jobs}) \cup {LogLine, LogSampled}

\* An observation bumps each of its counters once, its class first, and it has one
\* counter of its own at most.
Queue(q) ==
  /\ \A i \in DOMAIN q : q[i][1] \in ObserveNames
  /\ \A i, k \in DOMAIN q : q[i][1] = q[k][1] => i = k
  /\ \A i \in DOMAIN q : q[i][1] = "requests" => i = 1
  /\ ~(Has(q, "own") /\ Has(q, "forbidden"))

LEMMA TailOf ==
  ASSUME NEW S, NEW q \in Seq(S), q # <<>>
  PROVE  /\ Tail(q) \in Seq(S) /\ Head(q) = q[1] /\ Head(q) \in S
         /\ Len(q) \in Nat \ {0} /\ DOMAIN q = 1..Len(q)
         /\ DOMAIN Tail(q) = 1..Len(q) - 1
         /\ \A i \in DOMAIN Tail(q) : Tail(q)[i] = q[i + 1]
OBVIOUS

LEMMA QueueTail ==
  ASSUME NEW S, NEW q \in Seq(S), q # <<>>, Queue(q)
  PROVE  /\ Queue(Tail(q)) /\ Head(q)[1] \in ObserveNames
         /\ Has(q, Head(q)[1]) /\ ~Has(Tail(q), Head(q)[1])
         /\ \A name : name # Head(q)[1] => (Has(Tail(q), name) <=> Has(q, name))
         /\ Head(q)[1] # "requests" => ~Has(q, "requests")
<1>. DEFINE p == Tail(q)
            n == Len(q)
<1>1. /\ n \in Nat \ {0} /\ DOMAIN q = 1..n /\ DOMAIN p = 1..n - 1
      /\ \A i \in DOMAIN p : p[i] = q[i + 1]
      /\ Head(q) = q[1]
  BY TailOf
<1>. HIDE DEF p, n
<1>2. 1 \in DOMAIN q /\ \A i \in DOMAIN p : i + 1 \in DOMAIN q /\ i \in Nat \ {0}
  BY <1>1
<1>3. \A i \in DOMAIN q : i # 1 => i - 1 \in DOMAIN p /\ (i - 1) + 1 = i
  BY <1>1
<1>4. Head(q)[1] \in ObserveNames /\ Has(q, Head(q)[1])
  BY <1>1, <1>2 DEF Queue, Has
<1>5. ~Has(p, Head(q)[1])
  <2>1. ASSUME NEW i \in DOMAIN p, p[i][1] = Head(q)[1] PROVE FALSE
    <3>1. i + 1 = 1
      BY <1>1, <1>2, <2>1 DEF Queue
    <3>. QED
      BY <1>2, <3>1
  <2>. QED
    BY <2>1 DEF Has
<1>6. ASSUME NEW name, name # Head(q)[1] PROVE Has(p, name) <=> Has(q, name)
  <2>1. ASSUME NEW i \in DOMAIN q, q[i][1] = name PROVE i # 1 /\ p[i - 1][1] = name
    BY <1>1, <1>3, <1>6, <2>1
  <2>2. ASSUME NEW i \in DOMAIN p, p[i][1] = name PROVE q[i + 1][1] = name
    BY <1>1, <2>2
  <2>. QED
    BY <1>2, <1>3, <2>1, <2>2 DEF Has
<1>7. Head(q)[1] # "requests" => ~Has(q, "requests")
  BY <1>1 DEF Queue, Has
<1>8. Queue(p)
  <2>1. \A i \in DOMAIN p : p[i][1] \in ObserveNames /\ p[i][1] # "requests"
    BY <1>1, <1>2, <1>5 DEF Queue, Has
  <2>2. ASSUME NEW i \in DOMAIN p, NEW k \in DOMAIN p, p[i][1] = p[k][1] PROVE i = k
    <3>1. i + 1 = k + 1
      BY <1>1, <1>2, <2>2 DEF Queue
    <3>. QED
      BY <1>2, <3>1
  <2>3. ~(Has(p, "own") /\ Has(p, "forbidden"))
    BY <1>5, <1>6 DEF Queue
  <2>. QED
    BY <2>1, <2>2, <2>3 DEF Queue
<1>. QED
  BY <1>4, <1>5, <1>6, <1>7, <1>8 DEF p

LEMMA Joined ==
  ASSUME NEW S, NEW a \in S, NEW b \in S, NEW x \in S
  PROVE  /\ \E q \in Seq(S) : /\ q = ((<<a>> \o <<>>) \o <<b>>) \o <<>>
                              /\ Len(q) = 2 /\ q[1] = a /\ q[2] = b
         /\ \E q \in Seq(S) : /\ q = ((<<a>> \o <<x>>) \o <<b>>) \o <<>>
                              /\ Len(q) = 3 /\ q[1] = a /\ q[2] = x /\ q[3] = b
         /\ \E q \in Seq(S) : /\ q = ((<<a>> \o <<>>) \o <<b>>) \o <<x>>
                              /\ Len(q) = 3 /\ q[1] = a /\ q[2] = b /\ q[3] = x
<1>1. <<a>> \in Seq(S) /\ Len(<<a>>) = 1 /\ <<a>>[1] = a
  OBVIOUS
<1>. DEFINE One == <<a>>
<1>. HIDE DEF One
<1>2. One \in Seq(S) /\ Len(One) = 1 /\ One[1] = a
  BY <1>1 DEF One
<1>3. One \o <<>> = One
  BY <1>2, ConcatEmptySeq
<1>4. ASSUME NEW c \in S
      PROVE  \E q \in Seq(S) : q = One \o <<c>> /\ Len(q) = 2 /\ q[1] = a /\ q[2] = c
  <2>1. One \o <<c>> = Append(One, c)
    BY <1>2, AppendIsConcat
  <2>2. One \in Seq(S)
    BY <1>2
  <2>3. /\ Append(One, c) \in Seq(S) /\ Len(Append(One, c)) = Len(One) + 1
        /\ \A i \in 1..Len(One) : Append(One, c)[i] = One[i]
        /\ Append(One, c)[Len(One) + 1] = c
    BY <2>2, AppendProperties
  <2>4. Len(Append(One, c)) = 2
    BY <1>2, <2>3
  <2>5. Append(One, c)[1] = a
    BY <1>2, <2>3
  <2>6. Append(One, c)[2] = c
    BY <1>2, <2>3
  <2>. QED
    BY <2>1, <2>3, <2>4, <2>5, <2>6
<1>5. ASSUME NEW q \in Seq(S), Len(q) = 2, NEW c \in S
      PROVE  /\ q \o <<>> = q
             /\ \E r \in Seq(S) : r = q \o <<c>> /\ Len(r) = 3 /\ r[1] = q[1] /\ r[2] = q[2] /\ r[3] = c
  <2>1. q \o <<c>> = Append(q, c) /\ q \o <<>> = q
    BY AppendIsConcat, ConcatEmptySeq
  <2>2. /\ Append(q, c) \in Seq(S) /\ Len(Append(q, c)) = Len(q) + 1
        /\ \A i \in 1..Len(q) : Append(q, c)[i] = q[i]
        /\ Append(q, c)[Len(q) + 1] = c
    BY AppendProperties
  <2>3. Len(Append(q, c)) = 3
    BY <1>5, <2>2
  <2>4. Append(q, c)[1] = q[1] /\ Append(q, c)[2] = q[2]
    BY <1>5, <2>2
  <2>5. Append(q, c)[3] = c
    BY <1>5, <2>2
  <2>. QED
    BY <2>1, <2>2, <2>3, <2>4, <2>5
<1>6. PICK q \in Seq(S) : q = One \o <<b>> /\ Len(q) = 2 /\ q[1] = a /\ q[2] = b
  BY <1>4
<1>7. PICK r \in Seq(S) : r = One \o <<x>> /\ Len(r) = 2 /\ r[1] = a /\ r[2] = x
  BY <1>4
<1>8. Len(q) = 2 /\ Len(r) = 2
  BY <1>6, <1>7
<1>9. PICK u \in Seq(S) : u = r \o <<b>> /\ Len(u) = 3 /\ u[1] = r[1] /\ u[2] = r[2] /\ u[3] = b
  BY <1>5, <1>8
<1>10. PICK v \in Seq(S) : v = q \o <<x>> /\ Len(v) = 3 /\ v[1] = q[1] /\ v[2] = q[2] /\ v[3] = x
  BY <1>5, <1>8
<1>11. u \o <<>> = u /\ q \o <<>> = q
  BY <1>8, <1>5, ConcatEmptySeq
<1>12. <<a>> = One
  BY DEF One
<1>. QED
  BY <1>3, <1>6, <1>7, <1>9, <1>10, <1>11, <1>12

LEMMA ObserveShape ==
  ASSUME NEW j \in Jobs, Observation(j)
  PROVE  /\ SeriesOf(j) \in Seq(Listed) /\ Queue(SeriesOf(j))
         /\ Has(SeriesOf(j), "requests") /\ Has(SeriesOf(j), "by_provider")
<1>. DEFINE a == <<"requests", StatusClass(j.status)>>
            b == <<"by_provider", <<StatusClass(j.status), j.provider>>>>
            o == <<"own", j.status>>
            f == <<"forbidden", j.provider>>
            q == SeriesOf(j)
<1>1. {a, b, o, f} \subseteq Listed
  <2>1. {a, b, o, f} \subseteq SeriesFor(j)
    BY DEF SeriesFor
  <2>. QED
    BY <2>1 DEF Listed
<1>2. a[1] = "requests" /\ b[1] = "by_provider" /\ o[1] = "own" /\ f[1] = "forbidden"
  OBVIOUS
<1>3. \/ q = ((<<a>> \o <<>>) \o <<b>>) \o <<>>
      \/ q = ((<<a>> \o <<o>>) \o <<b>>) \o <<>>
      \/ q = ((<<a>> \o <<>>) \o <<b>>) \o <<f>>
  <2>1. SeriesOf(j) = ObserveSeries(j)
    BY DEF SeriesOf, Observation
  <2>2. q = ((<<a>> \o (IF j.status \in {402, 429} THEN <<o>> ELSE <<>>)) \o <<b>>)
            \o (IF j.status = 403 /\ j.provider # NoProvider THEN <<f>> ELSE <<>>)
    BY <2>1 DEF ObserveSeries
  <2>. HIDE DEF a, b, o, f, q
  <2>3. CASE j.status \in {402, 429}
    BY <2>2, <2>3
  <2>4. CASE j.status \notin {402, 429} /\ j.status = 403 /\ j.provider # NoProvider
    BY <2>2, <2>4
  <2>5. CASE j.status \notin {402, 429} /\ ~(j.status = 403 /\ j.provider # NoProvider)
    BY <2>2, <2>5
  <2>. QED
    BY <2>3, <2>4, <2>5
<1>. HIDE DEF a, b, o, f, q
<1>4. CASE q = ((<<a>> \o <<>>) \o <<b>>) \o <<>>
  <2>1. q \in Seq(Listed) /\ Len(q) = 2 /\ q[1] = a /\ q[2] = b
    BY <1>1, <1>4, Joined
  <2>2. DOMAIN q = {1, 2}
    BY <2>1
  <2>. QED
    BY <1>2, <2>1, <2>2 DEF Queue, Has, ObserveNames, q
<1>5. CASE q = ((<<a>> \o <<o>>) \o <<b>>) \o <<>>
  <2>1. q \in Seq(Listed) /\ Len(q) = 3 /\ q[1] = a /\ q[2] = o /\ q[3] = b
    BY <1>1, <1>5, Joined
  <2>2. DOMAIN q = {1, 2, 3}
    BY <2>1
  <2>. QED
    BY <1>2, <2>1, <2>2 DEF Queue, Has, ObserveNames, q
<1>6. CASE q = ((<<a>> \o <<>>) \o <<b>>) \o <<f>>
  <2>1. q \in Seq(Listed) /\ Len(q) = 3 /\ q[1] = a /\ q[2] = b /\ q[3] = f
    BY <1>1, <1>6, Joined
  <2>2. DOMAIN q = {1, 2, 3}
    BY <2>1
  <2>. QED
    BY <1>2, <2>1, <2>2 DEF Queue, Has, ObserveNames, q
<1>. QED
  BY <1>3, <1>4, <1>5, <1>6

LEMMA OtherShape ==
  ASSUME NEW j \in Jobs, ~Observation(j)
  PROVE  /\ SeriesOf(j) \in Seq(Listed)
         /\ \A i \in DOMAIN SeriesOf(j) : SeriesOf(j)[i][1] \notin ObserveNames
         /\ IF j.kind = "log" THEN SeriesOf(j) \in {<<>>, <<LogLine>>}
                              ELSE \A i \in DOMAIN SeriesOf(j) : SeriesOf(j)[i][1] # "logs"
<1>1. SeriesOf(j) = <<>> \/ \E s \in Listed : /\ SeriesOf(j) = <<s>>
                                             /\ s[1] \notin ObserveNames
                                             /\ (j.kind # "log" => s[1] # "logs")
                                             /\ (j.kind = "log" => s = LogLine)
  <2>1. CASE j.kind = "note"
    <3>1. j.name \in NoteNames
      BY <2>1, JobTypes
    <3>2. <<j.name, j.label>> \in Listed
      BY DEF Listed, SeriesFor
    <3>. QED
      BY <2>1, <3>1, <3>2 DEF SeriesOf, NoteSeries, Observation, NoteNames, ObserveNames
  <2>2. CASE j.kind = "fetch"
    <3>1. <<"fetches", j.source>> \in Listed
      BY DEF Listed, SeriesFor
    <3>. QED
      BY <2>2, <3>1 DEF SeriesOf, Observation, ObserveNames
  <2>3. CASE j.kind = "log"
    <3>1. LogLine \in Listed
      BY DEF Listed
    <3>2. LogLine[1] \notin ObserveNames
      BY DEF LogLine, ObserveNames
    <3>3. SeriesOf(j) = <<>> \/ SeriesOf(j) = <<LogLine>>
      BY <2>3 DEF SeriesOf, Observation
    <3>. QED
      BY <2>3, <3>1, <3>2, <3>3
  <2>4. CASE j.kind \notin {"note", "fetch", "log"}
    BY <2>4 DEF SeriesOf, Observation
  <2>. QED
    BY <2>1, <2>2, <2>3, <2>4
<1>. HIDE DEF SeriesOf
<1>2. CASE SeriesOf(j) = <<>>
  BY <1>2
<1>3. ASSUME NEW s \in Listed, SeriesOf(j) = <<s>>, s[1] \notin ObserveNames,
             j.kind # "log" => s[1] # "logs", j.kind = "log" => s = LogLine
      PROVE  /\ SeriesOf(j) \in Seq(Listed)
             /\ \A i \in DOMAIN SeriesOf(j) : SeriesOf(j)[i][1] \notin ObserveNames
             /\ IF j.kind = "log" THEN SeriesOf(j) \in {<<>>, <<LogLine>>}
                                  ELSE \A i \in DOMAIN SeriesOf(j) : SeriesOf(j)[i][1] # "logs"
  <2>1. <<s>> \in Seq(Listed) /\ DOMAIN <<s>> = {1} /\ <<s>>[1] = s
    OBVIOUS
  <2>. QED
    BY <1>3, <2>1
<1>. QED
  BY <1>1, <1>2, <1>3

Kept(j, q) ==
  /\ q \in Seq(Listed)
  /\ IF Observation(j) THEN Queue(q) ELSE \A i \in DOMAIN q : q[i][1] \notin ObserveNames
  /\ IF j.kind = "log" THEN q \in {<<>>, <<LogLine>>, <<LogSampled>>}
     ELSE \A i \in DOMAIN q : q[i][1] # "logs"

LEMMA NothingKept == ASSUME NEW j PROVE Kept(j, <<>>)
<1>1. <<>> \in Seq(Listed) /\ DOMAIN <<>> = {}
  OBVIOUS
<1>2. Queue(<<>>)
  BY <1>1 DEF Queue, Has
<1>. QED
  BY <1>1, <1>2 DEF Kept

LEMMA BegunKept == ASSUME NEW j \in Jobs PROVE Kept(j, SeriesOf(j))
<1>1. CASE Observation(j)
  <2>1. \A i \in DOMAIN SeriesOf(j) : SeriesOf(j)[i][1] # "logs"
    BY <1>1, ObserveShape DEF Queue, ObserveNames
  <2>2. j.kind # "log"
    BY <1>1 DEF Observation
  <2>. HIDE DEF SeriesOf
  <2>. QED
    BY <1>1, <2>1, <2>2, ObserveShape DEF Kept
<1>2. CASE ~Observation(j)
  <2>. HIDE DEF SeriesOf
  <2>. QED
    BY <1>2, OtherShape DEF Kept
<1>. QED
  BY <1>1, <1>2

LEMMA TailKept ==
  ASSUME NEW j, NEW q, Kept(j, q), q # <<>>
  PROVE  Kept(j, Tail(q)) /\ Head(q) \in Listed /\ (Head(q) = LogLine => Kept(j, <<LogSampled>>))
<1>1. /\ Tail(q) \in Seq(Listed) /\ Head(q) = q[1] /\ Head(q) \in Listed
      /\ Len(q) \in Nat \ {0} /\ DOMAIN q = 1..Len(q)
      /\ DOMAIN Tail(q) = 1..Len(q) - 1
      /\ \A i \in DOMAIN Tail(q) : Tail(q)[i] = q[i + 1]
  BY TailOf DEF Kept
<1>2. 1 \in DOMAIN q /\ \A i \in DOMAIN Tail(q) : i + 1 \in DOMAIN q
  BY <1>1
<1>3. IF Observation(j) THEN Queue(Tail(q)) ELSE \A i \in DOMAIN Tail(q) : Tail(q)[i][1] \notin ObserveNames
  <2>1. CASE Observation(j)
    BY <2>1, QueueTail DEF Kept
  <2>2. CASE ~Observation(j)
    BY <1>1, <1>2, <2>2 DEF Kept
  <2>. QED
    BY <2>1, <2>2
<1>4. IF j.kind = "log" THEN Tail(q) \in {<<>>, <<LogLine>>, <<LogSampled>>}
      ELSE \A i \in DOMAIN Tail(q) : Tail(q)[i][1] # "logs"
  <2>1. CASE j.kind = "log"
    <3>1. q = <<LogLine>> \/ q = <<LogSampled>>
      BY <2>1 DEF Kept
    <3>2. Len(q) = 1
      BY <3>1
    <3>3. Len(Tail(q)) = 0 /\ Tail(q) \in Seq(Listed)
      BY <1>1, <3>2
    <3>4. Tail(q) = <<>>
      BY <3>3, EmptySeq
    <3>. QED
      BY <2>1, <3>4
  <2>2. CASE j.kind # "log"
    BY <1>1, <1>2, <2>2 DEF Kept
  <2>. QED
    BY <2>1, <2>2
<1>5. ASSUME Head(q) = LogLine PROVE Kept(j, <<LogSampled>>)
  <2>1. q[1][1] = "logs"
    BY <1>1, <1>5 DEF LogLine
  <2>2. j.kind = "log"
    BY <1>2, <2>1 DEF Kept
  <2>3. ~Observation(j)
    BY <2>2 DEF Observation
  <2>4. LogSampled \in Listed /\ LogSampled[1] = "logs" /\ "logs" \notin ObserveNames
    <3>1. LogSampled \in Listed
      BY DEF Listed
    <3>2. LogSampled[1] = "logs" /\ "logs" \notin ObserveNames
      BY DEF LogSampled, ObserveNames
    <3>. QED
      BY <3>1, <3>2
  <2>. HIDE DEF LogSampled
  <2>5. <<LogSampled>> \in Seq(Listed) /\ DOMAIN <<LogSampled>> = {1} /\ <<LogSampled>>[1] = LogSampled
    BY <2>4
  <2>. QED
    BY <2>2, <2>3, <2>4, <2>5 DEF Kept
<1>. QED
  BY <1>1, <1>3, <1>4, <1>5 DEF Kept

TodoKept == \A t \in Threads : Kept(job[t], todo[t])

LEMMA TodoStep == ASSUME TaskTypes, TodoKept, [Next]_vars PROVE TodoKept'
<1>1. ASSUME NEW t \in Threads, Kept(job'[t], todo'[t]),
             \A q \in Threads \ {t} : job'[q] = job[q] /\ todo'[q] = todo[q]
      PROVE  TodoKept'
  BY <1>1 DEF TodoKept
<1>2. ASSUME NEW t \in Threads, Begin(t) PROVE TodoKept'
  <2>1. PICK j \in Jobs : job' = [job EXCEPT ![t] = j] /\ todo' = [todo EXCEPT ![t] = SeriesOf(j)]
    BY <1>2 DEF Begin
  <2>2. /\ job'[t] = j /\ todo'[t] = SeriesOf(j)
        /\ \A q \in Threads \ {t} : job'[q] = job[q] /\ todo'[q] = todo[q]
    BY <2>1 DEF TaskTypes
  <2>. QED
    BY <1>1, <2>2, BegunKept
<1>3. ASSUME NEW t \in Threads, BumpSeries(t) PROVE TodoKept'
  <2>1. /\ todo[t] # <<>> /\ job' = job
        /\ todo' = [todo EXCEPT ![t] = IF SampledOut(Head(todo[t])) THEN <<LogSampled>> ELSE Tail(todo[t])]
    BY <1>3 DEF BumpSeries
  <2>2. \A q \in Threads \ {t} : todo'[q] = todo[q]
    BY <2>1 DEF TaskTypes
  <2>3. todo'[t] = Tail(todo[t]) \/ (Head(todo[t]) = LogLine /\ todo'[t] = <<LogSampled>>)
    BY <2>1 DEF TaskTypes, SampledOut
  <2>4. Kept(job[t], todo'[t])
    BY <2>1, <2>3, TailKept DEF TodoKept
  <2>. QED
    BY <1>1, <2>1, <2>2, <2>4
<1>4. ASSUME NEW t \in Threads, UNCHANGED todo, todo[t] = <<>>, \A q \in Threads \ {t} : job'[q] = job[q]
      PROVE  TodoKept'
  BY <1>1, <1>4, NothingKept
<1>5. ASSUME NEW t \in Threads, Record(t), ~BumpSeries(t) PROVE TodoKept'
  <2>1. UNCHANGED todo /\ todo[t] = <<>>
    BY <1>5 DEF Record, SeriesDone, BumpBucket, BumpCount, LoadSum, ExchangeSum, GetExit, CheckLen,
                InsertExit, Goto, Finish, TaskTypes
  <2>2. \A q \in Threads \ {t} : job'[q] = job[q]
    BY <1>5 DEF Record, SeriesDone, BumpBucket, BumpCount, LoadSum, ExchangeSum, GetExit, CheckLen,
                InsertExit, Goto, Finish, TaskTypes
  <2>. QED
    BY <1>4, <2>1, <2>2
<1>6. ASSUME UNCHANGED <<job, todo>> PROVE TodoKept'
  BY <1>6 DEF TodoKept
<1>7. ASSUME NEW c \in Conns, Accept(c) \/ Serve(c) PROVE UNCHANGED <<job, todo>>
  BY <1>7 DEF Accept, Serve, TurnAway, ReadTimeout, ReadRequest, ReadOther, RenderItem, Written, tasks
<1>. QED
  BY <1>2, <1>3, <1>5, <1>6, <1>7 DEF Next, vars, tasks

\* A step is one task's, and leaves the others where they are.
Others(t) == \A q \in Threads \ {t} : pc'[q] = pc[q] /\ job'[q] = job[q] /\ todo'[q] = todo[q]

LEMMA OthersWait ==
  ASSUME TaskTypes, NEW t \in Threads, Begin(t) \/ Record(t)
  PROVE  Others(t)
<1>1. CASE Begin(t)
  <2>1. PICK j \in Jobs :
          /\ job' = [job EXCEPT ![t] = j]
          /\ todo' = [todo EXCEPT ![t] = SeriesOf(j)]
          /\ pc' = [pc EXCEPT ![t] = IF j.kind = "exit" THEN "get" ELSE "series"]
    BY <1>1 DEF Begin
  <2>. HIDE DEF SeriesOf
  <2>. QED
    BY <2>1 DEF Others, TaskTypes
<1>2. CASE BumpSeries(t)
  <2>1. \E c : todo' = [todo EXCEPT ![t] = c] /\ UNCHANGED <<pc, job>>
    BY <1>2 DEF BumpSeries
  <2>. QED
    BY <2>1 DEF Others, TaskTypes
<1>3. CASE Record(t) /\ ~BumpSeries(t)
  BY <1>3 DEF Record, SeriesDone, BumpBucket, BumpCount, LoadSum, ExchangeSum, GetExit, CheckLen,
              InsertExit, Goto, Finish, TaskTypes, Others
<1>. QED
  BY <1>1, <1>2, <1>3

\* The counters of series, buckets and histograms change in three actions only.
LEMMA CountersWait ==
  ASSUME NEW t \in Threads, Begin(t) \/ (Record(t) /\ ~BumpSeries(t) /\ ~BumpBucket(t) /\ ~BumpCount(t))
  PROVE  UNCHANGED <<series, buckets, count>>
BY DEF Begin, Record, SeriesDone, LoadSum, ExchangeSum, GetExit, CheckLen, InsertExit, registers

LEMMA ClientsWait ==
  ASSUME NEW c \in Conns, Accept(c) \/ Serve(c)
  PROVE  UNCHANGED <<registers, tasks, history>>
BY DEF Accept, Serve, TurnAway, ReadTimeout, ReadRequest, ReadOther, RenderItem, Written

LEMMA BumpEffect ==
  ASSUME TaskTypes, TodoKept, NEW t \in Threads, BumpSeries(t)
  PROVE  /\ UNCHANGED <<pc, job, count, buckets>> /\ pc[t] = "series"
         /\ todo[t] \in Seq(Listed) /\ todo[t] # <<>>
         /\ series' = Bumped(series, Head(todo[t]))
         /\ Observation(job[t]) => /\ todo'[t] = Tail(todo[t])
                                   /\ Queue(todo[t]) /\ Head(todo[t])[1] \in ObserveNames
         /\ ~Observation(job[t]) => Head(todo[t])[1] \notin ObserveNames
<1>1. /\ UNCHANGED <<pc, job, count, buckets>> /\ pc[t] = "series" /\ todo[t] # <<>>
      /\ series' = Bumped(series, Head(todo[t]))
      /\ todo' = [todo EXCEPT ![t] = IF SampledOut(Head(todo[t])) THEN <<LogSampled>> ELSE Tail(todo[t])]
  BY DEF BumpSeries
<1>2. Kept(job[t], todo[t])
  BY DEF TodoKept
<1>3. todo[t] \in Seq(Listed)
  BY <1>2 DEF Kept
<1>4. Head(todo[t]) = todo[t][1] /\ 1 \in DOMAIN todo[t]
  BY <1>1, <1>3, TailOf
<1>5. ASSUME Observation(job[t])
      PROVE  todo'[t] = Tail(todo[t]) /\ Queue(todo[t]) /\ Head(todo[t])[1] \in ObserveNames
  <2>1. Queue(todo[t])
    BY <1>2, <1>5 DEF Kept
  <2>2. Head(todo[t])[1] \in ObserveNames
    BY <1>1, <1>3, <2>1, QueueTail
  <2>3. Head(todo[t]) # LogLine
    BY <2>2 DEF LogLine, ObserveNames
  <2>4. todo'[t] = Tail(todo[t])
    BY <1>1, <2>3 DEF SampledOut, TaskTypes
  <2>. QED
    BY <2>1, <2>2, <2>4
<1>6. ~Observation(job[t]) => Head(todo[t])[1] \notin ObserveNames
  BY <1>2, <1>4 DEF Kept
<1>. QED
  BY <1>1, <1>3, <1>5, <1>6

-----------------------------------------------------------------------------
\* Totals

NamedIn(f, name) == [s \in {x \in DOMAIN f : x[1] = name} |-> f[s]]
Sent(f, name) == Total(NamedIn(f, name))
Seen(f, s) == IF s \in DOMAIN f THEN f[s] ELSE 0

LEMMA NamedCounters == ASSUME NEW f, Counters(f), NEW name PROVE Counters(NamedIn(f, name))
<1>. DEFINE g == NamedIn(f, name)
<1>1. DOMAIN g \in SUBSET DOMAIN f
  BY DEF NamedIn
<1>2. IsFiniteSet(DOMAIN g)
  BY <1>1, FS_Subset DEF Counters
<1>3. g \in [DOMAIN g -> Nat]
  BY DEF NamedIn, Counters
<1>. QED
  BY <1>2, <1>3 DEF Counters

LEMMA NamedBumped ==
  ASSUME NEW f, Counters(f), NEW s, NEW name
  PROVE  /\ Sent(f, name) \in Int
         /\ Sent(Bumped(f, s), name) = Sent(f, name) + (IF s[1] = name THEN 1 ELSE 0)
<1>. DEFINE g == NamedIn(f, name)
            h == NamedIn(Bumped(f, s), name)
<1>1. Counters(g) /\ Total(g) \in Int
  BY NamedCounters, TotalInt
<1>2. /\ DOMAIN Bumped(f, s) = DOMAIN f \cup {s}
      /\ \A x \in DOMAIN f \cup {s} :
           Bumped(f, s)[x] = (IF x \in DOMAIN f THEN f[x] ELSE 0) + (IF x = s THEN 1 ELSE 0)
  BY DEF Bumped
<1>3. CASE s[1] = name
  <2>1. h = Bumped(g, s)
    BY <1>3 DEF Bumped, NamedIn
  <2>. QED
    BY <1>1, <1>3, <2>1, BumpedTotal DEF Sent
<1>4. CASE s[1] # name
  <2>1. DOMAIN h = DOMAIN g /\ \A x \in DOMAIN g : h[x] = g[x]
    BY <1>2, <1>4 DEF NamedIn, Counters
  <2>2. h = g
    BY <2>1 DEF NamedIn
  <2>. QED
    BY <1>1, <1>4, <2>2 DEF Sent
<1>. QED
  BY <1>3, <1>4

LEMMA SeenBumped ==
  ASSUME NEW f, Counters(f), NEW s, NEW x
  PROVE  /\ Seen(f, x) \in Nat
         /\ Seen(Bumped(f, s), x) = Seen(f, x) + (IF x = s THEN 1 ELSE 0)
BY DEF Seen, Bumped, Counters

RegisterTypes ==
  /\ Counters(series)
  /\ buckets \in [Hists -> [Bucket -> Nat]]
  /\ count \in [Hists -> Nat]

LEMMA RegistersStep == ASSUME TaskTypes, RegisterTypes, [Next]_vars PROVE RegisterTypes'
<1>1. ASSUME UNCHANGED <<series, buckets, count>> PROVE RegisterTypes'
  BY <1>1 DEF RegisterTypes
<1>2. ASSUME NEW t \in Threads, BumpSeries(t) PROVE RegisterTypes'
  <2>1. UNCHANGED <<buckets, count>> /\ series' = Bumped(series, Head(todo[t]))
    BY <1>2 DEF BumpSeries
  <2>. QED
    BY <2>1, BumpedTotal DEF RegisterTypes
<1>3. ASSUME NEW t \in Threads, BumpBucket(t) PROVE RegisterTypes'
  <2>1. job[t].hist \in Hists /\ UNCHANGED <<series, count>>
    BY <1>3, HistOf DEF BumpBucket, Goto, TaskTypes
  <2>2. PICK S : buckets' = [buckets EXCEPT ![job[t].hist] =
                               [i \in Bucket |-> IF i \in S THEN @[i] + 1 ELSE @[i]]]
    BY <1>3 DEF BumpBucket
  <2>. QED
    BY <2>1, <2>2 DEF RegisterTypes
<1>4. ASSUME NEW t \in Threads, BumpCount(t) PROVE RegisterTypes'
  <2>1. job[t].hist \in Hists /\ UNCHANGED <<series, buckets>>
    BY <1>4, HistOf DEF BumpCount, Goto, TaskTypes
  <2>2. count' = [count EXCEPT ![job[t].hist] = @ + 1]
    BY <1>4 DEF BumpCount
  <2>. QED
    BY <2>1, <2>2 DEF RegisterTypes
<1>. QED
  BY <1>1, <1>2, <1>3, <1>4, CountersWait, ClientsWait DEF Next, vars, registers

LEMMA ThreadSets ==
  ASSUME NEW S \in SUBSET Threads
  PROVE  IsFiniteSet(S) /\ Cardinality(S) \in Nat
BY Finite, FS_Subset, FS_CardinalityType

\* The tasks that have bumped an observation's series of a name and not its count.
Late(p, j, q, name) == p \in {"series", "bucket", "count"} /\ Observation(j) /\ ~Has(q, name)
Behind(name) == {t \in Threads : Late(pc[t], job[t], todo[t], name)}

Level(name) == Sent(series, name) = count["duration"] + Cardinality(Behind(name))
ClassesCounted == Level("requests") /\ Level("by_provider")

LEMMA LevelStep ==
  ASSUME TaskTypes, RegisterTypes, TodoKept, [Next]_vars,
         NEW name \in {"requests", "by_provider"}, Level(name)
  PROVE  Level(name)'
<1>1. Sent(series, name) \in Int /\ count["duration"] \in Nat /\ IsFiniteSet(Behind(name))
      /\ Cardinality(Behind(name)) \in Nat
  BY HistsKnown, NamedBumped, ThreadSets DEF RegisterTypes, Behind
<1>2. ASSUME UNCHANGED <<series, count>>, Behind(name)' = Behind(name) PROVE Level(name)'
  BY <1>2 DEF Level
<1>3. ASSUME NEW t \in Threads, Others(t),
             Late(pc'[t], job'[t], todo'[t], name) <=> Late(pc[t], job[t], todo[t], name)
      PROVE  Behind(name)' = Behind(name)
  BY <1>3 DEF Others, Behind
<1>4. ASSUME NEW t \in Threads, BumpSeries(t) PROVE Level(name)'
  <2>. DEFINE s == Head(todo[t])
  <2>1. Others(t)
    BY <1>4, OthersWait DEF Record
  <2>2. /\ UNCHANGED <<pc, job, count, buckets>> /\ pc[t] = "series"
        /\ todo[t] \in Seq(Listed) /\ todo[t] # <<>>
        /\ series' = Bumped(series, s)
        /\ Observation(job[t]) => /\ todo'[t] = Tail(todo[t])
                                  /\ Queue(todo[t]) /\ s[1] \in ObserveNames
        /\ ~Observation(job[t]) => s[1] \notin ObserveNames
    BY <1>4, BumpEffect
  <2>3. Sent(series', name) = Sent(series, name) + (IF s[1] = name THEN 1 ELSE 0)
    BY <2>2, NamedBumped DEF RegisterTypes
  <2>4. CASE ~Observation(job[t])
    <3>1. s[1] # name
      BY <2>2, <2>4 DEF ObserveNames
    <3>2. Behind(name)' = Behind(name)
      BY <1>3, <2>1, <2>2, <2>4 DEF Late
    <3>. QED
      BY <1>1, <2>2, <2>3, <3>1, <3>2 DEF Level
  <2>5. CASE Observation(job[t]) /\ s[1] # name
    <3>1. Has(Tail(todo[t]), name) <=> Has(todo[t], name)
      BY <2>2, <2>5, QueueTail
    <3>2. Behind(name)' = Behind(name)
      BY <1>3, <2>1, <2>2, <2>5, <3>1 DEF Late
    <3>. QED
      BY <1>1, <2>2, <2>3, <2>5, <3>2 DEF Level
  <2>6. CASE Observation(job[t]) /\ s[1] = name
    <3>1. Has(todo[t], name) /\ ~Has(Tail(todo[t]), name)
      BY <2>2, <2>6, QueueTail
    <3>2. t \notin Behind(name) /\ Behind(name)' = Behind(name) \cup {t}
      BY <2>1, <2>2, <2>6, <3>1 DEF Late, Behind, Others
    <3>3. Cardinality(Behind(name)') = Cardinality(Behind(name)) + 1
      BY <1>1, <3>2, CountMoves
    <3>. QED
      BY <1>1, <2>2, <2>3, <2>6, <3>3 DEF Level
  <2>. QED
    BY <2>4, <2>5, <2>6
<1>5. ASSUME NEW t \in Threads, BumpCount(t) PROVE Level(name)'
  <2>1. /\ pc[t] = "count" /\ pc'[t] = "load" /\ job' = job /\ todo' = todo /\ todo[t] = <<>>
        /\ UNCHANGED series /\ job[t] \in Jobs /\ job[t].kind \in {"observe", "stage"}
        /\ count' = [count EXCEPT ![job[t].hist] = @ + 1]
    BY <1>5 DEF BumpCount, Goto, TaskTypes, Labels
  <2>2. Others(t)
    BY <1>5, OthersWait DEF Record
  <2>3. CASE Observation(job[t])
    <3>1. ~Has(todo[t], name)
      BY <2>1 DEF Has
    <3>2. t \in Behind(name) /\ Behind(name)' = Behind(name) \ {t}
      BY <2>1, <2>2, <2>3, <3>1 DEF Late, Behind, Others
    <3>3. Cardinality(Behind(name)') = Cardinality(Behind(name)) - 1
      BY <1>1, <3>2, CountMoves
    <3>4. count'["duration"] = count["duration"] + 1
      BY <2>1, <2>3, HistOf, HistsKnown DEF Observation, RegisterTypes
    <3>. QED
      BY <1>1, <2>1, <3>3, <3>4 DEF Level
  <2>4. CASE ~Observation(job[t])
    <3>1. Behind(name)' = Behind(name)
      BY <1>3, <2>1, <2>2, <2>4 DEF Late
    <3>2. count'["duration"] = count["duration"]
      BY <2>1, <2>4, HistOf, HistsKnown DEF Observation, RegisterTypes
    <3>. QED
      BY <2>1, <3>1, <3>2 DEF Level
  <2>. QED
    BY <2>3, <2>4
<1>6. ASSUME NEW t \in Threads, Begin(t) PROVE Level(name)'
  <2>1. PICK j \in Jobs :
          /\ job' = [job EXCEPT ![t] = j]
          /\ todo' = [todo EXCEPT ![t] = SeriesOf(j)]
    BY <1>6 DEF Begin
  <2>2. job'[t] = j /\ todo'[t] = SeriesOf(j) /\ pc[t] = "idle"
    BY <1>6, <2>1 DEF Begin, TaskTypes
  <2>3. ~Late(pc[t], job[t], todo[t], name) /\ ~Late(pc'[t], job'[t], todo'[t], name)
    BY <2>2, ObserveShape DEF Late
  <2>. QED
    BY <1>2, <1>3, <1>6, <2>3, OthersWait, CountersWait
<1>7. ASSUME NEW t \in Threads, SeriesDone(t) PROVE Level(name)'
  <2>1. UNCHANGED <<series, count, todo>> /\ pc[t] = "series" /\ Others(t)
    BY <1>7, OthersWait DEF SeriesDone, registers, Goto, Finish, Record
  <2>2. \/ Observation(job[t]) /\ job' = job /\ pc'[t] = "bucket"
        \/ ~Observation(job[t]) /\ ~Observation(job'[t])
    BY <1>7 DEF SeriesDone, Goto, Finish, Observation, NoJob, TaskTypes
  <2>. QED
    BY <1>2, <1>3, <2>1, <2>2 DEF Late
<1>8. ASSUME NEW t \in Threads, BumpBucket(t) PROVE Level(name)'
  <2>1. UNCHANGED <<series, count, todo, job>> /\ pc[t] = "bucket" /\ pc'[t] = "count" /\ Others(t)
    BY <1>8, OthersWait DEF BumpBucket, Goto, Record, TaskTypes
  <2>. QED
    BY <1>2, <1>3, <2>1 DEF Late
<1>9. ASSUME NEW t \in Threads, Record(t), ~BumpSeries(t), ~BumpCount(t), ~SeriesDone(t), ~BumpBucket(t)
      PROVE  Level(name)'
  <2>1. /\ pc[t] \notin {"series", "bucket", "count"} /\ pc'[t] \notin {"series", "bucket", "count"}
        /\ UNCHANGED <<series, count>> /\ Others(t)
    <3>1. pc[t] \notin {"series", "bucket", "count"} /\ pc'[t] \notin {"series", "bucket", "count"}
      BY <1>9 DEF Record, LoadSum, ExchangeSum, GetExit, CheckLen, InsertExit, Goto, Finish, TaskTypes
    <3>. QED
      BY <1>9, <3>1, OthersWait, CountersWait
  <2>. QED
    BY <1>2, <1>3, <2>1 DEF Late
<1>10. ASSUME UNCHANGED <<series, count, tasks>> PROVE Level(name)'
  <2>1. Behind(name)' = Behind(name)
    BY <1>10 DEF Behind, tasks
  <2>. QED
    BY <1>2, <1>10, <2>1
<1>. QED
  BY <1>4, <1>5, <1>6, <1>7, <1>8, <1>9, <1>10, ClientsWait DEF Next, vars, registers

\* Each observation is in the one bucket that fits it first.
LEMMA FirstBucket ==
  ASSUME NEW ms \in Nat, ms <= Clip
  PROVE  \E i \in Bucket : BucketFor(ms) = {i}
<1>. DEFINE S == {i \in Bucket : ms <= Bounds[i]}
<1>1. Len(Bounds) \in Nat \ {0} /\ Bucket = 1..Len(Bounds) /\ \A i \in Bucket : Bounds[i] \in Nat
  BY ClipType DEF Bucket
<1>2. S \in SUBSET Nat /\ S # {}
  <2>1. Len(Bounds) \in S
    BY <1>1 DEF Clip
  <2>. QED
    BY <1>1, <2>1
<1>3. PICK i \in S : \A m \in S : i <= m
  <2>. HIDE DEF S
  <2>. QED
    BY <1>2, Least
<1>4. i \in Bucket /\ ms <= Bounds[i] /\ \A k \in 1..i - 1 : k \in Bucket /\ ms > Bounds[k]
  BY <1>1, <1>3
<1>5. i \in BucketFor(ms)
  BY <1>4 DEF BucketFor
<1>6. ASSUME NEW k \in BucketFor(ms) PROVE k = i
  <2>1. k \in Bucket /\ ms <= Bounds[k] /\ \A m \in 1..k - 1 : ms > Bounds[m]
    BY <1>6 DEF BucketFor
  <2>2. k \in S /\ i <= k
    BY <1>3, <2>1
  <2>3. ~(i < k)
    BY <1>1, <1>4, <2>1
  <2>. QED
    BY <1>1, <1>4, <2>1, <2>2, <2>3
<1>. QED
  BY <1>4, <1>5, <1>6

LEMMA BucketsFinite == IsFiniteSet(Bucket)
<1>1. Len(Bounds) \in Nat
  BY ClipType
<1>. QED
  BY <1>1, FS_Interval DEF Bucket

\* The tasks that have bumped a bucket and not the count.
Between(h) == {t \in Threads : pc[t] = "count" /\ job[t].hist = h}
Filled(h) == Total(buckets[h]) = count[h] + Cardinality(Between(h))
BucketsCounted == \A h \in Hists : Filled(h)

LEMMA FilledStep ==
  ASSUME TaskTypes, RegisterTypes, [Next]_vars, NEW h \in Hists, Filled(h)
  PROVE  Filled(h)'
<1>1. /\ Counters(buckets[h]) /\ DOMAIN buckets[h] = Bucket /\ Total(buckets[h]) \in Int
      /\ count[h] \in Nat
      /\ IsFiniteSet(Between(h)) /\ Cardinality(Between(h)) \in Nat
  <2>1. buckets[h] \in [Bucket -> Nat] /\ count[h] \in Nat
    BY DEF RegisterTypes
  <2>2. Counters(buckets[h])
    BY <2>1, BucketsFinite DEF Counters
  <2>. QED
    BY <2>1, <2>2, TotalInt, ThreadSets DEF Between
<1>2. ASSUME UNCHANGED <<buckets, count>>, Between(h)' = Between(h) PROVE Filled(h)'
  BY <1>2 DEF Filled
<1>3. ASSUME NEW t \in Threads, Others(t), pc[t] # "count", pc'[t] # "count"
      PROVE  Between(h)' = Between(h)
  BY <1>3 DEF Others, Between
<1>4. ASSUME NEW t \in Threads, BumpBucket(t) PROVE Filled(h)'
  <2>. DEFINE ms == Clipped(job[t].ms)
  <2>1. /\ pc[t] = "bucket" /\ pc'[t] = "count" /\ UNCHANGED <<job, count>> /\ Others(t)
        /\ job[t].hist \in Hists /\ job[t].ms \in Nat
    BY <1>4, OthersWait, HistOf DEF BumpBucket, Goto, Record, TaskTypes
  <2>2. buckets' = [buckets EXCEPT ![job[t].hist] =
                      [i \in Bucket |-> IF i \in BucketFor(ms) THEN @[i] + 1 ELSE @[i]]]
    BY <1>4 DEF BumpBucket
  <2>3. PICK i \in Bucket : BucketFor(ms) = {i}
    BY <2>1, ClippedType, FirstBucket
  <2>. HIDE DEF ms
  <2>4. CASE job[t].hist = h
    <3>1. buckets'[h] = [k \in Bucket |-> IF k \in {i} THEN buckets[h][k] + 1 ELSE buckets[h][k]]
      BY <2>1, <2>2, <2>3, <2>4 DEF RegisterTypes
    <3>2. buckets[h] \in [Bucket -> Nat]
      BY DEF RegisterTypes
    <3>3. buckets'[h] = Bumped(buckets[h], i)
      BY <2>3, <3>1, <3>2 DEF Bumped
    <3>4. Total(buckets'[h]) = Total(buckets[h]) + 1
      BY <1>1, <3>3, BumpedTotal
    <3>5. t \notin Between(h) /\ Between(h)' = Between(h) \cup {t}
      BY <2>1, <2>4 DEF Between, Others
    <3>6. Cardinality(Between(h)') = Cardinality(Between(h)) + 1
      BY <1>1, <3>5, CountMoves
    <3>. QED
      BY <1>1, <2>1, <3>4, <3>6 DEF Filled
  <2>5. CASE job[t].hist # h
    <3>1. buckets'[h] = buckets[h]
      BY <2>2, <2>5 DEF RegisterTypes
    <3>2. Between(h)' = Between(h)
      BY <2>1, <2>5 DEF Between, Others
    <3>. QED
      BY <2>1, <3>1, <3>2 DEF Filled
  <2>. QED
    BY <2>4, <2>5
<1>5. ASSUME NEW t \in Threads, BumpCount(t) PROVE Filled(h)'
  <2>1. /\ pc[t] = "count" /\ pc'[t] = "load" /\ UNCHANGED <<job, buckets>> /\ Others(t)
        /\ job[t].hist \in Hists
        /\ count' = [count EXCEPT ![job[t].hist] = @ + 1]
    BY <1>5, OthersWait, HistOf DEF BumpCount, Goto, Record, TaskTypes
  <2>2. CASE job[t].hist = h
    <3>1. t \in Between(h) /\ Between(h)' = Between(h) \ {t}
      BY <2>1, <2>2 DEF Between, Others
    <3>2. Cardinality(Between(h)') = Cardinality(Between(h)) - 1
      BY <1>1, <3>1, CountMoves
    <3>3. count'[h] = count[h] + 1
      BY <2>1, <2>2 DEF RegisterTypes
    <3>. QED
      BY <1>1, <2>1, <3>2, <3>3 DEF Filled
  <2>3. CASE job[t].hist # h
    <3>1. count'[h] = count[h]
      BY <2>1, <2>3 DEF RegisterTypes
    <3>2. Between(h)' = Between(h)
      BY <2>1, <2>3 DEF Between, Others
    <3>. QED
      BY <2>1, <3>1, <3>2 DEF Filled
  <2>. QED
    BY <2>2, <2>3
<1>6. ASSUME NEW t \in Threads, Begin(t) \/ (Record(t) /\ ~BumpBucket(t) /\ ~BumpCount(t))
      PROVE  Filled(h)'
  <2>1. pc[t] # "count" /\ pc'[t] # "count"
    <3>1. CASE Begin(t)
      BY <3>1 DEF Begin, TaskTypes
    <3>2. CASE BumpSeries(t)
      BY <3>2 DEF BumpSeries
    <3>3. CASE Record(t) /\ ~BumpSeries(t) /\ ~BumpBucket(t) /\ ~BumpCount(t)
      BY <3>3 DEF Record, SeriesDone, LoadSum, ExchangeSum, GetExit, CheckLen, InsertExit, Goto, Finish,
                  TaskTypes
    <3>. QED
      BY <1>6, <3>1, <3>2, <3>3
  <2>2. UNCHANGED <<buckets, count>>
    BY <1>6, CountersWait DEF BumpSeries
  <2>. QED
    BY <1>2, <1>3, <1>6, <2>1, <2>2, OthersWait
<1>7. ASSUME UNCHANGED <<buckets, count, tasks>> PROVE Filled(h)'
  <2>1. Between(h)' = Between(h)
    BY <1>7 DEF Between, tasks
  <2>. QED
    BY <1>2, <1>7, <2>1
<1>. QED
  BY <1>4, <1>5, <1>6, <1>7, ClientsWait DEF Next, vars, registers

\* The tasks that are to bump a counter of its own and have bumped the class.
OwesOne(j, q) == Observation(j) /\ (Has(q, "own") \/ Has(q, "forbidden")) /\ ~Has(q, "requests")
Owing == {t \in Threads : OwesOne(job[t], todo[t])}
OwnCounted ==
  Sent(series, "own") + Sent(series, "forbidden") + Cardinality(Owing) <= Sent(series, "requests")

LEMMA OwnStep ==
  ASSUME TaskTypes, RegisterTypes, TodoKept, OwnCounted, [Next]_vars
  PROVE  OwnCounted'
<1>1. /\ Sent(series, "own") \in Int /\ Sent(series, "forbidden") \in Int
      /\ Sent(series, "requests") \in Int
      /\ IsFiniteSet(Owing) /\ Cardinality(Owing) \in Nat
  BY NamedBumped, ThreadSets DEF RegisterTypes, Owing
<1>2. ASSUME UNCHANGED series, Owing' = Owing PROVE OwnCounted'
  BY <1>2 DEF OwnCounted
<1>3. ASSUME NEW t \in Threads, Others(t), OwesOne(job'[t], todo'[t]) <=> OwesOne(job[t], todo[t])
      PROVE  Owing' = Owing
  BY <1>3 DEF Others, Owing
<1>4. ASSUME NEW t \in Threads, BumpSeries(t) PROVE OwnCounted'
  <2>. DEFINE s == Head(todo[t])
  <2>1. Others(t)
    BY <1>4, OthersWait DEF Record
  <2>2. /\ UNCHANGED <<pc, job>>
        /\ todo[t] \in Seq(Listed) /\ todo[t] # <<>>
        /\ series' = Bumped(series, s)
        /\ Observation(job[t]) => /\ todo'[t] = Tail(todo[t])
                                  /\ Queue(todo[t]) /\ s[1] \in ObserveNames
        /\ ~Observation(job[t]) => s[1] \notin ObserveNames
    BY <1>4, BumpEffect
  <2>3. /\ Sent(series', "own") = Sent(series, "own") + (IF s[1] = "own" THEN 1 ELSE 0)
        /\ Sent(series', "forbidden") = Sent(series, "forbidden") + (IF s[1] = "forbidden" THEN 1 ELSE 0)
        /\ Sent(series', "requests") = Sent(series, "requests") + (IF s[1] = "requests" THEN 1 ELSE 0)
    BY <2>2, NamedBumped DEF RegisterTypes
  <2>4. CASE ~Observation(job[t])
    <3>1. s[1] \notin {"own", "forbidden", "requests"}
      BY <2>2, <2>4 DEF ObserveNames
    <3>2. Owing' = Owing
      BY <1>3, <2>1, <2>2, <2>4 DEF OwesOne
    <3>. QED
      BY <1>1, <2>3, <3>1, <3>2 DEF OwnCounted
  <2>. DEFINE q == todo[t]
  <2>5. ASSUME Observation(job[t])
        PROVE  /\ todo'[t] = Tail(q) /\ job' = job /\ Queue(q)
               /\ Has(q, s[1]) /\ ~Has(Tail(q), s[1])
               /\ \A name : name # s[1] => (Has(Tail(q), name) <=> Has(q, name))
               /\ (s[1] # "requests" => ~Has(q, "requests"))
    <3>1. todo'[t] = Tail(q) /\ Queue(q) /\ job' = job
      BY <2>2, <2>5
    <3>. QED
      BY <2>2, <3>1, QueueTail
  <2>6. CASE Observation(job[t]) /\ s[1] = "requests"
    <3>1. \A u \in Threads : u \in Owing' => u \in Owing \cup {t}
      BY <2>1 DEF Owing, Others
    <3>2. Owing' \in SUBSET (Owing \cup {t})
      BY <3>1 DEF Owing
    <3>3. t \notin Owing
      BY <2>5, <2>6 DEF Owing, OwesOne
    <3>4. IsFiniteSet(Owing \cup {t}) /\ Cardinality(Owing \cup {t}) = Cardinality(Owing) + 1
      BY <1>1, <3>3, CountMoves
    <3>5. Cardinality(Owing') <= Cardinality(Owing) + 1 /\ Cardinality(Owing') \in Nat
      BY <3>2, <3>4, FS_Subset, FS_CardinalityType
    <3>. HIDE DEF s
    <3>. QED
      BY <1>1, <2>3, <2>6, <3>5 DEF OwnCounted
  <2>7. CASE Observation(job[t]) /\ s[1] \in {"own", "forbidden"}
    <3>1. t \in Owing
      BY <2>5, <2>7 DEF Owing, OwesOne
    <3>2. ~Has(Tail(q), "own") /\ ~Has(Tail(q), "forbidden")
      <4>1. CASE s[1] = "own"
        BY <2>5, <2>7, <4>1 DEF Queue
      <4>2. CASE s[1] = "forbidden"
        BY <2>5, <2>7, <4>2 DEF Queue
      <4>. QED
        BY <2>7, <4>1, <4>2
    <3>3. Owing' = Owing \ {t}
      BY <2>1, <2>5, <2>7, <3>2 DEF Owing, OwesOne, Others
    <3>4. Cardinality(Owing') = Cardinality(Owing) - 1
      BY <1>1, <3>1, <3>3, CountMoves
    <3>5. /\ Sent(series', "own") + Sent(series', "forbidden")
               = Sent(series, "own") + Sent(series, "forbidden") + 1
          /\ Sent(series', "requests") = Sent(series, "requests")
      BY <1>1, <2>3, <2>7
    <3>. HIDE DEF s, q
    <3>. QED
      BY <1>1, <2>3, <3>4, <3>5 DEF OwnCounted
  <2>8. CASE Observation(job[t]) /\ s[1] \notin {"own", "forbidden", "requests"}
    <3>1. Owing' = Owing
      BY <1>3, <2>1, <2>5, <2>8 DEF OwesOne
    <3>. QED
      BY <1>1, <2>3, <2>8, <3>1 DEF OwnCounted
  <2>. QED
    BY <2>4, <2>6, <2>7, <2>8
<1>5. ASSUME NEW t \in Threads, Begin(t) PROVE OwnCounted'
  <2>1. PICK j \in Jobs :
          /\ job' = [job EXCEPT ![t] = j]
          /\ todo' = [todo EXCEPT ![t] = SeriesOf(j)]
    BY <1>5 DEF Begin
  <2>2. job'[t] = j /\ todo'[t] = SeriesOf(j) /\ todo[t] = <<>>
    BY <1>5, <2>1 DEF Begin, TaskTypes
  <2>3. ~OwesOne(job[t], <<>>)
    BY DEF OwesOne, Has
  <2>4. ~OwesOne(job'[t], todo'[t])
    BY <2>2, ObserveShape DEF OwesOne
  <2>. QED
    BY <1>2, <1>3, <1>5, <2>2, <2>3, <2>4, OthersWait, CountersWait
<1>6. ASSUME NEW t \in Threads, Record(t), ~BumpSeries(t) PROVE OwnCounted'
  <2>1. UNCHANGED <<series, todo>> /\ todo[t] = <<>> /\ Others(t)
    <3>1. UNCHANGED <<series, todo>> /\ todo[t] = <<>>
      BY <1>6 DEF Record, SeriesDone, BumpBucket, BumpCount, LoadSum, ExchangeSum, GetExit, CheckLen,
                  InsertExit, Goto, Finish, TaskTypes, registers
    <3>. QED
      BY <1>6, <3>1, OthersWait
  <2>2. ~OwesOne(job[t], <<>>) /\ ~OwesOne(job'[t], <<>>)
    BY DEF OwesOne, Has
  <2>. QED
    BY <1>2, <1>3, <2>1, <2>2
<1>7. ASSUME UNCHANGED <<series, tasks>> PROVE OwnCounted'
  <2>1. Owing' = Owing
    BY <1>7 DEF Owing, tasks
  <2>. QED
    BY <1>2, <1>7, <2>1
<1>. QED
  BY <1>4, <1>5, <1>6, <1>7, ClientsWait DEF Next, vars, registers

LEMMA Division ==
  ASSUME NEW k \in Nat \ {0}, NEW v \in Nat
  PROVE  \E q \in Nat, r \in 0..k - 1 : v = k * q + r
<1>. DEFINE S == {r \in Nat : \E q \in Nat : v = k * q + r}
<1>1. v \in S
  <2>1. v = k * 0 + v
    OBVIOUS
  <2>. QED
    BY <2>1
<1>2. PICK r \in S : \A m \in S : r <= m
  <2>1. S \in SUBSET Nat /\ S # {}
    BY <1>1
  <2>. HIDE DEF S
  <2>. QED
    BY <2>1, Least
<1>3. PICK q \in Nat : v = k * q + r
  BY <1>2
<1>4. ASSUME r >= k PROVE FALSE
  <2>1. v = k * (q + 1) + (r - k) /\ q + 1 \in Nat /\ r - k \in Nat
    BY <1>2, <1>3, <1>4
  <2>2. r - k \in S
    BY <2>1
  <2>. QED
    BY <1>2, <2>2
<1>. QED
  BY <1>2, <1>3, <1>4

LEMMA Divided ==
  ASSUME NEW k \in Nat \ {0}, NEW q \in Nat, NEW r \in 0..k - 1, NEW v \in Nat, v = k * q + r
  PROVE  v \div k = q /\ v % k = r
OBVIOUS

\* How many of v log lines are sampled out.
SampledOf(v) == v - (v + SampleEvery - 1) \div SampleEvery

LEMMA SampledNext ==
  ASSUME NEW v \in Nat
  PROVE  /\ SampledOf(v) \in Int
         /\ SampledOf(v + 1) = SampledOf(v) + (IF v % SampleEvery # 0 THEN 1 ELSE 0)
<1>1. SampleEvery \in Nat \ {0}
  BY Limits
<1>2. PICK q \in Nat, r \in 0..SampleEvery - 1 : v = SampleEvery * q + r
  BY <1>1, Division
<1>3. v % SampleEvery = r
  BY <1>1, <1>2, Divided
<1>4. q + 1 \in Nat
  OBVIOUS
<1>5. CASE r = 0
  <2>1. /\ v + SampleEvery - 1 = SampleEvery * q + (SampleEvery - 1)
        /\ v + SampleEvery - 1 \in Nat /\ SampleEvery - 1 \in 0..SampleEvery - 1
    BY <1>1, <1>2, <1>5
  <2>2. (v + SampleEvery - 1) \div SampleEvery = q
    BY <1>1, <2>1, Divided
  <2>3. /\ (v + 1) + SampleEvery - 1 = SampleEvery * (q + 1) + 0
        /\ (v + 1) + SampleEvery - 1 \in Nat /\ 0 \in 0..SampleEvery - 1
    BY <1>1, <1>2, <1>5
  <2>4. ((v + 1) + SampleEvery - 1) \div SampleEvery = q + 1
    BY <1>1, <1>4, <2>3, Divided
  <2>. QED
    BY <1>3, <1>5, <2>2, <2>4 DEF SampledOf
<1>6. CASE r # 0
  <2>1. /\ v + SampleEvery - 1 = SampleEvery * (q + 1) + (r - 1)
        /\ v + SampleEvery - 1 \in Nat /\ r - 1 \in 0..SampleEvery - 1
    BY <1>1, <1>2, <1>6
  <2>2. (v + SampleEvery - 1) \div SampleEvery = q + 1
    BY <1>1, <1>4, <2>1, Divided
  <2>3. /\ (v + 1) + SampleEvery - 1 = SampleEvery * (q + 1) + r
        /\ (v + 1) + SampleEvery - 1 \in Nat
    BY <1>1, <1>2, <1>6
  <2>4. ((v + 1) + SampleEvery - 1) \div SampleEvery = q + 1
    BY <1>1, <1>4, <2>3, Divided
  <2>. QED
    BY <1>3, <1>6, <2>2, <2>4 DEF SampledOf
<1>. QED
  BY <1>5, <1>6

\* The tasks that have counted a line to be sampled out and not that it was.
Logging == {t \in Threads : todo[t] = <<LogSampled>>}
LogsCounted ==
  Seen(series, LogSampled) + Cardinality(Logging) = SampledOf(Seen(series, LogLine))

LEMMA LogsStep ==
  ASSUME TaskTypes, RegisterTypes, TodoKept, LogsCounted, [Next]_vars
  PROVE  LogsCounted'
<1>1. /\ Seen(series, LogSampled) \in Nat /\ Seen(series, LogLine) \in Nat
      /\ IsFiniteSet(Logging) /\ Cardinality(Logging) \in Nat
      /\ LogLine # LogSampled /\ LogLine[1] = "logs" /\ LogSampled[1] = "logs"
  <2>1. LogLine # LogSampled /\ LogLine[1] = "logs" /\ LogSampled[1] = "logs"
    BY DEF LogLine, LogSampled
  <2>. HIDE DEF LogLine, LogSampled
  <2>. QED
    BY <2>1, SeenBumped, ThreadSets DEF RegisterTypes, Logging
<1>. DEFINE One == <<LogSampled>>
<1>2. One # <<>>
  OBVIOUS
<1>3. ASSUME UNCHANGED series, Logging' = Logging PROVE LogsCounted'
  BY <1>3 DEF LogsCounted
<1>4. ASSUME NEW t \in Threads, Others(t), todo'[t] = One <=> todo[t] = One
      PROVE  Logging' = Logging
  BY <1>4 DEF Others, Logging
<1>5. ASSUME NEW t \in Threads, BumpSeries(t) PROVE LogsCounted'
  <2>. DEFINE s == Head(todo[t])
              k == IF s = LogLine /\ Seen(series, LogLine) % SampleEvery # 0 THEN One ELSE Tail(todo[t])
  <2>1. Others(t)
    BY <1>5, OthersWait DEF Record
  <2>2. /\ todo[t] # <<>> /\ series' = Bumped(series, s) /\ todo'[t] = k
        /\ Kept(job[t], todo[t])
    BY <1>5 DEF BumpSeries, TaskTypes, TodoKept, SampledOut, Value, Seen
  <2>3. s = todo[t][1] /\ 1 \in DOMAIN todo[t] /\ todo[t] \in Seq(Listed)
    <3>1. todo[t] \in Seq(Listed)
      BY <2>2 DEF Kept
    <3>. QED
      BY <2>2, <3>1, TailOf
  <2>4. /\ Seen(series', LogSampled) = Seen(series, LogSampled) + (IF LogSampled = s THEN 1 ELSE 0)
        /\ Seen(series', LogLine) = Seen(series, LogLine) + (IF LogLine = s THEN 1 ELSE 0)
    BY <2>2, SeenBumped DEF RegisterTypes
  <2>5. CASE s[1] # "logs"
    <3>1. todo[t] # One /\ s # LogLine /\ s # LogSampled
      BY <1>1, <2>3, <2>5
    <3>2. todo'[t] = Tail(todo[t])
      BY <2>2, <3>1
    <3>3. todo'[t] # One
      <4>1. ASSUME Tail(todo[t]) = One PROVE FALSE
        <5>1. Has(todo[t], "logs")
          <6>1. Tail(todo[t])[1][1] = "logs" /\ 1 \in DOMAIN Tail(todo[t])
            <7>1. One[1] = LogSampled /\ 1 \in DOMAIN One
              OBVIOUS
            <7>. HIDE DEF One, LogSampled
            <7>. QED
              BY <1>1, <4>1, <7>1
          <6>2. 2 \in DOMAIN todo[t] /\ todo[t][2][1] = "logs"
            BY <2>2, <2>3, <6>1, TailOf
          <6>. QED
            BY <6>2 DEF Has
        <5>2. job[t].kind = "log"
          BY <2>2, <5>1 DEF Kept, Has
        <5>3. todo[t] = <<LogLine>> \/ todo[t] = <<LogSampled>>
          BY <2>2, <5>2 DEF Kept
        <5>. QED
          BY <1>1, <2>3, <2>5, <5>3
      <4>. QED
        BY <3>2, <4>1
    <3>4. Logging' = Logging
      BY <1>4, <2>1, <3>1, <3>3
    <3>. QED
      BY <1>1, <2>4, <3>1, <3>4 DEF LogsCounted
  <2>6. CASE s[1] = "logs"
    <3>1. job[t].kind = "log"
      BY <2>2, <2>3, <2>6 DEF Kept
    <3>2. todo[t] = <<LogLine>> \/ todo[t] = One
      BY <2>2, <3>1 DEF Kept
    <3>3. Tail(todo[t]) = <<>>
      <4>1. Len(todo[t]) = 1
        BY <3>2
      <4>2. Tail(todo[t]) \in Seq(Listed) /\ Len(Tail(todo[t])) = 0
        BY <2>2, <2>3, <4>1
      <4>. QED
        BY <4>2, EmptySeq
    <3>4. CASE todo[t] = One
      <4>1. s = LogSampled /\ t \in Logging
        BY <2>3, <3>4 DEF Logging
      <4>2. Logging' = Logging \ {t}
        BY <1>1, <1>2, <2>1, <2>2, <3>3, <4>1 DEF Logging, Others
      <4>3. Cardinality(Logging') = Cardinality(Logging) - 1
        BY <1>1, <4>1, <4>2, CountMoves
      <4>. HIDE DEF LogLine, LogSampled, s
      <4>. QED
        BY <1>1, <2>4, <4>1, <4>3 DEF LogsCounted
    <3>5. CASE todo[t] = <<LogLine>>
      <4>1. s = LogLine /\ todo[t][1] # One[1]
        BY <1>1, <2>3, <3>5
      <4>2. t \notin Logging
        BY <4>1 DEF Logging
      <4>3. /\ SampledOf(Seen(series, LogLine)) \in Int
            /\ SampledOf(Seen(series, LogLine) + 1) =
                 SampledOf(Seen(series, LogLine)) + (IF Seen(series, LogLine) % SampleEvery # 0 THEN 1 ELSE 0)
        BY <1>1, SampledNext
      <4>4. CASE Seen(series, LogLine) % SampleEvery # 0
        <5>1. Logging' = Logging \cup {t}
          BY <2>1, <2>2, <4>1, <4>4 DEF Logging, Others
        <5>2. Cardinality(Logging') = Cardinality(Logging) + 1
          BY <1>1, <4>2, <5>1, CountMoves
        <5>. HIDE DEF LogLine, LogSampled, s
        <5>. QED
          BY <1>1, <2>4, <4>1, <4>3, <4>4, <5>2 DEF LogsCounted
      <4>5. CASE Seen(series, LogLine) % SampleEvery = 0
        <5>1. Logging' = Logging
          BY <1>2, <2>1, <2>2, <3>3, <4>1, <4>2, <4>5 DEF Logging, Others
        <5>. HIDE DEF LogLine, LogSampled, s
        <5>. QED
          BY <1>1, <2>4, <4>1, <4>3, <4>5, <5>1 DEF LogsCounted
      <4>. QED
        BY <4>4, <4>5
    <3>. QED
      BY <3>2, <3>4, <3>5
  <2>. QED
    BY <2>5, <2>6
<1>6. ASSUME NEW t \in Threads, Begin(t) PROVE LogsCounted'
  <2>1. PICK j \in Jobs : job' = [job EXCEPT ![t] = j] /\ todo' = [todo EXCEPT ![t] = SeriesOf(j)]
    BY <1>6 DEF Begin
  <2>2. todo'[t] = SeriesOf(j) /\ todo[t] = <<>>
    BY <1>6, <2>1 DEF Begin, TaskTypes
  <2>3. SeriesOf(j) # One
    <3>1. ASSUME SeriesOf(j) = One PROVE FALSE
      <4>1. 1 \in DOMAIN SeriesOf(j) /\ SeriesOf(j)[1] = LogSampled
        BY <3>1
      <4>2. CASE Observation(j)
        BY <1>1, <4>1, <4>2, ObserveShape DEF Queue, ObserveNames
      <4>3. CASE ~Observation(j) /\ j.kind = "log"
        <5>1. SeriesOf(j) = <<>> \/ SeriesOf(j) = <<LogLine>>
          BY <4>3, OtherShape
        <5>. QED
          BY <1>1, <4>1, <5>1
      <4>4. CASE ~Observation(j) /\ j.kind # "log"
        BY <1>1, <4>1, <4>4, OtherShape
      <4>. QED
        BY <4>2, <4>3, <4>4
    <3>. QED
      BY <3>1
  <2>. HIDE DEF One
  <2>. QED
    BY <1>2, <1>3, <1>4, <1>6, <2>2, <2>3, OthersWait, CountersWait
<1>7. ASSUME NEW t \in Threads, Record(t), ~BumpSeries(t) PROVE LogsCounted'
  <2>1. UNCHANGED <<series, todo>>
    BY <1>7 DEF Record, SeriesDone, BumpBucket, BumpCount, LoadSum, ExchangeSum, GetExit, CheckLen,
                InsertExit, registers
  <2>2. Logging' = Logging
    BY <2>1 DEF Logging
  <2>. QED
    BY <1>3, <2>1, <2>2
<1>8. ASSUME UNCHANGED <<series, tasks>> PROVE LogsCounted'
  <2>1. Logging' = Logging
    BY <1>8 DEF Logging, tasks
  <2>. QED
    BY <1>3, <1>8, <2>1
<1>. QED
  BY <1>5, <1>6, <1>7, <1>8, ClientsWait DEF Next, vars, registers

CountsInv ==
  /\ TaskTypes /\ SumTypes /\ SumsExact /\ RegisterTypes /\ TodoKept
  /\ ClassesCounted /\ BucketsCounted /\ OwnCounted /\ LogsCounted

LEMMA InitCounts == Init => CountsInv
<1>. SUFFICES ASSUME Init PROVE CountsInv
  OBVIOUS
<1>1. TaskTypes /\ SumTypes /\ SumsExact
  BY InitExits
<1>2. DOMAIN series = {} /\ series \in [DOMAIN series -> Nat]
  BY DEF Init, NoSeries
<1>3. RegisterTypes
  BY <1>2, FS_EmptySet DEF Init, RegisterTypes, Counters
<1>4. TodoKept
  BY NothingKept DEF Init, TodoKept
<1>5. \A name : Sent(series, name) = 0
  <2>1. \A name : DOMAIN NamedIn(series, name) = {}
    BY <1>2 DEF NamedIn
  <2>. QED
    BY <2>1, EmptyTotal DEF Sent
<1>6. Cardinality({}) = 0
  BY FS_EmptySet
<1>7. ClassesCounted
  <2>1. \A name : Behind(name) = {}
    BY DEF Behind, Late, Init
  <2>2. count["duration"] = 0
    BY HistsKnown DEF Init
  <2>. QED
    BY <1>5, <1>6, <2>1, <2>2 DEF ClassesCounted, Level
<1>8. BucketsCounted
  <2>1. ASSUME NEW h \in Hists PROVE Filled(h)
    <3>1. buckets[h] = [i \in Bucket |-> 0] /\ count[h] = 0
      BY DEF Init
    <3>2. Between(h) = {}
      BY DEF Init, Between
    <3>3. Total([i \in Bucket |-> 0]) = 0
      BY BucketsFinite, EmptySum
    <3>. QED
      BY <1>6, <3>1, <3>2, <3>3 DEF Filled
  <2>. QED
    BY <2>1 DEF BucketsCounted
<1>9. OwnCounted
  <2>1. Owing = {}
    BY DEF Owing, OwesOne, Observation, Init, NoJob
  <2>. QED
    BY <1>5, <1>6, <2>1 DEF OwnCounted
<1>10. LogsCounted
  <2>1. Logging = {}
    BY DEF Logging, Init
  <2>2. Seen(series, LogSampled) = 0 /\ Seen(series, LogLine) = 0
    BY <1>2 DEF Seen
  <2>3. SampleEvery \in Nat \ {0} /\ SampledOf(0) = 0
    <3>1. SampleEvery \in Nat \ {0}
      BY Limits
    <3>2. SampleEvery - 1 \in 0..SampleEvery - 1 /\ 0 + SampleEvery - 1 = SampleEvery * 0 + (SampleEvery - 1)
          /\ 0 + SampleEvery - 1 \in Nat
      BY <3>1
    <3>3. (0 + SampleEvery - 1) \div SampleEvery = 0
      BY <3>1, <3>2, Divided
    <3>. QED
      BY <3>1, <3>3 DEF SampledOf
  <2>. QED
    BY <1>6, <2>1, <2>2, <2>3 DEF LogsCounted
<1>. QED
  BY <1>1, <1>3, <1>4, <1>7, <1>8, <1>9, <1>10 DEF CountsInv

LEMMA CountsStep == CountsInv /\ [Next]_vars => CountsInv'
<1>. SUFFICES ASSUME CountsInv, [Next]_vars PROVE CountsInv'
  OBVIOUS
<1>1. /\ TaskTypes /\ SumTypes /\ SumsExact /\ RegisterTypes /\ TodoKept
      /\ ClassesCounted /\ BucketsCounted /\ OwnCounted /\ LogsCounted
  BY DEF CountsInv
<1>2. TaskTypes' /\ SumTypes' /\ SumsExact' /\ RegisterTypes' /\ TodoKept'
  BY <1>1, TasksStep, SumsStep, RegistersStep, TodoStep
<1>3. ClassesCounted'
  BY <1>1, LevelStep DEF ClassesCounted
<1>4. BucketsCounted'
  BY <1>1, FilledStep DEF BucketsCounted
<1>5. OwnCounted' /\ LogsCounted'
  BY <1>1, OwnStep, LogsStep
<1>. QED
  BY <1>2, <1>3, <1>4, <1>5 DEF CountsInv

\* At rest nobody is between two counters, and all totals agree.
LEMMA CountsAgree == CountsInv => CountsExact
<1>. SUFFICES ASSUME CountsInv PROVE CountsExact
  OBVIOUS
<1>1. /\ TaskTypes /\ SumTypes /\ SumsExact /\ RegisterTypes /\ TodoKept
      /\ ClassesCounted /\ BucketsCounted /\ OwnCounted /\ LogsCounted
  BY DEF CountsInv
<1>2. \A name : Named(name) = NamedIn(series, name)
  BY DEF Named, NamedIn
<1>3. \A s : Value(s) = Seen(series, s)
  BY DEF Value, Seen
<1>4. ASSUME AtRest
      PROVE  /\ Total(Named("requests")) = count["duration"]
             /\ Total(Named("by_provider")) = count["duration"]
             /\ \A h \in Hists : Total(buckets[h]) = count[h]
             /\ Total(Named("own")) + Total(Named("forbidden")) <= Total(Named("requests"))
             /\ Value(LogSampled) = Value(LogLine) - (Value(LogLine) + SampleEvery - 1) \div SampleEvery
  <2>1. \A t \in Threads : pc[t] = "idle" /\ todo[t] = <<>>
    BY <1>1, <1>4 DEF AtRest, TaskTypes
  <2>2. Cardinality({}) = 0
    BY FS_EmptySet
  <2>3. (\A name : Behind(name) = {}) /\ (\A h : Between(h) = {})
    BY <2>1 DEF Behind, Late, Between
  <2>4. Owing = {} /\ Logging = {}
    BY <2>1 DEF Owing, OwesOne, Has, Logging
  <2>5. count["duration"] \in Nat /\ \A h \in Hists : count[h] \in Nat
    BY <1>1, HistsKnown DEF RegisterTypes
  <2>6. /\ Sent(series, "requests") = count["duration"]
        /\ Sent(series, "by_provider") = count["duration"]
    BY <1>1, <2>2, <2>3, <2>5 DEF ClassesCounted, Level
  <2>7. \A h \in Hists : Total(buckets[h]) = count[h]
    BY <1>1, <2>2, <2>3, <2>5 DEF BucketsCounted, Filled
  <2>8. Sent(series, "own") + Sent(series, "forbidden") <= Sent(series, "requests")
    <3>1. Sent(series, "own") \in Int /\ Sent(series, "forbidden") \in Int
      BY <1>1, NamedBumped DEF RegisterTypes
    <3>. QED
      BY <1>1, <2>2, <2>4, <3>1 DEF OwnCounted
  <2>9. Seen(series, LogSampled) = SampledOf(Seen(series, LogLine))
    <3>1. Seen(series, LogSampled) \in Nat
      BY <1>1, SeenBumped DEF RegisterTypes
    <3>. HIDE DEF LogSampled, LogLine
    <3>. QED
      BY <1>1, <2>2, <2>4, <3>1 DEF LogsCounted
  <2>. QED
    BY <1>2, <1>3, <2>6, <2>7, <2>8, <2>9 DEF Sent, SampledOf
<1>. QED
  BY <1>1, <1>4 DEF CountsExact, SumsExact

\* observe, note_full_log and the histograms bump several counters each, without a
\* lock: however the additions race, when nothing is being recorded all totals
\* agree, and a histogram's sum is what it was given, up to the largest integer.
THEOREM TotalsAgree == Spec => []CountsExact
BY InitCounts, CountsStep, CountsAgree, PTL DEF Spec

-----------------------------------------------------------------------------
\* The order of a page

LEMMA Listing ==
  ASSUME NEW S, IsFiniteSet(S)
  PROVE  /\ SetToSeq(S) \in [1..Cardinality(S) -> S] /\ Cardinality(S) \in Nat
         /\ \A x \in S : \E i \in 1..Cardinality(S) : SetToSeq(S)[i] = x
         /\ \A i, k \in 1..Cardinality(S) : SetToSeq(S)[i] = SetToSeq(S)[k] => i = k
<1>1. PICK f \in [1..Cardinality(S) -> S] : IsInjective(f)
  BY FS_CardinalityType DEF ExistsBijection, Bijection, Injection, IsInjective
<1>2. SetToSeq(S) \in [1..Cardinality(S) -> S] /\ IsInjective(SetToSeq(S))
  BY <1>1 DEF SetToSeq
<1>3. Cardinality(S) \in Nat
  BY FS_CardinalityType
<1>4. Cardinality(1..Cardinality(S)) = Cardinality(S)
  BY <1>3, FS_Interval
<1>5. SetToSeq(S) \in Injection(1..Cardinality(S), S)
  BY <1>2 DEF Injection, IsInjective
<1>6. SetToSeq(S) \in Surjection(1..Cardinality(S), S)
  BY <1>4, <1>5, FS_Injection
<1>. QED
  BY <1>2, <1>3, <1>6 DEF Surjection, IsInjective

\* The recursive function that FlattenSeq evaluates.
IsFlatten(rows, n, f) == f = [i \in 1..n |-> IF i = 1 THEN rows[i] ELSE f[i - 1] \o rows[i]]
Flatten(rows) == CHOOSE f : IsFlatten(rows, Len(rows), f)

LEMMA FlattenExists == ASSUME NEW rows, NEW n \in Nat PROVE \E f : IsFlatten(rows, n, f)
<1>. DEFINE Bad == {m \in Nat : ~\E f : IsFlatten(rows, m, f)}
<1>1. ASSUME Bad # {} PROVE FALSE
  <2>1. PICK m \in Bad : \A k \in Bad : m <= k
    <3>1. Bad \in SUBSET Nat
      OBVIOUS
    <3>. HIDE DEF Bad
    <3>. QED
      BY <1>1, <3>1, Least
  <2>2. CASE m = 0
    <3>1. IsFlatten(rows, 0, [i \in 1..0 |-> 0])
      BY DEF IsFlatten
    <3>. QED
      BY <2>1, <2>2, <3>1
  <2>3. CASE m # 0
    <3>1. m - 1 \in Nat /\ m - 1 \notin Bad
      BY <2>1, <2>3
    <3>2. PICK g : IsFlatten(rows, m - 1, g)
      BY <3>1
    <3>. DEFINE f == [i \in 1..m |-> IF i < m THEN g[i] ELSE IF i = 1 THEN rows[i] ELSE g[i - 1] \o rows[i]]
    <3>3. \A i \in 1..m - 1 : g[i] = IF i = 1 THEN rows[i] ELSE g[i - 1] \o rows[i]
      BY <3>2 DEF IsFlatten
    <3>4. \A i \in 1..m : i # 1 => i - 1 \in 1..m - 1 /\ f[i - 1] = g[i - 1]
      BY <3>1
    <3>5. \A i \in 1..m : f[i] = IF i = 1 THEN rows[i] ELSE f[i - 1] \o rows[i]
      BY <3>1, <3>3, <3>4
    <3>6. IsFlatten(rows, m, f)
      BY <3>5 DEF IsFlatten
    <3>. QED
      BY <2>1, <3>6
  <2>. QED
    BY <2>2, <2>3
<1>. QED
  BY <1>1

LEMMA FlattenRows ==
  ASSUME NEW rows, Len(rows) \in Nat \ {0}
  PROVE  /\ FlattenSeq(rows) = Flatten(rows)[Len(rows)]
         /\ \A i \in 1..Len(rows) :
              Flatten(rows)[i] = IF i = 1 THEN rows[i] ELSE Flatten(rows)[i - 1] \o rows[i]
<1>1. IsFlatten(rows, Len(rows), Flatten(rows))
  BY FlattenExists DEF Flatten
<1>2. FlattenSeq(rows) = Flatten(rows)[Len(rows)]
  BY DEF FlattenSeq, Flatten, IsFlatten
<1>. DEFINE f == Flatten(rows)
<1>3. f = [i \in 1..Len(rows) |-> IF i = 1 THEN rows[i] ELSE f[i - 1] \o rows[i]]
  BY <1>1 DEF IsFlatten
<1>. HIDE DEF f
<1>4. \A i \in 1..Len(rows) : f[i] = IF i = 1 THEN rows[i] ELSE f[i - 1] \o rows[i]
  BY <1>3
<1>. QED
  BY <1>2, <1>4 DEF f

Drawn == Hists \ {"fetch"}
Width == Len(Bounds) + 2
BucketItem(h, i) == <<"bucket", h, i>>
CountItem(h) == <<"count", h>>
Items == {HistOrder(hk[1])[hk[2]] : hk \in Drawn \X (1..Width)} \cup {<<"series">>, <<"exits">>}

\* A part of a page: it has the histograms of H, each whole, buckets before count.
Whole(s, H) == \A h \in H : \A k \in 1..Width : \E a \in DOMAIN s : s[a] = HistOrder(h)[k]
Only(s, H) == \A a \in DOMAIN s : s[a][2] \in H
BucketsFirst(s) ==
  \A h \in Drawn, i \in Bucket : \A a, b \in DOMAIN s :
    s[a] = BucketItem(h, i) /\ s[b] = CountItem(h) => a < b
Part(s, H) == s \in Seq(Items) /\ Whole(s, H) /\ Only(s, H) /\ BucketsFirst(s)

LEMMA RowOf ==
  ASSUME NEW h \in Drawn
  PROVE  /\ Width \in Nat \ {0} /\ Len(Bounds) \in Nat \ {0} /\ Width = Len(Bounds) + 2
         /\ HistItems(h) = HistOrder(h) /\ HistOrder(h) \in Seq(Items)
         /\ DOMAIN HistOrder(h) = 1..Width /\ Len(HistOrder(h)) = Width
         /\ \A i \in Bucket : i \in 1..Width /\ HistOrder(h)[i] = BucketItem(h, i)
         /\ HistOrder(h)[Len(Bounds) + 1] = CountItem(h)
         /\ \A k \in 1..Width : k \notin Bucket => HistOrder(h)[k] \in {CountItem(h), <<"sum", h>>}
         /\ \A k \in 1..Width : k \notin Bucket /\ k # Len(Bounds) + 1 => HistOrder(h)[k] = <<"sum", h>>
<1>1. Len(Bounds) \in Nat \ {0}
  BY ClipType
<1>2. Width \in Nat \ {0} /\ Width = Len(Bounds) + 2
  BY <1>1 DEF Width
<1>3. HistItems(h) = HistOrder(h)
  BY DEF HistItems
<1>4. HistOrder(h) = [i \in 1..Width |-> IF i \in Bucket THEN BucketItem(h, i)
                                         ELSE IF i = Len(Bounds) + 1 THEN CountItem(h) ELSE <<"sum", h>>]
  BY DEF HistOrder, Width, BucketItem, CountItem
<1>5. DOMAIN HistOrder(h) = 1..Width
  BY <1>4
<1>6. \A k \in 1..Width : HistOrder(h)[k] \in Items
  <2>. HIDE DEF HistOrder
  <2>. SUFFICES ASSUME NEW k \in 1..Width PROVE HistOrder(h)[k] \in Items
    OBVIOUS
  <2>1. <<h, k>> \in Drawn \X (1..Width) /\ <<h, k>>[1] = h /\ <<h, k>>[2] = k
    OBVIOUS
  <2>. QED
    BY <2>1 DEF Items
<1>7. HistOrder(h) \in Seq(Items) /\ Len(HistOrder(h)) = Width
  <2>1. HistOrder(h) \in [1..Width -> Items]
    BY <1>4, <1>6
  <2>. HIDE DEF HistOrder
  <2>. QED
    BY <1>2, <2>1
<1>8. (\A i \in Bucket : i \in 1..Width) /\ Len(Bounds) + 1 \in 1..Width /\ Len(Bounds) + 1 \notin Bucket
  BY <1>1, <1>2 DEF Bucket
<1>. QED
  BY <1>1, <1>2, <1>3, <1>4, <1>5, <1>7, <1>8

LEMMA RowIsPart == ASSUME NEW h \in Drawn PROVE Part(HistItems(h), {h})
<1>. DEFINE s == HistOrder(h)
<1>1. /\ Width \in Nat \ {0} /\ Len(Bounds) \in Nat \ {0} /\ Width = Len(Bounds) + 2
      /\ HistItems(h) = s /\ s \in Seq(Items) /\ DOMAIN s = 1..Width
      /\ \A i \in Bucket : i \in 1..Width /\ s[i] = BucketItem(h, i)
      /\ s[Len(Bounds) + 1] = CountItem(h)
      /\ \A k \in 1..Width : k \notin Bucket => s[k] \in {CountItem(h), <<"sum", h>>}
      /\ \A k \in 1..Width : k \notin Bucket /\ k # Len(Bounds) + 1 => s[k] = <<"sum", h>>
  BY RowOf
<1>2. Whole(s, {h})
  BY <1>1 DEF Whole
<1>. HIDE DEF s
<1>3. Only(s, {h})
  <2>1. \A i : BucketItem(h, i)[2] = h /\ CountItem(h)[2] = h /\ <<"sum", h>>[2] = h
    BY DEF BucketItem, CountItem
  <2>. QED
    BY <1>1, <2>1 DEF Only
<1>4. BucketsFirst(s)
  <2>. SUFFICES ASSUME NEW g \in Drawn, NEW i \in Bucket, NEW a \in DOMAIN s, NEW b \in DOMAIN s,
                       s[a] = BucketItem(g, i), s[b] = CountItem(g)
                PROVE  a < b
    BY DEF BucketsFirst
  <2>1. /\ s[a][1] = "bucket" /\ s[b][1] = "count"
        /\ CountItem(h)[1] = "count" /\ <<"sum", h>>[1] = "sum" /\ \A k : BucketItem(h, k)[1] = "bucket"
    BY DEF BucketItem, CountItem
  <2>2. a \in Bucket
    BY <1>1, <2>1
  <2>3. b \notin Bucket
    BY <1>1, <2>1
  <2>. QED
    BY <1>1, <2>2, <2>3 DEF Bucket
<1>. QED
  BY <1>1, <1>2, <1>3, <1>4 DEF Part

LEMMA PartsJoin ==
  ASSUME NEW s, NEW H \in SUBSET Drawn, Part(s, H), NEW h \in Drawn \ H
  PROVE  Part(s \o HistItems(h), H \cup {h})
<1>. DEFINE r == HistItems(h)
            u == s \o r
<1>1. Part(r, {h})
  BY RowIsPart
<1>2. s \in Seq(Items) /\ r \in Seq(Items)
  BY <1>1 DEF Part
<1>. HIDE DEF r
<1>3. /\ u \in Seq(Items) /\ Len(s) \in Nat /\ Len(r) \in Nat
      /\ DOMAIN s = 1..Len(s) /\ DOMAIN r = 1..Len(r) /\ DOMAIN u = 1..Len(s) + Len(r)
  BY <1>2
<1>4. \A a \in DOMAIN s : a \in DOMAIN u /\ u[a] = s[a]
  BY <1>2, <1>3
<1>5. \A a \in DOMAIN r : Len(s) + a \in DOMAIN u /\ u[Len(s) + a] = r[a]
  BY <1>2, <1>3
<1>6. \A a \in DOMAIN u : a \in DOMAIN s \/ (a - Len(s) \in DOMAIN r /\ a = Len(s) + (a - Len(s)))
  BY <1>3
<1>. HIDE DEF u
<1>7. Whole(u, H \cup {h})
  <2>. SUFFICES ASSUME NEW g \in H \cup {h}, NEW k \in 1..Width
                PROVE  \E a \in DOMAIN u : u[a] = HistOrder(g)[k]
    BY DEF Whole
  <2>1. CASE g \in H
    <3>1. PICK a \in DOMAIN s : s[a] = HistOrder(g)[k]
      BY <2>1 DEF Part, Whole
    <3>. QED
      BY <1>4, <3>1
  <2>2. CASE g = h
    <3>1. PICK a \in DOMAIN r : r[a] = HistOrder(g)[k]
      BY <1>1, <2>2 DEF Part, Whole
    <3>. QED
      BY <1>5, <3>1
  <2>. QED
    BY <2>1, <2>2
<1>8. (\A a \in DOMAIN s : s[a][2] \in H) /\ (\A a \in DOMAIN r : r[a][2] = h)
  BY <1>1 DEF Part, Only
<1>9. Only(u, H \cup {h})
  <2>. SUFFICES ASSUME NEW a \in DOMAIN u PROVE u[a][2] \in H \cup {h}
    BY DEF Only
  <2>. QED
    BY <1>4, <1>5, <1>6, <1>8
<1>10. BucketsFirst(u)
  <2>. SUFFICES ASSUME NEW g \in Drawn, NEW i \in Bucket, NEW a \in DOMAIN u, NEW b \in DOMAIN u,
                       u[a] = BucketItem(g, i), u[b] = CountItem(g)
                PROVE  a < b
    BY DEF BucketsFirst
  <2>1. u[a][2] = g /\ u[b][2] = g
    BY DEF BucketItem, CountItem
  <2>2. CASE g \in H
    <3>1. a \in DOMAIN s /\ b \in DOMAIN s
      BY <1>5, <1>6, <1>8, <2>1, <2>2
    <3>2. s[a] = BucketItem(g, i) /\ s[b] = CountItem(g)
      BY <1>4, <3>1
    <3>. QED
      BY <3>1, <3>2 DEF Part, BucketsFirst
  <2>3. CASE g \notin H
    <3>1. /\ a - Len(s) \in DOMAIN r /\ b - Len(s) \in DOMAIN r
          /\ r[a - Len(s)] = BucketItem(g, i) /\ r[b - Len(s)] = CountItem(g)
      BY <1>4, <1>5, <1>6, <1>8, <2>1, <2>3
    <3>2. a - Len(s) < b - Len(s)
      BY <1>1, <3>1 DEF Part, BucketsFirst
    <3>. QED
      BY <1>3, <3>2
  <2>. QED
    BY <2>2, <2>3
<1>. QED
  BY <1>3, <1>7, <1>9, <1>10 DEF Part, u, r

RowSet == {HistItems(h) : h \in Drawn}
Rows == SetToSeq(RowSet)
DrawnUpTo(n) == {h \in Drawn : \E i \in 1..n : Rows[i] = HistItems(h)}

LEMMA RowsListed ==
  /\ Len(Rows) \in Nat \ {0}
  /\ \A i \in 1..Len(Rows) : \E h \in Drawn :
       /\ Rows[i] = HistItems(h)
       /\ DrawnUpTo(i) = DrawnUpTo(i - 1) \cup {h} /\ h \notin DrawnUpTo(i - 1)
  /\ DrawnUpTo(Len(Rows)) = Drawn
<1>1. ASSUME NEW g \in Drawn, NEW h \in Drawn, HistItems(g) = HistItems(h) PROVE g = h
  <2>1. HistItems(g)[Len(Bounds) + 1] = CountItem(g) /\ HistItems(h)[Len(Bounds) + 1] = CountItem(h)
    BY RowOf
  <2>2. CountItem(g) = CountItem(h)
    BY <1>1, <2>1
  <2>. QED
    BY <2>2 DEF CountItem
<1>2. IsFiniteSet(Drawn)
  BY Finite, FS_Subset DEF Drawn
<1>3. IsFiniteSet(RowSet)
  <2>. HIDE DEF HistItems
  <2>1. [h \in Drawn |-> HistItems(h)] \in Surjection(Drawn, RowSet)
    BY DEF Surjection, RowSet
  <2>. QED
    BY <1>2, <2>1, FS_Surjection
<1>. DEFINE n == Cardinality(RowSet)
<1>4. /\ Rows \in [1..n -> RowSet] /\ n \in Nat
      /\ \A x \in RowSet : \E i \in 1..n : Rows[i] = x
      /\ \A i, k \in 1..n : Rows[i] = Rows[k] => i = k
  BY <1>3, Listing DEF Rows
<1>. HIDE DEF n
<1>5. Len(Rows) = n
  BY <1>4
<1>6. n # 0
  <2>1. "duration" \in Drawn
    BY HistsKnown DEF Drawn
  <2>2. HistItems("duration") \in RowSet
    BY <2>1 DEF RowSet
  <2>. QED
    BY <1>4, <2>2
<1>7. ASSUME NEW i \in 1..n
      PROVE  \E h \in Drawn :
               /\ Rows[i] = HistItems(h)
               /\ DrawnUpTo(i) = DrawnUpTo(i - 1) \cup {h} /\ h \notin DrawnUpTo(i - 1)
  <2>. HIDE DEF HistItems
  <2>1. PICK h \in Drawn : Rows[i] = HistItems(h)
    BY <1>4 DEF RowSet
  <2>2. \A k \in 1..i : k \in 1..i - 1 \/ k = i
    BY <1>4
  <2>3. \A k \in 1..i - 1 : k \in 1..i /\ k \in 1..n /\ k # i
    BY <1>4
  <2>4. i \in 1..i
    BY <1>4
  <2>5. h \notin DrawnUpTo(i - 1)
    BY <1>4, <2>1, <2>3 DEF DrawnUpTo
  <2>6. \A g \in Drawn : g \in DrawnUpTo(i) <=> g \in DrawnUpTo(i - 1) \/ g = h
    BY <1>1, <2>1, <2>2, <2>3, <2>4 DEF DrawnUpTo
  <2>7. DrawnUpTo(i) \subseteq Drawn /\ DrawnUpTo(i - 1) \subseteq Drawn
    BY DEF DrawnUpTo
  <2>. QED
    BY <2>1, <2>5, <2>6, <2>7
<1>8. DrawnUpTo(n) = Drawn
  <2>. HIDE DEF HistItems
  <2>. QED
    BY <1>4 DEF DrawnUpTo, RowSet
<1>. QED
  BY <1>4, <1>5, <1>6, <1>7, <1>8

LEMMA RowsArePart == Part(FlattenSeq(Rows), Drawn)
<1>. DEFINE f == Flatten(Rows)
            n == Len(Rows)
            Bad == {m \in 1..n : ~Part(f[m], DrawnUpTo(m))}
<1>1. /\ n \in Nat \ {0} /\ FlattenSeq(Rows) = f[n]
      /\ \A i \in 1..n : f[i] = IF i = 1 THEN Rows[i] ELSE f[i - 1] \o Rows[i]
  BY RowsListed, FlattenRows
<1>. HIDE DEF f
<1>2. ASSUME Bad # {} PROVE FALSE
  <2>1. PICK m \in Bad : \A k \in Bad : m <= k
    <3>1. Bad \in SUBSET Nat
      BY <1>1
    <3>. HIDE DEF Bad
    <3>. QED
      BY <1>2, <3>1, Least
  <2>2. PICK h \in Drawn : /\ Rows[m] = HistItems(h)
                           /\ DrawnUpTo(m) = DrawnUpTo(m - 1) \cup {h} /\ h \notin DrawnUpTo(m - 1)
    BY RowsListed
  <2>. HIDE DEF HistItems
  <2>3. CASE m = 1
    <3>1. DrawnUpTo(m - 1) = {}
      BY <2>3 DEF DrawnUpTo
    <3>2. DrawnUpTo(m) = {h} /\ f[m] = HistItems(h)
      BY <1>1, <2>2, <2>3, <3>1
    <3>. QED
      BY <2>1, <3>2, RowIsPart
  <2>4. CASE m # 1
    <3>1. m - 1 \in 1..n /\ m - 1 \notin Bad
      BY <1>1, <2>1, <2>4
    <3>2. Part(f[m - 1], DrawnUpTo(m - 1))
      BY <3>1
    <3>3. f[m] = f[m - 1] \o HistItems(h)
      BY <1>1, <2>2, <2>4
    <3>4. DrawnUpTo(m - 1) \in SUBSET Drawn
      BY DEF DrawnUpTo
    <3>5. Part(f[m], DrawnUpTo(m))
      BY <2>2, <3>2, <3>3, <3>4, PartsJoin
    <3>. QED
      BY <2>1, <3>5
  <2>. QED
    BY <2>3, <2>4
<1>3. n \in 1..n
  BY <1>1
<1>4. Part(f[n], DrawnUpTo(n))
  BY <1>2, <1>3
<1>. QED
  BY <1>1, <1>4, RowsListed

LEMMA Joining ==
  ASSUME NEW S, NEW p \in Seq(S), NEW q \in Seq(S)
  PROVE  /\ p \o q \in Seq(S) /\ Len(p \o q) = Len(p) + Len(q)
         /\ DOMAIN (p \o q) = 1..Len(p \o q)
         /\ \A a \in 1..Len(p) : (p \o q)[a] = p[a]
         /\ \A a \in DOMAIN q : (p \o q)[Len(p) + a] = q[a]
OBVIOUS

LEMMA OrderIsPart ==
  /\ RenderOrder \in Seq(Items) /\ Len(RenderOrder) \in Nat \ {0}
  /\ DOMAIN RenderOrder = 1..Len(RenderOrder)
  /\ Whole(RenderOrder, Drawn) /\ BucketsFirst(RenderOrder)
<1>. DEFINE s == FlattenSeq(Rows)
            first == <<"series">>
            last == <<"exits">>
            u == <<first>> \o s
            v == u \o <<last>>
<1>1. Part(s, Drawn)
  BY RowsArePart
<1>. HIDE DEF s
<1>2. RenderOrder = v
  BY DEF RenderOrder, s, Rows, RowSet, Drawn
<1>3. first \in Items /\ last \in Items
  BY DEF Items
<1>4. first[1] = "series" /\ last[1] = "exits"
  OBVIOUS
<1>. HIDE DEF first, last
<1>5. <<first>> \in Seq(Items) /\ Len(<<first>>) = 1 /\ <<first>>[1] = first
  BY <1>3
<1>6. <<last>> \in Seq(Items) /\ Len(<<last>>) = 1 /\ <<last>>[1] = last
  BY <1>3
<1>. DEFINE A == <<first>>
            B == <<last>>
<1>. HIDE DEF A, B
<1>7. A \in Seq(Items) /\ Len(A) = 1 /\ A[1] = first /\ u = A \o s
  BY <1>5 DEF A
<1>8. B \in Seq(Items) /\ Len(B) = 1 /\ B[1] = last /\ v = u \o B
  BY <1>6 DEF B
<1>. HIDE DEF u, v
<1>9. s \in Seq(Items) /\ Len(s) \in Nat /\ DOMAIN s = 1..Len(s)
  BY <1>1 DEF Part
<1>10. /\ u \in Seq(Items) /\ Len(u) = Len(A) + Len(s)
       /\ \A a \in 1..Len(A) : u[a] = A[a]
       /\ \A a \in DOMAIN s : u[Len(A) + a] = s[a]
  <2>1. A \in Seq(Items) /\ u = A \o s
    BY <1>7
  <2>. QED
    BY <1>9, <2>1, Joining
<1>11. Len(u) = Len(s) + 1 /\ u[1] = first /\ \A a \in DOMAIN s : u[a + 1] = s[a]
  <2>1. 1 \in 1..Len(A) /\ \A a \in DOMAIN s : Len(A) + a = a + 1
    BY <1>7, <1>9
  <2>. QED
    BY <1>7, <1>9, <1>10, <2>1
<1>12. /\ v \in Seq(Items) /\ Len(v) = Len(u) + Len(B) /\ DOMAIN v = 1..Len(v)
       /\ \A a \in 1..Len(u) : v[a] = u[a]
       /\ \A a \in DOMAIN B : v[Len(u) + a] = B[a]
  <2>1. B \in Seq(Items) /\ v = u \o B /\ u \in Seq(Items)
    BY <1>8, <1>10
  <2>. QED
    BY <2>1, Joining
<1>13. /\ Len(v) = Len(s) + 2 /\ DOMAIN v = 1..Len(s) + 2
       /\ \A a \in 1..Len(s) + 1 : v[a] = u[a]
       /\ v[Len(s) + 2] = last
  <2>1. 1 \in DOMAIN B
    BY <1>8
  <2>2. Len(v) = Len(s) + 2 /\ Len(u) + 1 = Len(s) + 2
    BY <1>8, <1>9, <1>11, <1>12
  <2>3. v[Len(u) + 1] = last
    BY <1>8, <1>12, <2>1
  <2>. QED
    BY <1>11, <1>12, <2>2, <2>3
<1>14. v[1] = first /\ \A a \in DOMAIN s : a + 1 \in DOMAIN v /\ v[a + 1] = s[a]
  BY <1>9, <1>11, <1>12, <1>13
<1>15. \A a \in DOMAIN v : a = 1 \/ a = Len(s) + 2 \/ (a - 1 \in DOMAIN s /\ (a - 1) + 1 = a)
  BY <1>9, <1>13
<1>16. Whole(v, Drawn)
  BY <1>1, <1>14 DEF Part, Whole
<1>17. BucketsFirst(v)
  <2>. SUFFICES ASSUME NEW g \in Drawn, NEW i \in Bucket, NEW a \in DOMAIN v, NEW b \in DOMAIN v,
                       v[a] = BucketItem(g, i), v[b] = CountItem(g)
                PROVE  a < b
    BY DEF BucketsFirst
  <2>1. v[a][1] = "bucket" /\ v[b][1] = "count"
    BY DEF BucketItem, CountItem
  <2>2. a - 1 \in DOMAIN s /\ b - 1 \in DOMAIN s
    BY <1>4, <1>13, <1>14, <1>15, <2>1
  <2>3. s[a - 1] = BucketItem(g, i) /\ s[b - 1] = CountItem(g)
    BY <1>14, <1>15, <2>2
  <2>4. a - 1 < b - 1
    BY <1>1, <2>2, <2>3 DEF Part, BucketsFirst
  <2>. QED
    BY <1>13, <2>4
<1>. QED
  BY <1>2, <1>9, <1>12, <1>13, <1>16, <1>17

\* Where a page has a histogram's numbers.
BucketAt(h, i) == CHOOSE k \in Places({BucketItem(h, i)}) : TRUE
CountAt(h) == CHOOSE k \in Places({CountItem(h)}) : TRUE

LEMMA PlacesOnPage ==
  ASSUME NEW h \in Drawn
  PROVE  /\ CountAt(h) \in 1..Len(RenderOrder) /\ RenderOrder[CountAt(h)] = CountItem(h)
         /\ \A i \in Bucket : /\ BucketAt(h, i) \in 1..Len(RenderOrder)
                              /\ RenderOrder[BucketAt(h, i)] = BucketItem(h, i)
                              /\ BucketAt(h, i) < CountAt(h)
<1>. DEFINE N == Len(RenderOrder)
            RO == RenderOrder
<1>1. DOMAIN RO = 1..N /\ Whole(RO, Drawn) /\ BucketsFirst(RO)
  BY OrderIsPart
<1>2. /\ \A i \in Bucket : i \in 1..Width /\ HistOrder(h)[i] = BucketItem(h, i)
      /\ HistOrder(h)[Len(Bounds) + 1] = CountItem(h)
      /\ Len(Bounds) + 1 \in 1..Width
  BY RowOf
<1>3. \A item : Places({item}) = {k \in 1..N : RO[k] = item}
  BY DEF Places
<1>. HIDE DEF N, RO
<1>4. CountAt(h) \in 1..N /\ RO[CountAt(h)] = CountItem(h)
  <2>1. \E k \in 1..N : RO[k] = CountItem(h)
    BY <1>1, <1>2 DEF Whole
  <2>. QED
    BY <1>3, <2>1 DEF CountAt
<1>5. ASSUME NEW i \in Bucket
      PROVE  BucketAt(h, i) \in 1..N /\ RO[BucketAt(h, i)] = BucketItem(h, i)
  <2>1. \E k \in 1..N : RO[k] = BucketItem(h, i)
    BY <1>1, <1>2 DEF Whole
  <2>. QED
    BY <1>3, <2>1 DEF BucketAt
<1>6. \A i \in Bucket : BucketAt(h, i) < CountAt(h)
  BY <1>1, <1>4, <1>5 DEF BucketsFirst
<1>. QED
  BY <1>4, <1>5, <1>6 DEF N, RO

\* What a page has of a histogram's buckets.
Marks(p, h) == [i \in Bucket |-> p[BucketAt(h, i)]]

LEMMA UnderIsSum == ASSUME NEW p, NEW h PROVE Under(p, h) = SumOver(Marks(p, h), Bucket)
<1>. DEFINE f == Marks(p, h)
            op(i) == OnPage(p, <<"bucket", h, i>>)
            Iter(iter) == iter = [s \in SUBSET Bucket |->
                                    IF s = {} THEN 0 ELSE op(Chosen(s)) + iter[s \ {Chosen(s)}]]
<1>1. \A i \in Bucket : op(i) = f[i]
  BY DEF OnPage, Marks, BucketAt, BucketItem
<1>2. Under(p, h) = (CHOOSE iter : Iter(iter))[Bucket]
  BY DEF Under, MapThenSumSet, MapThenFoldSet, Chosen
<1>. HIDE DEF op, f
<1>3. ASSUME NEW iter PROVE Iter(iter) <=> IsSums(f, Bucket, iter)
  <2>1. \A s \in SUBSET Bucket : s # {} => op(Chosen(s)) = f[Chosen(s)]
    BY <1>1, ChosenLess
  <2>2. [s \in SUBSET Bucket |-> IF s = {} THEN 0 ELSE op(Chosen(s)) + iter[s \ {Chosen(s)}]]
        = [s \in SUBSET Bucket |-> IF s = {} THEN 0 ELSE f[Chosen(s)] + iter[s \ {Chosen(s)}]]
    BY <2>1
  <2>. QED
    BY <2>2 DEF IsSums
<1>. HIDE DEF Iter
<1>4. IsSums(f, Bucket, Sums(f, Bucket))
  BY BucketsFinite, SumsExist
<1>5. IsSums(f, Bucket, CHOOSE iter : Iter(iter))
  BY <1>3, <1>4
<1>6. (CHOOSE iter : Iter(iter))[Bucket] = Sums(f, Bucket)[Bucket]
  BY <1>4, <1>5, BucketsFinite, SumsUnique
<1>. QED
  BY <1>2, <1>6 DEF SumOver, f

LEMMA SumGrows ==
  ASSUME NEW S, IsFiniteSet(S), NEW f, NEW g,
         \A x \in S : f[x] \in Int /\ g[x] \in Int /\ f[x] <= g[x]
  PROVE  SumOver(f, S) <= SumOver(g, S)
<1>. DEFINE Bad == {T \in SUBSET S : ~(SumOver(f, T) <= SumOver(g, T))}
<1>1. ASSUME Bad # {} PROVE FALSE
  <2>1. PICK T \in Bad : \A U \in Bad : U \subseteq T => U = T
    <3>1. Bad \in SUBSET SUBSET S
      OBVIOUS
    <3>. HIDE DEF Bad
    <3>. QED
      BY <1>1, <3>1, MinimalSubset
  <2>2. IsFiniteSet(T)
    BY FS_Subset
  <2>3. T # {}
    <3>1. T = {} => SumOver(f, T) = 0 /\ SumOver(g, T) = 0
      BY <2>2, SumChosen
    <3>. QED
      BY <2>1, <3>1
  <2>. DEFINE c == Chosen(T)
  <2>4. c \in S /\ T \ {c} \subseteq T /\ T \ {c} # T /\ IsFiniteSet(T \ {c})
    BY <2>2, <2>3, ChosenLess, FS_Subset
  <2>5. SumOver(f, T \ {c}) <= SumOver(g, T \ {c})
    BY <2>1, <2>4
  <2>6. SumOver(f, T \ {c}) \in Int /\ SumOver(g, T \ {c}) \in Int
    <3>1. \A x \in T \ {c} : f[x] \in Int /\ g[x] \in Int
      OBVIOUS
    <3>. HIDE DEF c
    <3>. QED
      BY <2>4, <3>1, SumStep
  <2>7. SumOver(f, T) = f[c] + SumOver(f, T \ {c}) /\ SumOver(g, T) = g[c] + SumOver(g, T \ {c})
    BY <2>2, <2>3, SumChosen
  <2>. HIDE DEF c
  <2>. QED
    BY <2>1, <2>4, <2>5, <2>6, <2>7
<1>. QED
  BY <1>1

-----------------------------------------------------------------------------
\* Pages

\* What one client's page says of the histograms.
Loaded(p, table) ==
  /\ \A h \in Drawn, i \in Bucket : BucketAt(h, i) <= Len(p) => p[BucketAt(h, i)] <= table[h][i]
  /\ \A h \in Drawn : CountAt(h) <= Len(p) =>
       SumOver(Marks(p, h), Bucket) <= p[CountAt(h)] + Cardinality(Threads)

PageShape(p, state) ==
  /\ p \in Seq(Nat)
  /\ state \in {"closed", "over", "read"} => p = <<>>
  /\ state = "render" => Len(p) < Len(RenderOrder)

PagesKept == \A c \in Conns : PageShape(page[c], conn[c]) /\ Loaded(page[c], buckets)
PageTypes == page = [c \in Conns |-> page[c]]

LEMMA EmptyPage == ASSUME NEW table PROVE Loaded(<<>>, table)
<1>1. \A h \in Drawn : CountAt(h) >= 1 /\ CountAt(h) \in Nat
                       /\ \A i \in Bucket : BucketAt(h, i) >= 1 /\ BucketAt(h, i) \in Nat
  BY PlacesOnPage
<1>2. Len(<<>>) = 0
  OBVIOUS
<1>. QED
  BY <1>1, <1>2 DEF Loaded

LEMMA LoadIsNat ==
  ASSUME RegisterTypes, SumTypes, Counters(exits), NEW k \in 1..Len(RenderOrder)
  PROVE  Load(RenderOrder[k]) \in Nat
<1>. DEFINE item == RenderOrder[k]
<1>1. item \in Items
  BY OrderIsPart
<1>. HIDE DEF item
<1>2. CASE item = <<"series">>
  <2>1. \A names : LinesOf(names) \in Nat
    <3>. SUFFICES ASSUME NEW names PROVE LinesOf(names) \in Nat
      OBVIOUS
    <3>1. {s \in DOMAIN series : s[1] \in names} \in SUBSET DOMAIN series
      OBVIOUS
    <3>. QED
      BY <3>1, FS_Subset, FS_CardinalityType DEF LinesOf, RegisterTypes, Counters
  <2>2. RequestLines + GatewayLines + FreePoolLines \in Nat
    BY <2>1 DEF RequestLines, GatewayLines, FreePoolLines
  <2>3. Load(item) = RequestLines + GatewayLines + FreePoolLines
    BY <1>2 DEF Load
  <2>. QED
    BY <2>2, <2>3 DEF item
<1>3. CASE item = <<"exits">>
  <2>1. ExitLines \in Nat
    BY FS_AddElement, FS_CardinalityType DEF ExitLines, Counters
  <2>2. Load(item) = ExitLines
    BY <1>3 DEF Load
  <2>. QED
    BY <2>1, <2>2 DEF item
<1>4. CASE item \notin {<<"series">>, <<"exits">>}
  <2>1. PICK h \in Drawn, i \in 1..Width : item = HistOrder(h)[i]
    BY <1>1, <1>4 DEF Items
  <2>2. h \in Hists
    BY DEF Drawn
  <2>3. item \in {BucketItem(h, n) : n \in Bucket} \/ item = CountItem(h) \/ item = <<"sum", h>>
    BY <2>1, RowOf
  <2>4. CASE item = CountItem(h)
    BY <2>2, <2>4 DEF Load, CountItem, RegisterTypes, item
  <2>5. CASE item = <<"sum", h>>
    BY <2>2, <2>5 DEF Load, SumTypes, item
  <2>6. ASSUME NEW n \in Bucket, item = BucketItem(h, n) PROVE Load(item) \in Nat
    BY <2>2, <2>6 DEF Load, BucketItem, RegisterTypes
  <2>. QED
    BY <2>3, <2>4, <2>5, <2>6 DEF item
<1>. QED
  BY <1>2, <1>3, <1>4

\* A number more on a page.
LEMMA LoadedMore ==
  ASSUME RegisterTypes, BucketsCounted,
         NEW p \in Seq(Nat), Loaded(p, buckets), Len(p) < Len(RenderOrder),
         NEW x \in Nat, x = Load(RenderOrder[Len(p) + 1])
  PROVE  Loaded(Append(p, x), buckets)
<1>. DEFINE n == Len(p) + 1
            q == Append(p, x)
<1>1. /\ q \in Seq(Nat) /\ Len(p) \in Nat /\ Len(q) = n /\ q[n] = x
      /\ \A k \in 1..Len(p) : q[k] = p[k]
  BY AppendProperties
<1>2. n \in 1..Len(RenderOrder) /\ x = Load(RenderOrder[n])
  BY OrderIsPart
<1>. HIDE DEF q
<1>3. ASSUME NEW h \in Drawn, NEW i \in Bucket, BucketAt(h, i) <= n PROVE q[BucketAt(h, i)] <= buckets[h][i]
  <2>1. BucketAt(h, i) \in 1..Len(RenderOrder) /\ RenderOrder[BucketAt(h, i)] = BucketItem(h, i)
    BY PlacesOnPage
  <2>2. CASE BucketAt(h, i) = n
    <3>1. x = buckets[h][i]
      BY <1>2, <2>1, <2>2 DEF Load, BucketItem
    <3>2. buckets[h][i] \in Nat
      BY DEF RegisterTypes, Drawn
    <3>. QED
      BY <1>1, <2>2, <3>1, <3>2
  <2>3. CASE BucketAt(h, i) # n
    <3>1. BucketAt(h, i) \in 1..Len(p)
      BY <1>1, <1>3, <2>1, <2>3
    <3>. QED
      BY <1>1, <3>1 DEF Loaded
  <2>. QED
    BY <2>2, <2>3
<1>4. ASSUME NEW h \in Drawn, CountAt(h) <= n
      PROVE  SumOver(Marks(q, h), Bucket) <= q[CountAt(h)] + Cardinality(Threads)
  <2>1. /\ CountAt(h) \in 1..Len(RenderOrder) /\ RenderOrder[CountAt(h)] = CountItem(h)
        /\ \A i \in Bucket : BucketAt(h, i) \in 1..Len(RenderOrder) /\ BucketAt(h, i) < CountAt(h)
    BY PlacesOnPage
  <2>2. \A i \in Bucket : BucketAt(h, i) \in 1..Len(p) /\ BucketAt(h, i) <= n
    BY <1>1, <1>4, <2>1
  <2>3. CASE CountAt(h) # n
    <3>1. CountAt(h) \in 1..Len(p)
      BY <1>1, <1>4, <2>1, <2>3
    <3>2. Marks(q, h) = Marks(p, h)
      BY <1>1, <2>2 DEF Marks
    <3>. QED
      BY <1>1, <3>1, <3>2 DEF Loaded
  <2>4. CASE CountAt(h) = n
    <3>1. x = count[h] /\ h \in Hists
      BY <1>2, <2>1, <2>4 DEF Load, CountItem, Drawn
    <3>2. buckets[h] \in [Bucket -> Nat] /\ count[h] \in Nat
      BY <3>1 DEF RegisterTypes
    <3>3. \A i \in Bucket : /\ Marks(q, h)[i] \in Int /\ buckets[h][i] \in Int
                            /\ Marks(q, h)[i] <= buckets[h][i]
      BY <1>1, <1>3, <2>2, <3>2 DEF Marks
    <3>4. SumOver(Marks(q, h), Bucket) <= SumOver(buckets[h], Bucket)
      BY <3>3, BucketsFinite, SumGrows
    <3>5. SumOver(buckets[h], Bucket) = count[h] + Cardinality(Between(h))
      BY <3>1, <3>2, TotalIsSum DEF BucketsCounted, Filled
    <3>6. Between(h) \in SUBSET Threads
      BY DEF Between
    <3>7. /\ Cardinality(Between(h)) <= Cardinality(Threads) /\ Cardinality(Between(h)) \in Nat
          /\ Cardinality(Threads) \in Nat
      BY <3>6, Finite, FS_Subset, FS_CardinalityType
    <3>8. SumOver(Marks(q, h), Bucket) \in Int
      BY <3>3, BucketsFinite, SumStep
    <3>. QED
      BY <1>1, <2>4, <3>1, <3>2, <3>4, <3>5, <3>7, <3>8
  <2>. QED
    BY <2>3, <2>4
<1>5. Loaded(q, buckets)
  BY <1>1, <1>3, <1>4 DEF Loaded
<1>. QED
  BY <1>5 DEF q

LEMMA BucketsGrow ==
  ASSUME TaskTypes, RegisterTypes, [Next]_vars, NEW h \in Hists, NEW i \in Bucket
  PROVE  buckets[h][i] \in Nat /\ buckets'[h][i] \in Nat /\ buckets[h][i] <= buckets'[h][i]
<1>1. buckets[h][i] \in Nat
  BY DEF RegisterTypes
<1>2. ASSUME NEW t \in Threads, BumpBucket(t)
      PROVE  buckets'[h][i] = buckets[h][i] \/ buckets'[h][i] = buckets[h][i] + 1
  <2>1. PICK S : buckets' = [buckets EXCEPT ![job[t].hist] =
                               [k \in Bucket |-> IF k \in S THEN @[k] + 1 ELSE @[k]]]
    BY <1>2 DEF BumpBucket
  <2>. QED
    BY <2>1 DEF RegisterTypes
<1>3. (\E t \in Threads : BumpBucket(t)) \/ buckets' = buckets
  <2>1. ASSUME NEW t \in Threads, BumpSeries(t) \/ BumpCount(t) PROVE buckets' = buckets
    BY <2>1 DEF BumpSeries, BumpCount
  <2>. QED
    BY <2>1, CountersWait, ClientsWait DEF Next, vars, registers
<1>. QED
  BY <1>1, <1>2, <1>3

LEMMA LoadedStays ==
  ASSUME TaskTypes, RegisterTypes, [Next]_vars, NEW p \in Seq(Nat), Loaded(p, buckets)
  PROVE  Loaded(p, buckets')
<1>1. ASSUME NEW h \in Drawn, NEW i \in Bucket, BucketAt(h, i) <= Len(p)
      PROVE  p[BucketAt(h, i)] <= buckets'[h][i]
  <2>1. /\ buckets[h][i] \in Nat /\ buckets'[h][i] \in Nat /\ buckets[h][i] <= buckets'[h][i]
    BY BucketsGrow DEF Drawn
  <2>2. BucketAt(h, i) \in 1..Len(p)
    BY <1>1, PlacesOnPage, OrderIsPart
  <2>3. p[BucketAt(h, i)] \in Nat /\ p[BucketAt(h, i)] <= buckets[h][i]
    BY <1>1, <2>2 DEF Loaded
  <2>. QED
    BY <2>1, <2>3
<1>. QED
  BY <1>1 DEF Loaded

LEMMA PagesStep ==
  ASSUME TaskTypes, RegisterTypes, SumTypes, Counters(exits), BucketsCounted,
         ConnStates, PageTypes, PagesKept, [Next]_vars
  PROVE  PageTypes' /\ PagesKept'
<1>1. \A c \in Conns : /\ page[c] \in Seq(Nat) /\ PageShape(page[c], conn[c])
                       /\ Loaded(page[c], buckets) /\ Loaded(page[c], buckets')
  BY LoadedStays DEF PagesKept, PageShape
<1>2. ASSUME UNCHANGED <<page, conn>> PROVE PageTypes' /\ PagesKept'
  BY <1>1, <1>2 DEF PageTypes, PagesKept
<1>3. ASSUME NEW c \in Conns, NEW p, NEW state,
             page' = [page EXCEPT ![c] = p], conn' = [conn EXCEPT ![c] = state],
             PageShape(p, state), Loaded(p, buckets')
      PROVE  PageTypes' /\ PagesKept'
  <2>1. PageTypes'
    BY <1>3 DEF PageTypes
  <2>2. page'[c] = p /\ conn'[c] = state
    BY <1>3 DEF PageTypes, ConnStates
  <2>3. \A d \in Conns \ {c} : page'[d] = page[d] /\ conn'[d] = conn[d]
    BY <1>3 DEF PageTypes, ConnStates
  <2>. QED
    BY <1>1, <1>3, <2>1, <2>2, <2>3 DEF PagesKept
<1>4. PageShape(<<>>, "closed") /\ PageShape(<<>>, "over") /\ PageShape(<<>>, "read")
      /\ PageShape(<<>>, "render") /\ PageShape(<<>>, "write")
  <2>1. <<>> \in Seq(Nat) /\ Len(<<>>) = 0 /\ Len(RenderOrder) > 0
    BY OrderIsPart
  <2>. QED
    BY <2>1 DEF PageShape
<1>5. \A c \in Conns : page' = page => page' = [page EXCEPT ![c] = page[c]]
  BY DEF PageTypes
<1>6. ASSUME NEW c \in Conns, Accept(c) PROVE PageTypes' /\ PagesKept'
  <2>1. conn[c] = "closed" /\ page' = page
    BY <1>6 DEF Accept
  <2>2. page[c] = <<>>
    BY <1>1, <2>1 DEF PageShape
  <2>3. PICK state \in {"over", "read"} : conn' = [conn EXCEPT ![c] = state]
    BY <1>6 DEF Accept
  <2>. QED
    BY <1>3, <1>4, <1>5, <2>1, <2>2, <2>3, EmptyPage
<1>7. ASSUME NEW c \in Conns, TurnAway(c) \/ ReadTimeout(c) \/ Written(c) PROVE PageTypes' /\ PagesKept'
  <2>1. conn' = [conn EXCEPT ![c] = "closed"] /\ page' = [page EXCEPT ![c] = <<>>]
    BY <1>7 DEF TurnAway, ReadTimeout, Written, Close
  <2>. QED
    BY <1>3, <1>4, <2>1, EmptyPage
<1>8. ASSUME NEW c \in Conns, ReadRequest(c) \/ ReadOther(c) PROVE PageTypes' /\ PagesKept'
  <2>1. conn[c] = "read" /\ page' = page
    BY <1>8 DEF ReadRequest, ReadOther
  <2>2. page[c] = <<>>
    BY <1>1, <2>1 DEF PageShape
  <2>3. PICK state \in {"render", "write"} : conn' = [conn EXCEPT ![c] = state]
    BY <1>8 DEF ReadRequest, ReadOther
  <2>. QED
    BY <1>3, <1>4, <1>5, <2>1, <2>2, <2>3, EmptyPage
<1>9. ASSUME NEW c \in Conns, RenderItem(c) PROVE PageTypes' /\ PagesKept'
  <2>. DEFINE p == page[c]
              x == Load(RenderOrder[Len(p) + 1])
              q == Append(p, x)
              state == IF Len(q) = Len(RenderOrder) THEN "write" ELSE "render"
  <2>1. conn[c] = "render" /\ page' = [page EXCEPT ![c] = q] /\ UNCHANGED buckets
    BY <1>9 DEF RenderItem, registers
  <2>2. page'[c] = q
    BY <2>1 DEF PageTypes
  <2>3. conn' = [conn EXCEPT ![c] = state]
    BY <1>9, <2>2 DEF RenderItem
  <2>4. p \in Seq(Nat) /\ Len(p) < Len(RenderOrder) /\ Loaded(p, buckets)
    BY <1>1, <2>1 DEF PageShape
  <2>. HIDE DEF p
  <2>5. Len(p) + 1 \in 1..Len(RenderOrder)
    BY <2>4, OrderIsPart
  <2>6. x \in Nat
    BY <2>5, LoadIsNat
  <2>7. Loaded(q, buckets)
    BY <2>4, <2>6, LoadedMore
  <2>8. PageShape(q, state)
    <3>. HIDE DEF x
    <3>1. q \in Seq(Nat) /\ Len(q) = Len(p) + 1
      BY <2>4, <2>6, AppendProperties
    <3>2. Len(q) <= Len(RenderOrder) /\ Len(q) \in Nat /\ Len(RenderOrder) \in Nat
      BY <2>4, <2>5, <3>1
    <3>. HIDE DEF q
    <3>. QED
      BY <3>1, <3>2 DEF PageShape
  <2>9. Loaded(q, buckets')
    BY <2>1, <2>7
  <2>. HIDE DEF q, state
  <2>. QED
    BY <1>3, <2>1, <2>3, <2>8, <2>9
<1>10. ASSUME NEW t \in Threads, Begin(t) \/ Record(t) PROVE UNCHANGED <<page, conn>>
  BY <1>10 DEF Begin, Record, BumpSeries, SeriesDone, BumpBucket, BumpCount, LoadSum, ExchangeSum,
               GetExit, CheckLen, InsertExit, endpoint
<1>. QED
  BY <1>2, <1>6, <1>7, <1>8, <1>9, <1>10 DEF Next, vars, endpoint, Serve

TearInv ==
  CountsInv /\ ExitsKept /\ ConnStates /\ Slots /\ PageTypes /\ PagesKept

LEMMA InitTear == Init => TearInv
<1>. SUFFICES ASSUME Init PROVE TearInv
  OBVIOUS
<1>1. CountsInv /\ ExitsKept /\ ConnStates /\ Slots
  BY InitCounts, InitExits, InitSlots
<1>2. PageTypes
  BY DEF Init, PageTypes
<1>3. PagesKept
  <2>1. \A c \in Conns : page[c] = <<>> /\ conn[c] = "closed"
    BY DEF Init
  <2>2. PageShape(<<>>, "closed")
    BY DEF PageShape
  <2>. QED
    BY <2>1, <2>2, EmptyPage DEF PagesKept
<1>. QED
  BY <1>1, <1>2, <1>3 DEF TearInv

LEMMA TearStep == TearInv /\ [Next]_vars => TearInv'
<1>. SUFFICES ASSUME TearInv, [Next]_vars PROVE TearInv'
  OBVIOUS
<1>1. CountsInv /\ ExitsKept /\ ConnStates /\ Slots /\ PageTypes /\ PagesKept
  BY DEF TearInv
<1>2. TaskTypes /\ RegisterTypes /\ SumTypes /\ Counters(exits) /\ BucketsCounted
  BY <1>1 DEF CountsInv, ExitsKept
<1>3. CountsInv' /\ ExitsKept' /\ ConnStates' /\ Slots'
  BY <1>1, <1>2, CountsStep, ExitsStep, SlotsStep
<1>4. PageTypes' /\ PagesKept'
  BY <1>1, <1>2, PagesStep
<1>. QED
  BY <1>3, <1>4 DEF TearInv

LEMMA TearHolds == TearInv => TearBounded
<1>. SUFFICES ASSUME TearInv, NEW c \in Conns, NEW h \in Hists, Rendered(page[c], h)
              PROVE  Under(page[c], h) <= OnPage(page[c], <<"count", h>>) + Cardinality(Threads)
  BY DEF TearBounded
<1>1. h \in Drawn /\ \A i \in Places(ToSet(HistItems(h))) : i <= Len(page[c])
  BY DEF Rendered, Drawn
<1>2. /\ CountAt(h) \in 1..Len(RenderOrder) /\ RenderOrder[CountAt(h)] = CountItem(h)
  BY <1>1, PlacesOnPage
<1>3. CountItem(h) \in ToSet(HistItems(h))
  <2>1. /\ HistItems(h) = HistOrder(h) /\ DOMAIN HistOrder(h) = 1..Width
        /\ HistOrder(h)[Len(Bounds) + 1] = CountItem(h) /\ Len(Bounds) + 1 \in 1..Width
    BY <1>1, RowOf
  <2>. QED
    BY <2>1 DEF ToSet
<1>4. CountAt(h) <= Len(page[c])
  BY <1>1, <1>2, <1>3 DEF Places
<1>5. SumOver(Marks(page[c], h), Bucket) <= page[c][CountAt(h)] + Cardinality(Threads)
  BY <1>1, <1>4 DEF TearInv, PagesKept, Loaded
<1>6. OnPage(page[c], <<"count", h>>) = page[c][CountAt(h)]
  BY DEF OnPage, CountAt, CountItem
<1>. QED
  BY <1>5, <1>6, UnderIsSum

\* render loads a histogram's buckets before its count and without a lock: a page
\* may have observations in buckets that its count lacks, but no more of them than
\* there are tasks.
THEOREM TearsAreBounded == Spec => []TearBounded
BY InitTear, TearStep, TearHolds, PTL DEF Spec
=============================================================================
