---------------------------- MODULE CacheProofs ----------------------------
(***************************************************************************)
(* Proofs about Cache for any threads, controls, keys, sizes and budget:   *)
(* no entry is freed under a user, a resource is loaded by one thread at a *)
(* time, nobody is given partial data, and the byte count is exact.  The   *)
(* recursion of Without and of SizeOf is reasoned about with the least     *)
(* counterexample: LeastSet and Least take the place of an induction.      *)
(***************************************************************************)
EXTENDS Cache, FiniteSetTheorems, FunctionTheorems, WellFoundedInduction, TLAPS

Steps == {"outside", "loading", "waiting", "trimming", "resetting", "crashed"}

\* A thread inside a call is there with a control of its own.
Calls ==
    /\ pc \in [Thread -> Steps]
    /\ control = [t \in Thread |-> control[t]]
    /\ \A t \in Thread : pc[t] # "outside" => control[t] \in Control /\ Owner[control[t]] = t

Fields ==
    /\ lru \in Seq(Key)
    /\ load \in [Key -> {"loading", "complete", "failed"}]
    /\ bytes \in [Key -> Nat]
    /\ ResidentBytes \in Int
    /\ CacheKey \in [Control -> Key \cup {NoKey}]
    /\ BoundData \in [Control -> Key \cup {NoKey}]
    /\ RetainCount \in [Control -> Nat]
    /\ answer \in [Control -> {"none", "data", "raised"}]

\* An entry that a control names is in the list; a control that pins something
\* names it; who loads or waits has pinned, who resets has not.
Pins ==
    /\ \A c \in Control : BoundData[c] # NoKey => BoundData[c] \in Resident
    /\ \A c \in Control : RetainCount[c] > 0 => BoundData[c] # NoKey
    /\ \A t \in Thread : pc[t] \in {"loading", "waiting"} => RetainCount[control[t]] > 0
    /\ \A t \in Thread : pc[t] = "resetting" => RetainCount[control[t]] = 0

\* An entry whose event is not set has one thread that loads it.
Loaders ==
    /\ \A t \in Thread : pc[t] = "loading" => load[BoundData[control[t]]] = "loading"
    /\ \A k \in Resident : load[k] = "loading" =>
          \E t \in Thread : pc[t] = "loading" /\ BoundData[control[t]] = k
    /\ \A t, u \in Thread :
          pc[t] = "loading" /\ pc[u] = "loading" /\ t # u =>
             BoundData[control[t]] # BoundData[control[u]]

\* The control of an entry that is being loaded belongs to a thread that is
\* inside the call for it, as the loader or as one that waits.
Waiters ==
    \A c \in Control : BoundData[c] # NoKey /\ load[BoundData[c]] = "loading" =>
        pc[Owner[c]] \in {"loading", "waiting"} /\ control[Owner[c]] = c

\* What DataAreWhole and CountIsExact say of a state that is not astray.
Whole ==
    \A c \in Control : answer[c] = "data" /\ RetainCount[c] > 0 => load[BoundData[c]] = "complete"

Exact == ResidentBytes = SizeOf({k \in Resident : load[k] # "loading"})

\* No thread is astray here: Steps has no such step.
Sound == /\ Fields /\ Calls /\ Pins /\ Loaders /\ Waiters
         /\ IsInjective(lru) /\ Whole /\ Exact

IInv == Astray \/ Sound

-----------------------------------------------------------------------------
(* Least sets and least numbers *)

\* A family of finite sets has a least one.
LEMMA LeastSet ==
    ASSUME NEW U, NEW F \in SUBSET FiniteSubsetsOf(U), F # {}
    PROVE  \E S \in F : \A T \in F : T \subseteq S => T = S
<1> DEFINE R == StrictSubsetOrdering(U)
<1>1. IsWellFoundedOn(R, FiniteSubsetsOf(U))
  BY FS_StrictSubsetOrderingWellFounded
<1>2. \E S \in F : \A T \in F : ~ (<<T, S>> \in R)
  <2> HIDE DEF R
  <2> QED BY <1>1, WFMin
<1>3. PICK S \in F : \A T \in F : ~ (<<T, S>> \in R)
  BY <1>2
<1>4. ASSUME NEW T \in F, T \subseteq S, T # S  PROVE FALSE
  <2>1. <<T, S>> \in (SUBSET U) \X (SUBSET U)
    BY DEF FiniteSubsetsOf
  <2>2. <<T, S>> \in R
    BY <1>4, <2>1 DEF StrictSubsetOrdering
  <2> QED BY <1>3, <2>2
<1> QED BY <1>4

\* A set of numbers has a least one: the interval up to it is the least set.
LEMMA Least == ASSUME NEW S \in SUBSET Nat, S # {}  PROVE \E m \in S : \A k \in S : m <= k
<1> DEFINE F == {0 .. m : m \in S}
<1>1. ASSUME NEW m \in S  PROVE 0 .. m \in FiniteSubsetsOf(Nat)
  <2>1. IsFiniteSet(0 .. m)
    BY FS_Interval
  <2> QED BY <2>1 DEF FiniteSubsetsOf
<1>2. F \in SUBSET FiniteSubsetsOf(Nat) /\ F # {}
  BY <1>1
<1>3. \E x \in F : \A y \in F : y \subseteq x => y = x
  <2> HIDE DEF F
  <2> QED BY <1>2, LeastSet
<1>4. PICK m \in S : \A k \in S : 0 .. k \subseteq 0 .. m => 0 .. k = 0 .. m
  <2>1. PICK x \in F : \A y \in F : y \subseteq x => y = x
    BY <1>3
  <2>2. PICK m \in S : x = 0 .. m
    BY <2>1
  <2>3. \A k \in S : 0 .. k \in F
    OBVIOUS
  <2> HIDE DEF F
  <2> QED BY <2>1, <2>2, <2>3
<1>5. ASSUME NEW k \in S, k < m  PROVE FALSE
  <2>1. 0 .. k \subseteq 0 .. m /\ m \in 0 .. m /\ m \notin 0 .. k
    BY <1>5
  <2> QED BY <1>4, <2>1
<1> QED BY <1>5

-----------------------------------------------------------------------------
(* The sum of b over a finite set, as SizeOf computes it *)

Pick(s) == CHOOSE x \in s : TRUE

IsSum(f, b, S) ==
    f = [s \in SUBSET S |-> IF s = {} THEN 0 ELSE b[Pick(s)] + f[s \ {Pick(s)}]]

Total(b, S) == (CHOOSE f : IsSum(f, b, S))[S]

\* SizeOf is that sum, in this state and in the next one.
LEMMA SizeIsTotal == \A S : SizeOf(S) = Total(bytes, S)
BY DEF SizeOf, MapThenSumSet, MapThenFoldSet, Total, IsSum, Pick

LEMMA SizeIsTotalNext == \A S : SizeOf(S)' = Total(bytes', S)
BY DEF SizeOf, MapThenSumSet, MapThenFoldSet, Total, IsSum, Pick

\* The equation of the recursion.
LEMMA SumStep ==
    ASSUME NEW b, NEW S, NEW f, IsSum(f, b, S), NEW s \in SUBSET S
    PROVE  f[s] = IF s = {} THEN 0 ELSE b[Pick(s)] + f[s \ {Pick(s)}]
BY DEF IsSum

\* Two solutions agree on the finite sets that both are about.
LEMMA SumsAgree ==
    ASSUME NEW b, NEW S, NEW T, NEW f, NEW g, IsSum(f, b, S), IsSum(g, b, T),
           NEW U \in SUBSET (S \cap T), IsFiniteSet(U)
    PROVE  f[U] = g[U]
<1> DEFINE Bad == {s \in FiniteSubsetsOf(U) : f[s] # g[s]}
<1> SUFFICES ASSUME f[U] # g[U]  PROVE FALSE
  OBVIOUS
<1>1. Bad \in SUBSET FiniteSubsetsOf(U) /\ Bad # {}
  BY DEF FiniteSubsetsOf
<1>2. \E s \in Bad : \A t \in Bad : t \subseteq s => t = s
  <2> HIDE DEF Bad
  <2> QED BY <1>1, LeastSet
<1>3. PICK s \in Bad : \A t \in Bad : t \subseteq s => t = s
  BY <1>2
<1>4. s \in SUBSET S /\ s \in SUBSET T /\ IsFiniteSet(s) /\ s \in SUBSET U
  BY DEF FiniteSubsetsOf
<1> DEFINE x == Pick(s)
<1>5. s # {}
  <2>1. s = {} => f[s] = 0 /\ g[s] = 0
    BY <1>4, SumStep
  <2> QED BY <2>1
<1>6. x \in s
  BY <1>5 DEF Pick
<1>7. s \ {x} \in FiniteSubsetsOf(U)
  BY <1>4, FS_RemoveElement DEF FiniteSubsetsOf
<1>8. f[s \ {x}] = g[s \ {x}]
  <2>1. s \ {x} \subseteq s /\ s \ {x} # s
    BY <1>6
  <2>2. s \ {x} \notin Bad
    BY <2>1, <1>3
  <2> QED BY <2>2, <1>7
<1>9. f[s] = b[x] + f[s \ {x}] /\ g[s] = b[x] + g[s \ {x}]
  BY <1>4, <1>5, SumStep
<1> QED BY <1>8, <1>9

\* There is a solution for every finite set.
LEMMA SumExists == ASSUME NEW b, NEW S, IsFiniteSet(S)  PROVE \E f : IsSum(f, b, S)
<1> DEFINE Bad == {s \in FiniteSubsetsOf(S) : ~ \E f : IsSum(f, b, s)}
<1> SUFFICES ASSUME ~ \E f : IsSum(f, b, S)  PROVE FALSE
  OBVIOUS
<1>1. Bad \in SUBSET FiniteSubsetsOf(S) /\ Bad # {}
  BY DEF FiniteSubsetsOf
<1>2. \E s \in Bad : \A t \in Bad : t \subseteq s => t = s
  <2> HIDE DEF Bad
  <2> QED BY <1>1, LeastSet
<1>3. PICK s \in Bad : \A t \in Bad : t \subseteq s => t = s
  BY <1>2
<1>4. IsFiniteSet(s) /\ s \in SUBSET S
  BY DEF FiniteSubsetsOf
<1>5. ASSUME NEW t \in SUBSET s, t # s
      PROVE  IsFiniteSet(t) /\ IsSum(CHOOSE f : IsSum(f, b, t), b, t)
  <2>1. IsFiniteSet(t) /\ t \in FiniteSubsetsOf(S)
    BY <1>4, FS_Subset DEF FiniteSubsetsOf
  <2>2. t \notin Bad
    BY <1>5, <1>3
  <2>3. \E f : IsSum(f, b, t)
    BY <2>1, <2>2
  <2> QED BY <2>1, <2>3
<1> DEFINE next(t) == IF t = {} THEN 0 ELSE b[Pick(t)] + Total(b, t \ {Pick(t)})
           F == [t \in SUBSET s |-> next(t)]
<1>6. ASSUME NEW t \in SUBSET s, t # s  PROVE F[t] = Total(b, t)
  <2> DEFINE g == CHOOSE f : IsSum(f, b, t)
  <2>1. IsSum(g, b, t) /\ IsFiniteSet(t)
    BY <1>5, <1>6
  <2>2. Total(b, t) = g[t]
    BY DEF Total
  <2> HIDE DEF g
  <2>3. g[t] = IF t = {} THEN 0 ELSE b[Pick(t)] + g[t \ {Pick(t)}]
    BY <2>1, SumStep
  <2>4. ASSUME t # {}  PROVE g[t \ {Pick(t)}] = Total(b, t \ {Pick(t)})
    <3> DEFINE u == t \ {Pick(t)}
               h == CHOOSE f : IsSum(f, b, u)
    <3>1. u \in SUBSET s /\ u # s /\ u \subseteq t
      BY <1>6, <2>4 DEF Pick
    <3>2. IsSum(h, b, u) /\ IsFiniteSet(u)
      <4> HIDE DEF u
      <4> QED BY <3>1, <1>5
    <3>3. Total(b, u) = h[u]
      BY DEF Total
    <3> HIDE DEF h, u
    <3>4. g[u] = h[u]
      BY <2>1, <3>1, <3>2, SumsAgree
    <3> QED BY <3>3, <3>4 DEF u
  <2> QED BY <1>6, <2>2, <2>3, <2>4
<1>7. ASSUME NEW t \in SUBSET s, t # {}  PROVE F[t \ {Pick(t)}] = Total(b, t \ {Pick(t)})
  <2>1. Pick(t) \in t
    BY <1>7 DEF Pick
  <2>2. t \ {Pick(t)} \in SUBSET s /\ t \ {Pick(t)} # s
    BY <2>1
  <2> HIDE DEF F
  <2> QED BY <1>6, <2>2
<1>8. IsSum(F, b, s)
  <2>1. F = [t \in SUBSET s |-> IF t = {} THEN 0 ELSE b[Pick(t)] + F[t \ {Pick(t)}]]
    <3>1. \A t \in SUBSET s : next(t) = IF t = {} THEN 0 ELSE b[Pick(t)] + F[t \ {Pick(t)}]
      <4> HIDE DEF F
      <4> QED BY <1>7
    <3> HIDE DEF next
    <3>2. F = [t \in SUBSET s |-> next(t)]
      OBVIOUS
    <3> HIDE DEF F
    <3> QED BY <3>1, <3>2
  <2> QED BY <2>1 DEF IsSum
<1> HIDE DEF F
<1> QED BY <1>3, <1>8

\* The sum obeys the equation.
LEMMA TotalStep ==
    ASSUME NEW b, NEW S, IsFiniteSet(S)
    PROVE  Total(b, S) = IF S = {} THEN 0 ELSE b[Pick(S)] + Total(b, S \ {Pick(S)})
<1> DEFINE U == S \ {Pick(S)}
           f == CHOOSE h : IsSum(h, b, S)
           g == CHOOSE h : IsSum(h, b, U)
<1>1. IsFiniteSet(U) /\ U \subseteq S
  BY FS_RemoveElement
<1>2. IsSum(f, b, S)
  BY SumExists
<1>3. IsSum(g, b, U)
  BY <1>1, SumExists
<1>4. Total(b, S) = f[S] /\ Total(b, U) = g[U]
  BY DEF Total
<1> HIDE DEF f, g
<1>5. f[S] = IF S = {} THEN 0 ELSE b[Pick(S)] + f[U]
  BY <1>2, SumStep
<1>6. f[U] = g[U]
  <2> HIDE DEF U
  <2> QED BY <1>1, <1>2, <1>3, SumsAgree
<1> QED BY <1>4, <1>5, <1>6

\* Any element can be taken out of a sum first.
LEMMA TotalWithout ==
    ASSUME NEW b, NEW S, IsFiniteSet(S), \A x \in S : b[x] \in Int
    PROVE  /\ Total(b, S) \in Int
           /\ \A x \in S : Total(b, S) = b[x] + Total(b, S \ {x})
<1> DEFINE Good(s) == /\ Total(b, s) \in Int
                      /\ \A x \in s : Total(b, s) = b[x] + Total(b, s \ {x})
           Bad == {s \in FiniteSubsetsOf(S) : ~ Good(s)}
<1> SUFFICES ASSUME ~ Good(S)  PROVE FALSE
  OBVIOUS
<1>1. Bad \in SUBSET FiniteSubsetsOf(S) /\ Bad # {}
  BY DEF FiniteSubsetsOf
<1>2. \E s \in Bad : \A t \in Bad : t \subseteq s => t = s
  <2> HIDE DEF Bad
  <2> QED BY <1>1, LeastSet
<1>3. PICK s \in Bad : \A t \in Bad : t \subseteq s => t = s
  BY <1>2
<1>4. IsFiniteSet(s) /\ s \in SUBSET S /\ ~ Good(s)
  BY DEF FiniteSubsetsOf
<1>5. ASSUME NEW t \in SUBSET s, t # s  PROVE Good(t)
  <2>1. t \in FiniteSubsetsOf(S)
    BY <1>4, FS_Subset DEF FiniteSubsetsOf
  <2> HIDE DEF Good
  <2> QED BY <1>3, <1>5, <2>1
<1> DEFINE y == Pick(s)
<1>6. s # {}
  <2>1. s = {} => Total(b, s) = 0
    BY <1>4, TotalStep
  <2> QED BY <1>4, <2>1
<1>7. y \in s /\ b[y] \in Int
  BY <1>4, <1>6 DEF Pick
<1>8. Total(b, s) = b[y] + Total(b, s \ {y})
  BY <1>4, <1>6, TotalStep
<1> HIDE DEF y
<1>9. Total(b, s \ {y}) \in Int
  BY <1>5, <1>7
<1>10. ASSUME NEW x \in s, x # y  PROVE Total(b, s) = b[x] + Total(b, s \ {x})
  <2>1. Good(s \ {y}) /\ Good(s \ {x})
    BY <1>5, <1>7
  <2>2. Total(b, s \ {y}) = b[x] + Total(b, (s \ {y}) \ {x})
    BY <1>10, <2>1
  <2>3. Total(b, s \ {x}) = b[y] + Total(b, (s \ {x}) \ {y})
    BY <1>7, <1>10, <2>1
  <2>4. (s \ {y}) \ {x} = (s \ {x}) \ {y}
    OBVIOUS
  <2>5. Total(b, (s \ {x}) \ {y}) \in Int
    <3>1. (s \ {x}) \ {y} \in SUBSET s /\ (s \ {x}) \ {y} # s
      BY <1>7
    <3> QED BY <3>1, <1>5
  <2>6. b[x] \in Int
    BY <1>4
  <2>7. PICK n \in Int : n = Total(b, (s \ {x}) \ {y})
    BY <2>5
  <2>8. Total(b, s \ {x}) = b[y] + n /\ Total(b, s \ {y}) = b[x] + n
    BY <2>2, <2>3, <2>4, <2>7
  <2> HIDE DEF Good, Bad
  <2> QED BY <1>7, <1>8, <2>6, <2>8
<1> QED BY <1>4, <1>7, <1>8, <1>9, <1>10

\* Nothing adds up to 0.
LEMMA TotalEmpty == ASSUME NEW b  PROVE Total(b, {}) = 0
BY FS_EmptySet, TotalStep

\* The sum depends on what b is on the set only.
LEMMA TotalSame ==
    ASSUME NEW b, NEW d, NEW S, IsFiniteSet(S), \A x \in S : b[x] = d[x]
    PROVE  Total(b, S) = Total(d, S)
<1> DEFINE Bad == {s \in FiniteSubsetsOf(S) : Total(b, s) # Total(d, s)}
<1> SUFFICES ASSUME Total(b, S) # Total(d, S)  PROVE FALSE
  OBVIOUS
<1>1. Bad \in SUBSET FiniteSubsetsOf(S) /\ Bad # {}
  BY DEF FiniteSubsetsOf
<1>2. \E s \in Bad : \A t \in Bad : t \subseteq s => t = s
  <2> HIDE DEF Bad
  <2> QED BY <1>1, LeastSet
<1>3. PICK s \in Bad : \A t \in Bad : t \subseteq s => t = s
  BY <1>2
<1>4. IsFiniteSet(s) /\ s \in SUBSET S /\ Total(b, s) # Total(d, s)
  BY DEF FiniteSubsetsOf
<1>5. s # {}
  BY <1>4, TotalEmpty
<1> DEFINE y == Pick(s)
<1>6. y \in s /\ b[y] = d[y]
  BY <1>4, <1>5 DEF Pick
<1>7. s \ {y} \in FiniteSubsetsOf(S)
  BY <1>4, FS_RemoveElement DEF FiniteSubsetsOf
<1>8. Total(b, s \ {y}) = Total(d, s \ {y})
  <2>1. s \ {y} \notin Bad
    <3>1. s \ {y} \subseteq s /\ s \ {y} # s
      BY <1>6
    <3> QED BY <3>1, <1>3
  <2> QED BY <2>1, <1>7
<1>9. Total(b, s) = b[y] + Total(b, s \ {y}) /\ Total(d, s) = d[y] + Total(d, s \ {y})
  BY <1>4, <1>5, TotalStep
<1> QED BY <1>4, <1>6, <1>8, <1>9

\* What part of a set adds up to, and the rest of it.
LEMMA TotalSplit ==
    ASSUME NEW b, NEW S, IsFiniteSet(S), \A x \in S : b[x] \in Int, NEW T \in SUBSET S
    PROVE  Total(b, S \ T) = Total(b, S) - Total(b, T)
<1> DEFINE Bad == {t \in FiniteSubsetsOf(T) : Total(b, S \ t) # Total(b, S) - Total(b, t)}
<1> SUFFICES ASSUME Total(b, S \ T) # Total(b, S) - Total(b, T)  PROVE FALSE
  OBVIOUS
<1>0. IsFiniteSet(T)
  BY FS_Subset
<1>1. Bad \in SUBSET FiniteSubsetsOf(T) /\ Bad # {}
  BY <1>0 DEF FiniteSubsetsOf
<1>2. \E s \in Bad : \A t \in Bad : t \subseteq s => t = s
  <2> HIDE DEF Bad
  <2> QED BY <1>1, LeastSet
<1>3. PICK s \in Bad : \A t \in Bad : t \subseteq s => t = s
  BY <1>2
<1>4. IsFiniteSet(s) /\ s \in SUBSET T /\ Total(b, S \ s) # Total(b, S) - Total(b, s)
  BY DEF FiniteSubsetsOf
<1>5. s # {}
  <2>1. Total(b, S) \in Int
    BY TotalWithout
  <2>2. ASSUME s = {}  PROVE FALSE
    <3>1. S \ s = S
      BY <2>2
    <3>2. Total(b, S) # Total(b, S) - 0
      BY <1>4, <2>2, <3>1, TotalEmpty
    <3> QED BY <2>1, <3>2
  <2> QED BY <2>2
<1>6. PICK y \in s : TRUE
  BY <1>5
<1> DEFINE r == s \ {y}
<1>7. r \in FiniteSubsetsOf(T) /\ r \subseteq s /\ r # s
  BY <1>4, <1>6, FS_RemoveElement DEF FiniteSubsetsOf
<1>8. Total(b, S \ r) = Total(b, S) - Total(b, r)
  <2> HIDE DEF r
  <2>1. r \notin Bad
    BY <1>7, <1>3
  <2> QED BY <2>1, <1>7
<1>9. IsFiniteSet(S \ r) /\ IsFiniteSet(S \ s) /\ IsFiniteSet(r)
  <2>1. S \ r \in SUBSET S /\ S \ s \in SUBSET S /\ r \in SUBSET S
    BY <1>4
  <2> HIDE DEF r
  <2> QED BY <2>1, FS_Subset
<1>10. Total(b, s) = b[y] + Total(b, r) /\ Total(b, r) \in Int
  <2>1. \A x \in s : b[x] \in Int
    BY <1>4
  <2>2. Total(b, s) = b[y] + Total(b, r)
    BY <1>4, <2>1, TotalWithout
  <2>3. \A x \in r : b[x] \in Int
    BY <2>1
  <2>4. Total(b, r) \in Int
    <3> HIDE DEF r
    <3> QED BY <1>9, <2>3, TotalWithout
  <2> QED BY <2>2, <2>4
<1>11. Total(b, S \ r) = b[y] + Total(b, S \ s) /\ Total(b, S \ s) \in Int
  <2>1. \A x \in S \ r : b[x] \in Int
    OBVIOUS
  <2>2. y \in S \ r /\ (S \ r) \ {y} = S \ s
    BY <1>4, <1>6
  <2>3. Total(b, S \ r) = b[y] + Total(b, (S \ r) \ {y})
    <3> HIDE DEF r
    <3> QED BY <1>9, <2>1, <2>2, TotalWithout
  <2>4. \A x \in S \ s : b[x] \in Int
    OBVIOUS
  <2>5. Total(b, S \ s) \in Int
    BY <1>9, <2>4, TotalWithout
  <2> QED BY <2>2, <2>3, <2>5
<1>12. Total(b, S) \in Int /\ b[y] \in Int
  BY <1>4, TotalWithout
<1> HIDE DEF r
<1> QED BY <1>4, <1>8, <1>10, <1>11, <1>12

-----------------------------------------------------------------------------
(* The list without some of its entries *)

Kept(f, s, ks, n) ==
    f = [i \in 0 .. n |->
            IF i = 0 THEN <<>>
            ELSE IF s[i] \in ks THEN f[i - 1] ELSE Append(f[i - 1], s[i])]

\* The recursion of Without has a solution.
LEMMA KeptExists == ASSUME NEW s, NEW ks, NEW n \in Nat  PROVE \E f : Kept(f, s, ks, n)
<1> DEFINE Bad == {i \in Nat : ~ \E f : Kept(f, s, ks, i)}
<1> SUFFICES ASSUME Bad # {}  PROVE FALSE
  OBVIOUS
<1>1. PICK m \in Bad : \A i \in Bad : m <= i
  <2>1. Bad \in SUBSET Nat
    OBVIOUS
  <2> HIDE DEF Bad
  <2> QED BY <2>1, Least
<1>2. m \in Nat /\ ~ \E f : Kept(f, s, ks, m)
  OBVIOUS
<1>3. CASE m = 0
  <2>1. Kept([i \in 0 .. 0 |-> <<>>], s, ks, 0)
    BY DEF Kept
  <2> QED BY <1>2, <1>3, <2>1
<1>4. CASE m # 0
  <2>1. m - 1 \in Nat /\ m - 1 \notin Bad
    BY <1>1, <1>2, <1>4
  <2>2. PICK f : Kept(f, s, ks, m - 1)
    BY <2>1
  <2> DEFINE next == IF s[m] \in ks THEN f[m - 1] ELSE Append(f[m - 1], s[m])
             g == [i \in 0 .. m |-> IF i = m THEN next ELSE f[i]]
  <2>3. ASSUME NEW i \in 0 .. m
        PROVE  g[i] = IF i = 0 THEN <<>>
                      ELSE IF s[i] \in ks THEN g[i - 1] ELSE Append(g[i - 1], s[i])
    <3>1. CASE i = m
      <4>1. m - 1 \in 0 .. m /\ m - 1 # m
        BY <1>2, <1>4
      <4> QED BY <1>4, <3>1, <4>1
    <3>2. CASE i # m
      <4>1. i \in 0 .. (m - 1)
        BY <1>2, <3>2
      <4>2. f[i] = IF i = 0 THEN <<>>
                   ELSE IF s[i] \in ks THEN f[i - 1] ELSE Append(f[i - 1], s[i])
        BY <2>2, <4>1 DEF Kept
      <4>3. i # 0 => i - 1 \in 0 .. m /\ i - 1 # m
        BY <1>2, <4>1
      <4> QED BY <3>2, <4>2, <4>3
    <3> QED BY <3>1, <3>2
  <2>4. g = [i \in 0 .. m |-> g[i]]
    OBVIOUS
  <2>5. Kept(g, s, ks, m)
    <3> HIDE DEF g
    <3> QED BY <2>3, <2>4 DEF Kept
  <2> HIDE DEF g
  <2> QED BY <1>2, <2>5
<1> QED BY <1>3, <1>4

\* A list with one more entry, at its end or at its head.
LEMMA AppendRange ==
    ASSUME NEW X, NEW s \in Seq(X), NEW x \in X
    PROVE  /\ Append(s, x) \in Seq(X)
           /\ Range(Append(s, x)) = Range(s) \cup {x}
           /\ IsInjective(s) /\ x \notin Range(s) => IsInjective(Append(s, x))
<1> DEFINE t == Append(s, x)
<1>1. t \in Seq(X) /\ DOMAIN t = 1 .. (Len(s) + 1) /\ DOMAIN s = 1 .. Len(s)
  OBVIOUS
<1>2. t[Len(s) + 1] = x /\ \A i \in 1 .. Len(s) : t[i] = s[i]
  OBVIOUS
<1>3. DOMAIN t = DOMAIN s \cup {Len(s) + 1} /\ Len(s) \in Nat
  BY <1>1
<1> HIDE DEF t
<1>4. Range(t) = Range(s) \cup {x}
  BY <1>1, <1>2, <1>3 DEF Range
<1>5. ASSUME IsInjective(s), x \notin Range(s), NEW i \in DOMAIN t, NEW j \in DOMAIN t, t[i] = t[j]
      PROVE  i = j
  BY <1>5, <1>1, <1>2, <1>3 DEF IsInjective, Range
<1>6. IsInjective(s) /\ x \notin Range(s) => IsInjective(t)
  BY <1>5 DEF IsInjective
<1> QED BY <1>1, <1>4, <1>6 DEF t

LEMMA PrependRange ==
    ASSUME NEW X, NEW s \in Seq(X), NEW x \in X
    PROVE  /\ <<x>> \o s \in Seq(X)
           /\ Range(<<x>> \o s) = Range(s) \cup {x}
           /\ IsInjective(s) /\ x \notin Range(s) => IsInjective(<<x>> \o s)
<1> DEFINE t == <<x>> \o s
<1>1. t \in Seq(X) /\ DOMAIN t = 1 .. (Len(s) + 1) /\ DOMAIN s = 1 .. Len(s) /\ Len(s) \in Nat
  OBVIOUS
<1>2. t[1] = x /\ \A i \in 1 .. Len(s) : t[i + 1] = s[i]
  OBVIOUS
<1> HIDE DEF t
<1>3. \A i \in DOMAIN t : i # 1 => i - 1 \in DOMAIN s /\ t[i] = s[i - 1]
  <2> SUFFICES ASSUME NEW i \in DOMAIN t, i # 1  PROVE i - 1 \in DOMAIN s /\ t[i] = s[i - 1]
    OBVIOUS
  <2>1. i - 1 \in 1 .. Len(s) /\ (i - 1) + 1 = i
    BY <1>1
  <2> QED BY <1>1, <1>2, <2>1
<1>4. \A i \in DOMAIN s : i + 1 \in DOMAIN t /\ t[i + 1] = s[i]
  BY <1>1, <1>2
<1>5. 1 \in DOMAIN t
  BY <1>1
<1>6. Range(t) = Range(s) \cup {x}
  BY <1>2, <1>3, <1>4, <1>5 DEF Range
<1>7. ASSUME IsInjective(s), x \notin Range(s), NEW i \in DOMAIN t, NEW j \in DOMAIN t, t[i] = t[j]
      PROVE  i = j
  <2>1. CASE i = 1 \/ j = 1
    BY <1>2, <1>3, <1>7, <2>1 DEF Range
  <2>2. CASE i # 1 /\ j # 1
    <3>1. i - 1 = j - 1
      BY <1>3, <1>7, <2>2 DEF IsInjective
    <3> QED BY <1>1, <3>1
  <2> QED BY <2>1, <2>2
<1>8. IsInjective(s) /\ x \notin Range(s) => IsInjective(t)
  BY <1>7 DEF IsInjective
<1> QED BY <1>1, <1>6, <1>8 DEF t

\* Without keeps the other entries, each as often as it was there.
LEMMA WithoutMeans ==
    ASSUME lru \in Seq(Key), NEW ks
    PROVE  /\ Without(ks) \in Seq(Key)
           /\ Range(Without(ks)) = Resident \ ks
           /\ IsInjective(lru) => IsInjective(Without(ks))
<1> DEFINE n == Len(lru)
           f == CHOOSE h : Kept(h, lru, ks, n)
           First(i) == {lru[j] : j \in 1 .. i}
           Good(i) == /\ f[i] \in Seq(Key)
                      /\ Range(f[i]) = First(i) \ ks
                      /\ IsInjective(lru) => IsInjective(f[i])
           Bad == {i \in 0 .. n : ~ Good(i)}
<1>1. Without(ks) = f[n]
  BY DEF Without, Kept
<1>2. n \in Nat /\ DOMAIN lru = 1 .. n /\ \A i \in 1 .. n : lru[i] \in Key
  OBVIOUS
<1>3. Kept(f, lru, ks, n)
  <2>1. \E g : Kept(g, lru, ks, n)
    BY <1>2, KeptExists
  <2> HIDE DEF n
  <2> QED BY <2>1
<1> HIDE DEF f, n
<1>4. \A i \in 0 .. n :
         f[i] = IF i = 0 THEN <<>>
                ELSE IF lru[i] \in ks THEN f[i - 1] ELSE Append(f[i - 1], lru[i])
  BY <1>3 DEF Kept
<1>5. ASSUME Bad # {}  PROVE FALSE
  <2>1. PICK m \in Bad : \A i \in Bad : m <= i
    <3>1. Bad \in SUBSET Nat
      BY <1>2
    <3> HIDE DEF Bad
    <3> QED BY <1>5, <3>1, Least
  <2>2. m \in 0 .. n /\ ~ Good(m)
    OBVIOUS
  <2>3. m # 0
    <3> SUFFICES ASSUME m = 0  PROVE Good(0)
      BY <2>2
    <3>1. f[0] = <<>>
      BY <1>2, <1>4
    <3>2. Range(<<>>) = {} /\ IsInjective(<<>>)
      BY DEF Range, IsInjective
    <3>3. First(0) = {}
      OBVIOUS
    <3>4. <<>> \in Seq(Key)
      OBVIOUS
    <3> QED BY <3>1, <3>2, <3>3, <3>4
  <2>4. m - 1 \in 0 .. n /\ m \in 1 .. n /\ m - 1 < m
    BY <1>2, <2>2, <2>3
  <2>5. Good(m - 1)
    <3>1. m - 1 \notin Bad
      <4> HIDE DEF Bad
      <4> QED BY <1>2, <2>1, <2>2, <2>4
    <3> QED BY <2>4, <3>1
  <2>6. First(m) = First(m - 1) \cup {lru[m]}
    <3>1. 1 .. m = (1 .. (m - 1)) \cup {m}
      BY <2>4, <1>2
    <3> QED BY <3>1
  <2>7. lru[m] \notin First(m - 1) \/ ~ IsInjective(lru)
    <3>1. \A j \in 1 .. (m - 1) : j \in DOMAIN lru /\ j # m
      BY <1>2, <2>4
    <3> QED BY <1>2, <2>4, <3>1 DEF IsInjective
  <2> HIDE DEF First
  <2>8. CASE lru[m] \in ks
    <3>1. f[m] = f[m - 1]
      BY <1>4, <2>2, <2>3, <2>8
    <3>2. First(m) \ ks = First(m - 1) \ ks
      BY <2>6, <2>8
    <3> QED BY <2>2, <2>5, <3>1, <3>2
  <2>9. CASE lru[m] \notin ks
    <3>1. f[m] = Append(f[m - 1], lru[m])
      BY <1>4, <2>2, <2>3, <2>9
    <3>2. First(m) \ ks = (First(m - 1) \ ks) \cup {lru[m]}
      BY <2>6, <2>9
    <3>3. lru[m] \in Key
      BY <1>2, <2>4
    <3> DEFINE s == f[m - 1]
               x == lru[m]
    <3>4. s \in Seq(Key) /\ Range(s) = First(m - 1) \ ks /\ (IsInjective(lru) => IsInjective(s))
      BY <2>5
    <3> HIDE DEF s, x
    <3>5. /\ Append(s, x) \in Seq(Key) /\ Range(Append(s, x)) = Range(s) \cup {x}
          /\ IsInjective(s) /\ x \notin Range(s) => IsInjective(Append(s, x))
      <4>1. x \in Key
        BY <3>3 DEF x
      <4> QED BY <3>4, <4>1, AppendRange
    <3>6. IsInjective(lru) => x \notin Range(s)
      BY <2>7, <3>4 DEF x
    <3>7. Good(m)
      BY <3>1, <3>2, <3>4, <3>5, <3>6 DEF s, x
    <3> QED BY <2>2, <3>7
  <2> QED BY <2>8, <2>9
<1>6. Good(n)
  <2>1. n \notin Bad /\ n \in 0 .. n
    BY <1>2, <1>5
  <2> QED BY <2>1
<1>7. First(n) = Resident
  BY <1>2 DEF Resident, Range
<1> QED BY <1>1, <1>6, <1>7

\* The entries of a list are finitely many.
LEMMA ResidentFinite == ASSUME NEW s \in Seq(Key)  PROVE IsFiniteSet(Range(s)) /\ Range(s) \in SUBSET Key
<1>1. IsFiniteSet(1 .. Len(s))
  BY FS_Interval
<1>2. s \in Surjection(1 .. Len(s), Range(s))
  BY DEF Surjection, Range
<1>3. IsFiniteSet(Range(s))
  BY <1>1, <1>2, FS_Surjection
<1> QED BY <1>3 DEF Range

-----------------------------------------------------------------------------
(* What the actions have in common *)

\* The entries that ResidentBytes counts
Counted == {k \in Resident : load[k] # "loading"}

\* What Exact says, in this state and in the next one.
LEMMA CountMeans == Exact <=> ResidentBytes = Total(bytes, Counted)
BY SizeIsTotal DEF Exact, Counted

LEMMA CountMeansNext == Exact' <=> ResidentBytes' = Total(bytes', Counted')
BY SizeIsTotalNext DEF Exact, Counted

\* There are finitely many of them, and their sizes can be added.
LEMMA CountedFinite ==
    ASSUME Fields
    PROVE  IsFiniteSet(Counted) /\ Counted \in SUBSET Key /\ \A k \in Counted : bytes[k] \in Int
<1>1. IsFiniteSet(Resident) /\ Resident \in SUBSET Key
  BY ResidentFinite DEF Resident, Fields
<1>2. Counted \in SUBSET Resident
  BY DEF Counted
<1>3. IsFiniteSet(Counted)
  BY <1>1, <1>2, FS_Subset
<1> QED BY <1>1, <1>2, <1>3 DEF Fields

\* A thread enters a call.
LEMMA Entering ==
    ASSUME Calls, NEW c \in Control, NEW step \in Steps, Enter(c, step)
    PROVE  /\ Calls'
           /\ Owner[c] \in Thread
           /\ pc[Owner[c]] = "outside" /\ pc'[Owner[c]] = step /\ control'[Owner[c]] = c
           /\ \A t \in Thread : t # Owner[c] => pc'[t] = pc[t] /\ control'[t] = control[t]
           /\ \A t \in Thread : pc[t] # "outside" => t # Owner[c] /\ control[t] # c
<1>1. Owner[c] \in Thread
  BY CacheAssumption
<1>2. pc' = [pc EXCEPT ![Owner[c]] = step] /\ control' = [control EXCEPT ![Owner[c]] = c]
  BY DEF Enter
<1>3. pc[Owner[c]] = "outside"
  BY DEF Enter
<1>4. pc' \in [Thread -> Steps] /\ control' = [t \in Thread |-> control'[t]]
  BY <1>1, <1>2 DEF Calls
<1>5. pc'[Owner[c]] = step /\ control'[Owner[c]] = c
  BY <1>1, <1>2 DEF Calls
<1>6. \A t \in Thread : t # Owner[c] => pc'[t] = pc[t] /\ control'[t] = control[t]
  BY <1>1, <1>2 DEF Calls
<1>7. \A t \in Thread : pc[t] # "outside" => t # Owner[c] /\ control[t] # c
  BY <1>3 DEF Calls
<1>8. \A t \in Thread : pc'[t] # "outside" => control'[t] \in Control /\ Owner[control'[t]] = t
  BY <1>5, <1>6 DEF Calls
<1> QED BY <1>1, <1>3, <1>4, <1>5, <1>6, <1>7, <1>8 DEF Calls

\* A thread goes on inside a call, or leaves it.
LEMMA Going ==
    ASSUME Calls, NEW t \in Thread, NEW step \in Steps, Goto(t, step), pc[t] # "outside"
    PROVE  /\ Calls'
           /\ control[t] \in Control /\ Owner[control[t]] = t
           /\ pc'[t] = step
           /\ \A u \in Thread : u # t => pc'[u] = pc[u]
           /\ \A u \in Thread : pc[u] # "outside" /\ u # t => control[u] # control[t]
           /\ control' = control
<1>1. pc' = [pc EXCEPT ![t] = step] /\ control' = control
  BY DEF Goto
<1>2. pc' \in [Thread -> Steps] /\ pc'[t] = step /\ \A u \in Thread : u # t => pc'[u] = pc[u]
  BY <1>1 DEF Calls
<1>3. control[t] \in Control /\ Owner[control[t]] = t
  BY DEF Calls
<1>4. \A u \in Thread : pc'[u] # "outside" => control'[u] \in Control /\ Owner[control'[u]] = u
  BY <1>1, <1>2, <1>3 DEF Calls
<1>5. control' = [u \in Thread |-> control'[u]]
  BY <1>1 DEF Calls
<1> QED BY <1>1, <1>2, <1>3, <1>4, <1>5 DEF Calls

\* Most actions leave the entries as they are, though perhaps in another order.
Reordered == /\ lru' \in Seq(Key) /\ Resident' = Resident /\ IsInjective(lru')
             /\ UNCHANGED <<load, bytes, ResidentBytes>>

\* Then the list stays one and the count exact;
LEMMA Reordering ==
    ASSUME Sound, Reordered
    PROVE  IsInjective(lru)' /\ Exact'
<1>1. Counted' = Counted
  BY DEF Reordered, Counted
<1> QED BY <1>1, CountMeans, CountMeansNext DEF Sound, Reordered, IsInjective

\* and no load begins or ends.
LEMMA SameLoaders ==
    ASSUME Loaders, Resident' = Resident, load' = load,
           \A t \in Thread : /\ pc'[t] = "loading" <=> pc[t] = "loading"
                             /\ pc[t] = "loading" => BoundData'[control'[t]] = BoundData[control[t]]
    PROVE  Loaders'
<1>1. \A t \in Thread : pc'[t] = "loading" => load'[BoundData'[control'[t]]] = "loading"
  BY DEF Loaders
<1>2. \A k \in Resident' : load'[k] = "loading" =>
         \E t \in Thread : pc'[t] = "loading" /\ BoundData'[control'[t]] = k
  BY DEF Loaders
<1>3. \A t, u \in Thread :
         pc'[t] = "loading" /\ pc'[u] = "loading" /\ t # u =>
            BoundData'[control'[t]] # BoundData'[control'[u]]
  BY DEF Loaders
<1> QED BY <1>1, <1>2, <1>3 DEF Loaders

\* TouchData moves an entry to the head of the list.
LEMMA Touching ==
    ASSUME Fields, IsInjective(lru), NEW k \in Resident
    PROVE  LET t == <<k>> \o Without({k})
           IN  t \in Seq(Key) /\ Range(t) = Resident /\ IsInjective(t)
<1> DEFINE s == Without({k})
<1>1. s \in Seq(Key) /\ Range(s) = Resident \ {k} /\ IsInjective(s)
  BY WithoutMeans DEF Fields
<1>2. k \in Key
  BY ResidentFinite DEF Fields, Resident
<1> HIDE DEF s
<1>3. <<k>> \o s \in Seq(Key) /\ Range(<<k>> \o s) = Range(s) \cup {k} /\ IsInjective(<<k>> \o s)
  BY <1>1, <1>2, PrependRange
<1> QED BY <1>1, <1>3 DEF s

LEMMA TouchReorders ==
    ASSUME Fields, IsInjective(lru), NEW k \in Resident, lru' = TouchData(k),
           UNCHANGED <<load, bytes, ResidentBytes>>
    PROVE  Reordered
BY Touching DEF TouchData, Reordered, Resident, Fields

LEMMA UnchangedReorders ==
    ASSUME Fields, IsInjective(lru), UNCHANGED entries  PROVE Reordered
BY DEF entries, Reordered, Resident, Fields

\* A control of a thread outside any call has no entry that is being loaded.
LEMMA OutsideIsLoaded ==
    ASSUME Fields, Waiters, NEW c \in Control, pc[Owner[c]] = "outside", BoundData[c] # NoKey
    PROVE  BoundData[c] \in Key /\ load[BoundData[c]] \in {"complete", "failed"}
<1>1. BoundData[c] \in Key
  BY DEF Fields
<1>2. load[BoundData[c]] \in {"loading", "complete", "failed"}
  BY <1>1 DEF Fields
<1>3. load[BoundData[c]] # "loading"
  BY DEF Waiters
<1> QED BY <1>1, <1>2, <1>3

-----------------------------------------------------------------------------
(* The steps, one action each *)

\* An empty cache.
LEMMA InitHolds == Init => Sound
<1> SUFFICES ASSUME Init  PROVE Sound
  OBVIOUS
<1>1. Resident = {} /\ IsInjective(lru)
  BY DEF Init, Resident, Range, IsInjective
<1>2. Fields
  BY CacheAssumption DEF Init, Fields
<1>3. Calls
  <2>1. control = [t \in Thread |-> control[t]]
    BY DEF Init
  <2> QED BY <2>1 DEF Init, Calls, Steps
<1>4. Pins
  BY DEF Init, Pins
<1>5. Loaders /\ Waiters /\ Whole
  BY <1>1 DEF Init, Loaders, Waiters, Whole
<1>6. Exact
  <2>1. Counted = {}
    BY <1>1 DEF Counted
  <2> QED BY <2>1, CountMeans, TotalEmpty DEF Init
<1> QED BY <1>1, <1>2, <1>3, <1>4, <1>5, <1>6 DEF Sound

\* A control without an entry gets another key.
LEMMA SetCacheKeyKeeps ==
    ASSUME Sound, NEW c \in Control, NEW k \in Key, SetCacheKey(c, k)  PROVE Sound'
<1> USE DEF Sound
<1>0. "outside" \in Steps /\ Enter(c, "outside")
  BY DEF Steps, SetCacheKey
<1>1. /\ Calls' /\ pc[Owner[c]] = "outside" /\ pc'[Owner[c]] = "outside"
      /\ \A t \in Thread : t # Owner[c] => pc'[t] = pc[t] /\ control'[t] = control[t]
      /\ \A t \in Thread : pc[t] # "outside" => t # Owner[c] /\ control[t] # c
  BY <1>0, Entering
<1>2. /\ BoundData[c] = NoKey /\ RetainCount' = [RetainCount EXCEPT ![c] = 0]
      /\ CacheKey' = [CacheKey EXCEPT ![c] = k] /\ answer' = [answer EXCEPT ![c] = "none"]
      /\ UNCHANGED entries /\ BoundData' = BoundData
  BY DEF SetCacheKey, Answer
<1>3. Reordered
  BY <1>2, UnchangedReorders
<1>4. Fields'
  BY <1>2 DEF Fields, entries
<1>5. Pins'
  BY <1>1, <1>2, <1>3 DEF Pins, Fields, Reordered, Calls
<1>6. Loaders'
  BY <1>1, <1>2, <1>3, SameLoaders DEF Reordered
<1>7. Waiters'
  BY <1>1, <1>2, <1>3, CacheAssumption DEF Waiters, Reordered
<1>8. Whole'
  BY <1>2, <1>3 DEF Whole, Fields, Reordered
<1> QED BY <1>1, <1>3, <1>4, <1>5, <1>6, <1>7, <1>8, Reordering

\* Reset unpins; the entry is not one that is being loaded.
LEMMA ResetKeeps == ASSUME Sound, NEW c \in Control, Reset(c)  PROVE Sound'
<1> USE DEF Sound
<1>0. "resetting" \in Steps /\ Enter(c, "resetting")
  BY DEF Steps, Reset
<1>1. /\ Calls' /\ pc[Owner[c]] = "outside" /\ pc'[Owner[c]] = "resetting"
      /\ control'[Owner[c]] = c /\ Owner[c] \in Thread
      /\ \A t \in Thread : t # Owner[c] => pc'[t] = pc[t] /\ control'[t] = control[t]
      /\ \A t \in Thread : pc[t] # "outside" => t # Owner[c] /\ control[t] # c
  BY <1>0, Entering
<1>2. /\ BoundData[c] # NoKey /\ RetainCount' = [RetainCount EXCEPT ![c] = 0]
      /\ answer' = [answer EXCEPT ![c] = "none"]
      /\ UNCHANGED entries /\ BoundData' = BoundData /\ CacheKey' = CacheKey
  BY DEF Reset, Answer
<1>3. Reordered
  BY <1>2, UnchangedReorders
<1>4. Fields'
  BY <1>2 DEF Fields, entries
<1>5. Pins'
  <2>1. \A d \in Control : BoundData'[d] # NoKey => BoundData'[d] \in Resident'
    BY <1>1, <1>2, <1>3 DEF Pins, Fields, Reordered, Calls
  <2>2. \A d \in Control : RetainCount'[d] > 0 => BoundData'[d] # NoKey
    BY <1>1, <1>2, <1>3 DEF Pins, Fields, Reordered, Calls
  <2>3. \A u \in Thread : pc'[u] \in {"loading", "waiting"} => RetainCount'[control'[u]] > 0
    BY <1>1, <1>2, <1>3 DEF Pins, Fields, Reordered, Calls
  <2>4. ASSUME NEW u \in Thread, pc'[u] = "resetting"
        PROVE  RetainCount'[control'[u]] = 0
    <3>1. CASE u = Owner[c]
      BY <1>1, <1>2, <2>4, <3>1 DEF Fields
    <3>2. CASE u # Owner[c]
      <4>1. pc[u] = "resetting" /\ control'[u] = control[u] /\ control[u] # c /\ control[u] \in Control
        BY <1>1, <1>2, <2>4, <3>2 DEF Calls
      <4>2. RetainCount'[control[u]] = RetainCount[control[u]]
        BY <1>1, <1>2, <4>1 DEF Fields
      <4> QED BY <4>1, <4>2 DEF Pins
    <3> QED BY <3>1, <3>2
  <2> QED BY <2>1, <2>2, <2>3, <2>4 DEF Pins
<1>6. Loaders'
  BY <1>1, <1>2, <1>3, SameLoaders DEF Reordered
<1>7. Waiters'
  BY <1>1, <1>2, <1>3, CacheAssumption DEF Waiters, Reordered
<1>8. Whole'
  BY <1>2, <1>3 DEF Whole, Fields, Reordered
<1> QED BY <1>1, <1>3, <1>4, <1>5, <1>6, <1>7, <1>8, Reordering

\* The control lets go of its entry, or crashes over one that is gone.
LEMMA ResetUnlinkKeeps == ASSUME Sound, NEW t \in Thread, ResetUnlink(t)  PROVE Sound'
<1> USE DEF Sound
<1> DEFINE c == control[t]
<1>0. PICK step \in {"crashed", "outside"} : Goto(t, step)
  BY DEF ResetUnlink
<1>1. /\ pc[t] = "resetting" /\ pc[t] # "outside" /\ step \in Steps
      /\ BoundData' = [BoundData EXCEPT ![c] = NoKey] /\ CacheKey' = [CacheKey EXCEPT ![c] = NoKey]
      /\ UNCHANGED entries /\ RetainCount' = RetainCount /\ answer' = answer
  BY DEF ResetUnlink, Steps
<1>2. /\ Calls' /\ c \in Control /\ Owner[c] = t /\ pc'[t] = step
      /\ \A u \in Thread : u # t => pc'[u] = pc[u]
      /\ \A u \in Thread : pc[u] # "outside" /\ u # t => control[u] # c
      /\ control' = control
  BY <1>0, <1>1, Going
<1> HIDE DEF c
<1>3. Reordered
  BY <1>1, UnchangedReorders
<1>4. RetainCount[c] = 0
  BY <1>1 DEF Pins, c
<1>5. Fields'
  BY <1>1, <1>2 DEF Fields, entries
<1>6. Pins'
  BY <1>1, <1>2, <1>3, <1>4 DEF Pins, Fields, Reordered, Calls
<1>7. Loaders'
  <2>1. \A u \in Thread : /\ pc'[u] = "loading" <=> pc[u] = "loading"
                          /\ pc[u] = "loading" => BoundData'[control'[u]] = BoundData[control[u]]
    BY <1>1, <1>2 DEF Calls, Fields
  <2> QED BY <2>1, <1>3, SameLoaders DEF Reordered
<1>8. Waiters'
  BY <1>1, <1>2, <1>3, CacheAssumption DEF Waiters, Reordered, Fields
<1>9. Whole'
  BY <1>1, <1>2, <1>3, <1>4 DEF Whole, Fields, Reordered
<1> QED BY <1>2, <1>3, <1>5, <1>6, <1>7, <1>8, <1>9, Reordering

LEMMA AfterCheckStep == \A k : AfterCheck(k) \in {"outside", "trimming"}
BY DEF AfterCheck

\* The control has pinned the entry, so it has ended its load.
LEMMA AcquireRetainedKeeps == ASSUME Sound, NEW c \in Control, AcquireRetained(c)  PROVE Sound'
<1> USE DEF Sound
<1> DEFINE k == BoundData[c]
           step == AfterCheck(k)
<1>0. step \in Steps /\ step \notin {"loading", "waiting", "resetting"} /\ Enter(c, step)
  BY AfterCheckStep DEF Steps, AcquireRetained
<1>1. RetainCount[c] \in 1 .. (MaxRetains - 1) /\ UNCHANGED entries /\ UNCHANGED <<CacheKey, BoundData>>
  BY DEF AcquireRetained
<1>2. /\ load[k] = "failed" => answer' = [answer EXCEPT ![c] = "raised"] /\ RetainCount' = RetainCount
      /\ load[k] # "failed" => answer' = [answer EXCEPT ![c] = "data"]
                               /\ RetainCount' = [RetainCount EXCEPT ![c] = @ + 1]
  BY DEF AcquireRetained, CheckLoadFailure, Answer
<1> HIDE DEF step
<1>3. /\ Calls' /\ pc[Owner[c]] = "outside" /\ pc'[Owner[c]] = step /\ Owner[c] \in Thread
      /\ \A t \in Thread : t # Owner[c] => pc'[t] = pc[t] /\ control'[t] = control[t]
      /\ \A t \in Thread : pc[t] # "outside" => t # Owner[c] /\ control[t] # c
  BY <1>0, Entering
<1>4. RetainCount[c] > 0 /\ k # NoKey
  BY <1>1, CacheAssumption DEF Pins
<1>5. k \in Key /\ load[k] \in {"complete", "failed"}
  BY <1>3, <1>4, OutsideIsLoaded
<1>6. Reordered
  BY <1>1, UnchangedReorders
<1>7. /\ RetainCount' \in [Control -> Nat] /\ RetainCount'[c] > 0
      /\ \A d \in Control : d # c => RetainCount'[d] = RetainCount[d]
  BY <1>2, <1>4, <1>5 DEF Fields
<1>8. /\ answer' \in [Control -> {"none", "data", "raised"}]
      /\ \A d \in Control : d # c => answer'[d] = answer[d]
      /\ answer'[c] = "data" => load[k] = "complete"
  BY <1>2, <1>5 DEF Fields
<1>9. Fields'
  BY <1>1, <1>7, <1>8 DEF Fields, entries
<1>10. Pins'
  <2>1. \A d \in Control : BoundData'[d] # NoKey => BoundData'[d] \in Resident'
    BY <1>0, <1>1, <1>3, <1>4, <1>6, <1>7 DEF Pins, Fields, Reordered, Calls
  <2>2. \A d \in Control : RetainCount'[d] > 0 => BoundData'[d] # NoKey
    BY <1>0, <1>1, <1>3, <1>4, <1>6, <1>7 DEF Pins, Fields, Reordered, Calls
  <2>3. \A u \in Thread : pc'[u] \in {"loading", "waiting"} => RetainCount'[control'[u]] > 0
    BY <1>0, <1>1, <1>3, <1>4, <1>6, <1>7 DEF Pins, Fields, Reordered, Calls
  <2>4. \A u \in Thread : pc'[u] = "resetting" => RetainCount'[control'[u]] = 0
    BY <1>0, <1>1, <1>3, <1>4, <1>6, <1>7 DEF Pins, Fields, Reordered, Calls
  <2> QED BY <2>1, <2>2, <2>3, <2>4 DEF Pins
<1>11. Loaders'
  BY <1>0, <1>1, <1>3, <1>6, SameLoaders DEF Reordered
<1>12. Waiters'
  BY <1>1, <1>3, <1>6, CacheAssumption DEF Waiters, Reordered
<1>13. Whole'
  BY <1>1, <1>6, <1>7, <1>8 DEF Whole, Reordered
<1> QED BY <1>3, <1>6, <1>9, <1>10, <1>11, <1>12, <1>13, Reordering

\* The control has the entry and pins it again.
LEMMA AcquireBoundKeeps == ASSUME Sound, NEW c \in Control, AcquireBound(c)  PROVE Sound'
<1> USE DEF Sound
<1> DEFINE k == BoundData[c]
           step == AfterCheck(k)
<1>0. step \in Steps /\ step \notin {"loading", "waiting", "resetting"} /\ Enter(c, step)
  BY AfterCheckStep DEF Steps, AcquireBound
<1>1. /\ k # NoKey /\ lru' = TouchData(k) /\ UNCHANGED <<load, bytes, ResidentBytes, CacheKey, BoundData>>
      /\ RetainCount' = [RetainCount EXCEPT ![c] = 1]
      /\ answer' = [answer EXCEPT ![c] = IF load[k] = "failed" THEN "raised" ELSE "data"]
  BY DEF AcquireBound, CheckLoadFailure, Answer
<1> HIDE DEF step
<1>3. /\ Calls' /\ pc[Owner[c]] = "outside" /\ pc'[Owner[c]] = step /\ Owner[c] \in Thread
      /\ \A t \in Thread : t # Owner[c] => pc'[t] = pc[t] /\ control'[t] = control[t]
      /\ \A t \in Thread : pc[t] # "outside" => t # Owner[c] /\ control[t] # c
  BY <1>0, Entering
<1>5. k \in Key /\ load[k] \in {"complete", "failed"} /\ k \in Resident
  BY <1>1, <1>3, OutsideIsLoaded DEF Pins
<1>6. Reordered
  BY <1>1, <1>5, TouchReorders
<1>9. Fields'
  BY <1>1, <1>6 DEF Fields, Reordered
<1>10. Pins'
  <2>1. \A d \in Control : BoundData'[d] # NoKey => BoundData'[d] \in Resident'
    BY <1>0, <1>1, <1>3, <1>6 DEF Pins, Fields, Reordered, Calls
  <2>2. \A d \in Control : RetainCount'[d] > 0 => BoundData'[d] # NoKey
    BY <1>0, <1>1, <1>3, <1>6 DEF Pins, Fields, Reordered, Calls
  <2>3. ASSUME NEW u \in Thread, pc'[u] \in {"loading", "waiting"}
        PROVE  RetainCount'[control'[u]] > 0
    <3>1. CASE u = Owner[c]
      BY <1>0, <1>1, <1>3, <2>3, <3>1 DEF Fields
    <3>2. CASE u # Owner[c]
      <4>1. pc[u] \in {"loading", "waiting"} /\ control'[u] = control[u] /\ control[u] # c /\ control[u] \in Control
        BY <1>0, <1>1, <1>3, <2>3, <3>2 DEF Calls
      <4>2. RetainCount'[control[u]] = RetainCount[control[u]]
        BY <1>0, <1>1, <1>3, <4>1 DEF Fields
      <4> QED BY <4>1, <4>2 DEF Pins
    <3> QED BY <3>1, <3>2
  <2>4. ASSUME NEW u \in Thread, pc'[u] = "resetting"
        PROVE  RetainCount'[control'[u]] = 0
    <3>1. CASE u = Owner[c]
      BY <1>0, <1>1, <1>3, <2>4, <3>1 DEF Fields
    <3>2. CASE u # Owner[c]
      <4>1. pc[u] = "resetting" /\ control'[u] = control[u] /\ control[u] # c /\ control[u] \in Control
        BY <1>0, <1>1, <1>3, <2>4, <3>2 DEF Calls
      <4>2. RetainCount'[control[u]] = RetainCount[control[u]]
        BY <1>0, <1>1, <1>3, <4>1 DEF Fields
      <4> QED BY <4>1, <4>2 DEF Pins
    <3> QED BY <3>1, <3>2
  <2> QED BY <2>1, <2>2, <2>3, <2>4 DEF Pins
<1>11. Loaders'
  BY <1>0, <1>1, <1>3, <1>6, SameLoaders DEF Reordered
<1>12. Waiters'
  BY <1>1, <1>3, <1>6, CacheAssumption DEF Waiters, Reordered
<1>13. Whole'
  BY <1>1, <1>5, <1>6 DEF Whole, Reordered, Fields
<1> QED BY <1>3, <1>6, <1>9, <1>10, <1>11, <1>12, <1>13, Reordering

\* The entry is pinned before the wait for its load.
LEMMA AcquireFoundKeeps == ASSUME Sound, NEW c \in Control, AcquireFound(c)  PROVE Sound'
<1> USE DEF Sound
<1> DEFINE k == CacheKey[c]
<1>0. "waiting" \in Steps /\ Enter(c, "waiting")
  BY DEF Steps, AcquireFound
<1>1. /\ k \in Resident /\ k # NoKey /\ RetainCount[c] = 0 /\ BoundData[c] = NoKey
      /\ BoundData' = [BoundData EXCEPT ![c] = k] /\ RetainCount' = [RetainCount EXCEPT ![c] = 1]
      /\ answer' = [answer EXCEPT ![c] = "none"] /\ UNCHANGED entries /\ CacheKey' = CacheKey
  BY DEF AcquireFound, Bind, Answer, FindDataByKeyAndClass
<1>2. /\ Calls' /\ pc[Owner[c]] = "outside" /\ pc'[Owner[c]] = "waiting"
      /\ control'[Owner[c]] = c /\ Owner[c] \in Thread
      /\ \A t \in Thread : t # Owner[c] => pc'[t] = pc[t] /\ control'[t] = control[t]
      /\ \A t \in Thread : pc[t] # "outside" => t # Owner[c] /\ control[t] # c
  BY <1>0, Entering
<1>3. Reordered
  BY <1>1, UnchangedReorders
<1>4. k \in Key
  BY <1>1 DEF Fields
<1>5. Fields'
  BY <1>1, <1>4 DEF Fields, entries
<1>6. Pins'
  <2>1. \A d \in Control : BoundData'[d] # NoKey => BoundData'[d] \in Resident'
    BY <1>1, <1>2, <1>3 DEF Pins, Fields, Reordered, Calls
  <2>2. \A d \in Control : RetainCount'[d] > 0 => BoundData'[d] # NoKey
    BY <1>1, <1>2, <1>3 DEF Pins, Fields, Reordered, Calls
  <2>3. \A u \in Thread : pc'[u] \in {"loading", "waiting"} => RetainCount'[control'[u]] > 0
    BY <1>1, <1>2, <1>3 DEF Pins, Fields, Reordered, Calls
  <2>4. \A u \in Thread : pc'[u] = "resetting" => RetainCount'[control'[u]] = 0
    BY <1>1, <1>2, <1>3 DEF Pins, Fields, Reordered, Calls
  <2> QED BY <2>1, <2>2, <2>3, <2>4 DEF Pins
<1>7. Loaders'
  <2>1. \A u \in Thread : /\ pc'[u] = "loading" <=> pc[u] = "loading"
                          /\ pc[u] = "loading" => BoundData'[control'[u]] = BoundData[control[u]]
    BY <1>1, <1>2 DEF Calls, Fields
  <2> QED BY <2>1, <1>3, SameLoaders DEF Reordered
<1>8. Waiters'
  <2>1. ASSUME NEW d \in Control, BoundData'[d] # NoKey, load'[BoundData'[d]] = "loading"
        PROVE  pc'[Owner[d]] \in {"loading", "waiting"} /\ control'[Owner[d]] = d
    <3>1. CASE d = c
      BY <1>2, <3>1
    <3>2. CASE d # c
      <4>1. BoundData[d] # NoKey /\ load[BoundData[d]] = "loading"
        BY <1>1, <1>3, <2>1, <3>2 DEF Fields, Reordered
      <4>2. pc[Owner[d]] \in {"loading", "waiting"} /\ control[Owner[d]] = d /\ Owner[d] \in Thread
        BY <4>1, CacheAssumption DEF Waiters
      <4> QED BY <1>2, <4>2
    <3> QED BY <3>1, <3>2
  <2> QED BY <2>1 DEF Waiters
<1>9. Whole'
  BY <1>1, <1>2, <1>3 DEF Whole, Fields, Reordered
<1> QED BY <1>2, <1>3, <1>5, <1>6, <1>7, <1>8, <1>9, Reordering

\* One use less.
LEMMA ReleaseKeeps == ASSUME Sound, NEW c \in Control, Release(c)  PROVE Sound'
<1> USE DEF Sound
<1>0. "outside" \in Steps /\ Enter(c, "outside")
  BY DEF Steps, Release
<1>1. /\ Calls' /\ pc[Owner[c]] = "outside" /\ pc'[Owner[c]] = "outside"
      /\ \A t \in Thread : t # Owner[c] => pc'[t] = pc[t] /\ control'[t] = control[t]
      /\ \A t \in Thread : pc[t] # "outside" => t # Owner[c] /\ control[t] # c
  BY <1>0, Entering
<1>2. /\ RetainCount[c] > 0 /\ RetainCount' = [RetainCount EXCEPT ![c] = @ - 1]
      /\ UNCHANGED entries /\ UNCHANGED <<CacheKey, BoundData, answer>>
  BY DEF Release
<1>3. Reordered
  BY <1>2, UnchangedReorders
<1>4. /\ RetainCount' \in [Control -> Nat]
      /\ \A d \in Control : RetainCount'[d] > 0 => RetainCount[d] > 0
      /\ \A d \in Control : d # c => RetainCount'[d] = RetainCount[d]
  BY <1>2 DEF Fields
<1>5. Fields'
  BY <1>2, <1>4 DEF Fields, entries
<1>6. Pins'
  BY <1>1, <1>2, <1>3, <1>4 DEF Pins, Reordered, Calls
<1>7. Loaders'
  BY <1>1, <1>2, <1>3, SameLoaders DEF Reordered
<1>8. Waiters'
  BY <1>1, <1>2, <1>3, CacheAssumption DEF Waiters, Reordered
<1>9. Whole'
  BY <1>2, <1>3, <1>4 DEF Whole, Reordered
<1> QED BY <1>1, <1>3, <1>5, <1>6, <1>7, <1>8, <1>9, Reordering

\* The entry waited for is pinned, so it is still there.
LEMMA WaitEndsKeeps == ASSUME Sound, NEW t \in Thread, WaitEnds(t)  PROVE Sound'
<1> USE DEF Sound
<1> DEFINE c == control[t]
           k == BoundData[c]
           step == AfterCheck(k)
<1>0. step \in Steps /\ step \notin {"loading", "waiting", "resetting"} /\ Goto(t, step)
  BY AfterCheckStep DEF Steps, WaitEnds
<1>1. /\ pc[t] = "waiting" /\ load[k] # "loading" /\ lru' = TouchData(k)
      /\ answer' = [answer EXCEPT ![c] = IF load[k] = "failed" THEN "raised" ELSE "data"]
      /\ UNCHANGED <<load, bytes, ResidentBytes>> /\ UNCHANGED controls
  BY DEF WaitEnds, CheckLoadFailure, Answer
<1>2. pc[t] # "outside"
  BY <1>1
<1>3. RetainCount[c] > 0
  BY <1>1 DEF Pins
<1> HIDE DEF step
<1>4. /\ Calls' /\ c \in Control /\ Owner[c] = t /\ pc'[t] = step
      /\ \A u \in Thread : u # t => pc'[u] = pc[u]
      /\ \A u \in Thread : pc[u] # "outside" /\ u # t => control[u] # c
      /\ control' = control
  BY <1>0, <1>2, Going
<1> HIDE DEF c
<1>5. k \in Resident /\ k \in Key /\ load[k] \in {"complete", "failed"}
  <2>1. k # NoKey /\ k \in Resident
    BY <1>3, <1>4 DEF Pins
  <2>2. k \in Key
    BY <1>4, <2>1 DEF Fields
  <2> QED BY <1>1, <2>1, <2>2 DEF Fields
<1>6. Reordered
  BY <1>1, <1>5, TouchReorders
<1>7. Fields'
  BY <1>1, <1>6 DEF Fields, Reordered, controls
<1>8. Pins'
  BY <1>0, <1>1, <1>4, <1>6 DEF Pins, Reordered, controls
<1>9. Loaders'
  <2>1. \A u \in Thread : /\ pc'[u] = "loading" <=> pc[u] = "loading"
                          /\ pc[u] = "loading" => BoundData'[control'[u]] = BoundData[control[u]]
    BY <1>0, <1>1, <1>4 DEF controls
  <2> QED BY <2>1, <1>6, SameLoaders DEF Reordered
<1>10. Waiters'
  <2>1. ASSUME NEW d \in Control, BoundData'[d] # NoKey, load'[BoundData'[d]] = "loading"
        PROVE  pc'[Owner[d]] \in {"loading", "waiting"} /\ control'[Owner[d]] = d
    <3>1. BoundData[d] # NoKey /\ load[BoundData[d]] = "loading"
      BY <2>1, <1>1 DEF controls
    <3>2. d # c
      BY <3>1, <1>1
    <3>3. pc[Owner[d]] \in {"loading", "waiting"} /\ control[Owner[d]] = d
      BY <3>1 DEF Waiters
    <3>4. Owner[d] # t /\ Owner[d] \in Thread
      BY <3>2, <3>3, CacheAssumption DEF c
    <3> QED BY <3>3, <3>4, <1>4
  <2> QED BY <2>1 DEF Waiters
<1>11. Whole'
  BY <1>1, <1>4, <1>5, <1>6 DEF Whole, Reordered, Fields, controls
<1> QED BY <1>4, <1>6, <1>7, <1>8, <1>9, <1>10, <1>11, Reordering

\* One more entry is counted.
LEMMA LoadCounted ==
    ASSUME Fields, Exact, NEW k, NEW n \in Nat, k \notin Counted, Counted' = Counted \cup {k},
           \A j \in Counted : bytes'[j] = bytes[j], bytes'[k] = n, ResidentBytes' = ResidentBytes + n
    PROVE  Exact'
<1> DEFINE S == Counted \cup {k}
<1>1. IsFiniteSet(Counted) /\ \A j \in Counted : bytes[j] \in Int
  BY CountedFinite
<1>2. IsFiniteSet(S) /\ (\A j \in S : bytes'[j] \in Int) /\ k \in S /\ S \ {k} = Counted
  BY <1>1, FS_AddElement
<1>3. Total(bytes', S) = bytes'[k] + Total(bytes', S \ {k})
  <2> HIDE DEF S
  <2> QED BY <1>2, TotalWithout
<1>4. Total(bytes', Counted) = Total(bytes, Counted)
  BY <1>1, TotalSame
<1>5. ResidentBytes = Total(bytes, Counted) /\ ResidentBytes \in Int
  BY CountMeans DEF Fields
<1>6. Total(bytes', S) = n + ResidentBytes
  <2> HIDE DEF S
  <2> QED BY <1>2, <1>3, <1>4, <1>5
<1>7. ResidentBytes' = Total(bytes', Counted')
  BY <1>5, <1>6
<1> QED BY <1>7, CountMeansNext

\* A load comes to an end, well or badly.
LEMMA LoadEnds ==
    ASSUME Sound, NEW t \in Thread, pc[t] = "loading",
           NEW step \in {"outside", "trimming"}, Goto(t, step),
           NEW end \in {"complete", "failed"}, NEW n \in Nat,
           lru' \in Seq(Key), Resident' = Resident, IsInjective(lru'),
           load' = [load EXCEPT ![BoundData[control[t]]] = end],
           bytes' = [bytes EXCEPT ![BoundData[control[t]]] = n],
           ResidentBytes' = ResidentBytes + n,
           NEW a \in {"data", "raised"}, Answer(control[t], a), a = "data" => end = "complete",
           UNCHANGED controls
    PROVE  Sound'
<1> USE DEF Sound
<1> DEFINE c == control[t]
           k == BoundData[c]
<1>1. /\ Calls' /\ c \in Control /\ Owner[c] = t /\ pc'[t] = step
      /\ \A u \in Thread : u # t => pc'[u] = pc[u]
      /\ \A u \in Thread : pc[u] # "outside" /\ u # t => control[u] # c
      /\ control' = control
  BY Going DEF Steps
<1>2. /\ load' = [load EXCEPT ![k] = end] /\ bytes' = [bytes EXCEPT ![k] = n]
      /\ answer' = [answer EXCEPT ![c] = a]
      /\ UNCHANGED <<CacheKey, BoundData, RetainCount>>
  BY DEF Answer, controls
<1>3. RetainCount[c] > 0 /\ k # NoKey /\ k \in Resident /\ load[k] = "loading"
  BY <1>1 DEF Pins, Loaders
<1>4. k \in Key
  BY <1>1, <1>3 DEF Fields
<1>5. \A u \in Thread : pc[u] = "loading" /\ u # t => BoundData[control[u]] # k
  BY DEF Loaders
<1> HIDE DEF c
<1>6. Fields'
  <2>1. load' \in [Key -> {"loading", "complete", "failed"}]
    BY <1>2 DEF Fields
  <2>2. bytes' \in [Key -> Nat]
    <3>1. bytes \in [Key -> Nat]
      BY DEF Fields
    <3> HIDE DEF k, Sound
    <3> QED BY <1>2, <3>1
  <2>4. ResidentBytes' \in Int
    BY DEF Fields
  <2>3. answer' \in [Control -> {"none", "data", "raised"}]
    BY <1>2 DEF Fields
  <2> QED BY <1>2, <2>1, <2>2, <2>3, <2>4 DEF Fields
<1>7. \A j : j # k => load'[j] = load[j] /\ bytes'[j] = bytes[j]
  BY <1>2, <1>4 DEF Fields
<1>8. load'[k] = end /\ bytes'[k] = n /\ load'[k] # "loading"
  BY <1>2, <1>4 DEF Fields
<1> HIDE DEF k
<1>9. Pins'
  BY <1>1, <1>2 DEF Pins
<1>10. Loaders'
  <2>1. ASSUME NEW u \in Thread, pc'[u] = "loading"
        PROVE  u # t /\ pc[u] = "loading" /\ load'[BoundData'[control'[u]]] = "loading"
    <3>1. u # t /\ pc[u] = "loading"
      BY <2>1, <1>1
    <3> QED BY <3>1, <1>1, <1>2, <1>5, <1>7 DEF Loaders
  <2>2. ASSUME NEW j \in Resident', load'[j] = "loading"
        PROVE  \E u \in Thread : pc'[u] = "loading" /\ BoundData'[control'[u]] = j
    <3>1. j \in Resident /\ j # k /\ load[j] = "loading"
      BY <2>2, <1>7, <1>8
    <3>2. PICK u \in Thread : pc[u] = "loading" /\ BoundData[control[u]] = j
      BY <3>1 DEF Loaders
    <3>3. u # t
      BY <3>1, <3>2 DEF k, c
    <3> QED BY <3>2, <3>3, <1>1, <1>2
  <2>3. \A u, v \in Thread :
           pc'[u] = "loading" /\ pc'[v] = "loading" /\ u # v =>
              BoundData'[control'[u]] # BoundData'[control'[v]]
    BY <2>1, <1>1, <1>2 DEF Loaders
  <2> QED BY <2>1, <2>2, <2>3 DEF Loaders
<1>11. Waiters'
  <2>1. ASSUME NEW d \in Control, BoundData'[d] # NoKey, load'[BoundData'[d]] = "loading"
        PROVE  pc'[Owner[d]] \in {"loading", "waiting"} /\ control'[Owner[d]] = d
    <3>1. BoundData[d] # NoKey /\ BoundData[d] # k /\ load[BoundData[d]] = "loading"
      BY <2>1, <1>2, <1>7, <1>8
    <3>2. pc[Owner[d]] \in {"loading", "waiting"} /\ control[Owner[d]] = d /\ Owner[d] \in Thread
      BY <3>1, CacheAssumption DEF Waiters
    <3>3. Owner[d] # t
      BY <3>1, <3>2 DEF k, c
    <3> QED BY <3>2, <3>3, <1>1
  <2> QED BY <2>1 DEF Waiters
<1>12. Whole'
  <2>1. ASSUME NEW d \in Control, answer'[d] = "data", RetainCount'[d] > 0
        PROVE  load'[BoundData'[d]] = "complete"
    <3>1. CASE d = c
      <4>1. a = "data"
        BY <2>1, <3>1, <1>1, <1>2 DEF Fields
      <4> QED BY <4>1, <3>1, <1>2, <1>8 DEF k
    <3>2. CASE d # c
      <4>1. answer[d] = "data" /\ RetainCount[d] > 0 /\ BoundData'[d] = BoundData[d]
        BY <2>1, <3>2, <1>2 DEF Fields
      <4>2. load[BoundData[d]] = "complete"
        BY <4>1 DEF Whole
      <4>3. BoundData[d] # k
        BY <4>2, <1>3
      <4> QED BY <4>1, <4>2, <4>3, <1>7
    <3> QED BY <3>1, <3>2
  <2> QED BY <2>1 DEF Whole
<1>13. Exact'
  <2>1. Counted' = Counted \cup {k} /\ k \notin Counted
    BY <1>3, <1>7, <1>8 DEF Counted
  <2>2. \A j \in Counted : bytes'[j] = bytes[j]
    BY <2>1, <1>7
  <2> QED BY <2>1, <2>2, <1>8, LoadCounted
<1> QED BY <1>1, <1>6, <1>9, <1>10, <1>11, <1>12, <1>13

\* All bytes are counted, and the data are whole.
LEMMA LoadCompletesKeeps == ASSUME Sound, NEW t \in Thread, LoadCompletes(t)  PROVE Sound'
<1> USE DEF Sound
<1> DEFINE k == BoundData[control[t]]
<1>1. pc[t] = "loading" /\ control[t] \in Control
  BY DEF LoadCompletes, Calls
<1>2. k \in Resident /\ k \in Key
  BY <1>1 DEF Pins, Fields
<1>3. lru' \in Seq(Key) /\ Resident' = Resident /\ IsInjective(lru')
  <2>1. lru' = <<k>> \o Without({k})
    BY DEF LoadCompletes
  <2> HIDE DEF k
  <2> QED BY <1>2, <2>1, Touching DEF Resident
<1>4. Size[k] \in Nat
  BY <1>2, CacheAssumption
<1>5. /\ Goto(t, "trimming") /\ load' = [load EXCEPT ![k] = "complete"]
      /\ bytes' = [bytes EXCEPT ![k] = Size[k]] /\ ResidentBytes' = ResidentBytes + Size[k]
      /\ Answer(control[t], "data") /\ UNCHANGED controls
  BY DEF LoadCompletes
<1> HIDE DEF Sound
<1> QED BY <1>1, <1>3, <1>4, <1>5, LoadEnds

\* The bytes loaded so far are counted, and nobody is given data.
LEMMA LoadFailsKeeps == ASSUME Sound, NEW t \in Thread, LoadFails(t)  PROVE Sound'
<1> USE DEF Sound
<1> DEFINE k == BoundData[control[t]]
<1>1. pc[t] = "loading" /\ control[t] \in Control
  BY DEF LoadFails, Calls
<1>2. k \in Resident /\ k \in Key
  BY <1>1 DEF Pins, Fields
<1>3. lru' \in Seq(Key) /\ Resident' = Resident /\ IsInjective(lru')
  BY DEF LoadFails, Fields, Resident
<1>4. Size[k] \in Nat
  BY <1>2, CacheAssumption
<1>5. PICK n \in {0, Size[k]} : bytes' = [bytes EXCEPT ![k] = n] /\ ResidentBytes' = ResidentBytes + n
  BY DEF LoadFails
<1>6. /\ Goto(t, "outside") /\ load' = [load EXCEPT ![k] = "failed"]
      /\ Answer(control[t], "raised") /\ UNCHANGED controls
  BY DEF LoadFails
<1>7. n \in Nat
  BY <1>4
<1> HIDE DEF Sound
<1> QED BY <1>1, <1>3, <1>5, <1>6, <1>7, LoadEnds

\* The new entry is nobody's but this control's.
LEMMA AcquireNewKeeps == ASSUME Sound, NEW c \in Control, AcquireNew(c)  PROVE Sound'
<1> USE DEF Sound
<1> DEFINE k == CacheKey[c]
<1>0. "loading" \in Steps /\ Enter(c, "loading")
  BY DEF Steps, AcquireNew
<1>1. /\ k \notin Resident /\ k # NoKey /\ RetainCount[c] = 0 /\ BoundData[c] = NoKey
      /\ BoundData' = [BoundData EXCEPT ![c] = k] /\ RetainCount' = [RetainCount EXCEPT ![c] = 1]
      /\ lru' = <<k>> \o lru /\ load' = [load EXCEPT ![k] = "loading"] /\ bytes' = [bytes EXCEPT ![k] = 0]
      /\ answer' = [answer EXCEPT ![c] = "none"] /\ ResidentBytes' = ResidentBytes /\ CacheKey' = CacheKey
  BY DEF AcquireNew, Bind, Answer, FindDataByKeyAndClass
<1>2. /\ Calls' /\ pc[Owner[c]] = "outside" /\ pc'[Owner[c]] = "loading"
      /\ control'[Owner[c]] = c /\ Owner[c] \in Thread
      /\ \A t \in Thread : t # Owner[c] => pc'[t] = pc[t] /\ control'[t] = control[t]
      /\ \A t \in Thread : pc[t] # "outside" => t # Owner[c] /\ control[t] # c
  BY <1>0, Entering
<1>3. k \in Key
  BY <1>1 DEF Fields
<1> HIDE DEF k
<1>4. lru' \in Seq(Key) /\ Resident' = Resident \cup {k} /\ IsInjective(lru')
  BY <1>1, <1>3, PrependRange DEF Fields, Resident
<1>5. Fields'
  BY <1>1, <1>3, <1>4 DEF Fields
<1>6. /\ \A j : j # k => load'[j] = load[j] /\ bytes'[j] = bytes[j]
      /\ load'[k] = "loading"
      /\ \A d \in Control : d # c => BoundData'[d] = BoundData[d] /\ RetainCount'[d] = RetainCount[d]
      /\ BoundData'[c] = k /\ RetainCount'[c] = 1
  BY <1>1, <1>3 DEF Fields
<1>7. \A d \in Control : d # c /\ BoundData'[d] # NoKey => BoundData'[d] \in Resident /\ BoundData'[d] # k
  BY <1>1, <1>6 DEF Pins
<1>8. \A t \in Thread : pc[t] \in {"loading", "waiting", "resetting"} =>
         /\ t # Owner[c] /\ pc'[t] = pc[t] /\ control'[t] = control[t]
         /\ control[t] # c /\ control[t] \in Control
         /\ BoundData'[control[t]] = BoundData[control[t]]
         /\ RetainCount'[control[t]] = RetainCount[control[t]]
  BY <1>2, <1>6 DEF Calls
<1>9. Pins'
  <2>1. \A d \in Control : BoundData'[d] # NoKey => BoundData'[d] \in Resident'
    BY <1>4, <1>6, <1>7
  <2>2. \A d \in Control : RetainCount'[d] > 0 => BoundData'[d] # NoKey
    BY <1>1, <1>6 DEF Pins
  <2>3. \A u \in Thread : pc'[u] \in {"loading", "waiting"} => RetainCount'[control'[u]] > 0
    BY <1>2, <1>6, <1>8 DEF Pins
  <2>4. \A u \in Thread : pc'[u] = "resetting" => RetainCount'[control'[u]] = 0
    BY <1>2, <1>8 DEF Pins
  <2> QED BY <2>1, <2>2, <2>3, <2>4 DEF Pins
<1>10. Loaders'
  <2>1. ASSUME NEW u \in Thread, u # Owner[c], pc'[u] = "loading"
        PROVE  /\ pc[u] = "loading" /\ BoundData'[control'[u]] = BoundData[control[u]]
               /\ BoundData[control[u]] # k /\ load'[BoundData'[control'[u]]] = "loading"
    <3>1. pc[u] = "loading"
      BY <2>1, <1>2
    <3>2. BoundData'[control'[u]] = BoundData[control[u]] /\ control[u] \in Control /\ control[u] # c
      BY <3>1, <1>8
    <3>3. BoundData[control[u]] # NoKey
      BY <3>1, <3>2 DEF Pins
    <3>4. BoundData[control[u]] # k
      BY <3>2, <3>3, <1>1 DEF Pins
    <3> QED BY <3>1, <3>2, <3>4, <1>6 DEF Loaders
  <2>2. \A u \in Thread : pc'[u] = "loading" => load'[BoundData'[control'[u]]] = "loading"
    BY <2>1, <1>2, <1>6
  <2>3. ASSUME NEW j \in Resident', load'[j] = "loading"
        PROVE  \E u \in Thread : pc'[u] = "loading" /\ BoundData'[control'[u]] = j
    <3>1. CASE j = k
      BY <3>1, <1>2, <1>6
    <3>2. CASE j # k
      <4>1. j \in Resident /\ load[j] = "loading"
        BY <2>3, <3>2, <1>4, <1>6
      <4>2. PICK u \in Thread : pc[u] = "loading" /\ BoundData[control[u]] = j
        BY <4>1 DEF Loaders
      <4> QED BY <4>2, <1>8
    <3> QED BY <3>1, <3>2
  <2>4. \A u, v \in Thread :
           pc'[u] = "loading" /\ pc'[v] = "loading" /\ u # v =>
              BoundData'[control'[u]] # BoundData'[control'[v]]
    BY <2>1, <1>2, <1>6 DEF Loaders
  <2> QED BY <2>2, <2>3, <2>4 DEF Loaders
<1>11. Waiters'
  <2>1. ASSUME NEW d \in Control, BoundData'[d] # NoKey, load'[BoundData'[d]] = "loading"
        PROVE  pc'[Owner[d]] \in {"loading", "waiting"} /\ control'[Owner[d]] = d
    <3>1. CASE d = c
      BY <1>2, <3>1
    <3>2. CASE d # c
      <4>1. BoundData[d] # NoKey /\ load[BoundData[d]] = "loading"
        BY <1>6, <1>7, <2>1, <3>2
      <4>2. pc[Owner[d]] \in {"loading", "waiting"} /\ control[Owner[d]] = d /\ Owner[d] \in Thread
        BY <4>1, CacheAssumption DEF Waiters
      <4> QED BY <1>8, <4>2
    <3> QED BY <3>1, <3>2
  <2> QED BY <2>1 DEF Waiters
<1>12. Whole'
  <2>1. ASSUME NEW d \in Control, answer'[d] = "data", RetainCount'[d] > 0
        PROVE  load'[BoundData'[d]] = "complete"
    <3>1. d # c
      BY <2>1, <1>1 DEF Fields
    <3>2. answer[d] = "data" /\ RetainCount[d] > 0 /\ BoundData'[d] = BoundData[d]
      BY <2>1, <3>1, <1>1, <1>6 DEF Fields
    <3>3. BoundData'[d] # k
      BY <3>1, <3>2, <1>7 DEF Pins
    <3> QED BY <3>2, <3>3, <1>6 DEF Whole
  <2> QED BY <2>1 DEF Whole
<1>13. Exact'
  <2>1. Counted' = Counted /\ k \notin Counted
    BY <1>1, <1>4, <1>6 DEF Counted, k
  <2>2. Total(bytes', Counted) = Total(bytes, Counted)
    <3>1. \A j \in Counted : bytes'[j] = bytes[j]
      BY <2>1, <1>6
    <3> QED BY <3>1, CountedFinite, TotalSame
  <2> QED BY <1>1, <2>1, <2>2, CountMeans, CountMeansNext
<1> QED BY <1>2, <1>4, <1>5, <1>9, <1>10, <1>11, <1>12, <1>13 DEF IsInjective

\* Entries that nobody pins are freed.
LEMMA Freeing ==
    ASSUME Sound, NEW ks \in SUBSET Unpinned, Free(ks),
           ResidentBytes' = ResidentBytes - SizeOf(ks),
           UNCHANGED <<load, bytes, CacheKey, RetainCount, answer>>,
           Calls',
           \A u \in Thread :
              \/ pc'[u] = pc[u] /\ control'[u] = control[u]
              \/ pc[u] \in {"outside", "trimming"} /\ pc'[u] \in {"outside", "trimming"}
    PROVE  Sound'
<1> USE DEF Sound
<1>1. lru' \in Seq(Key) /\ Resident' = Resident \ ks /\ IsInjective(lru')
  BY WithoutMeans DEF Free, Fields, Resident
<1>2. ks \in SUBSET Resident /\ ks \in SUBSET Key /\ NoKey \notin ks
  <2>1. ks \in SUBSET Resident
    BY DEF Unpinned
  <2> QED BY <2>1, ResidentFinite, CacheAssumption DEF Resident, Fields
<1>3. \A d \in Control : BoundData'[d] = IF BoundData[d] \in ks THEN NoKey ELSE BoundData[d]
  BY DEF Free
<1>4. \A d \in Control : RetainCount[d] > 0 =>
         BoundData[d] \notin ks /\ BoundData'[d] = BoundData[d] /\ BoundData[d] # NoKey
  <2>1. \A d \in Control : BoundData[d] \in ks => RetainCount[d] = 0
    BY DEF Unpinned, BoundTo
  <2> QED BY <2>1, <1>3 DEF Pins
<1>5. \A d \in Control : BoundData'[d] # NoKey => BoundData'[d] = BoundData[d] /\ BoundData[d] \notin ks
  BY <1>3
<1>6. \A u \in Thread : pc[u] \in {"loading", "waiting", "resetting"} =>
                           pc'[u] = pc[u] /\ control'[u] = control[u] /\ control[u] \in Control
  BY DEF Calls
<1>7. \A u \in Thread : pc'[u] \in {"loading", "waiting", "resetting"} =>
                           pc'[u] = pc[u] /\ control'[u] = control[u] /\ control[u] \in Control
  BY DEF Calls
<1>8. \A u \in Thread : pc[u] = "loading" => BoundData'[control[u]] = BoundData[control[u]]
  BY <1>4, <1>6 DEF Pins
<1>9. Fields'
  <2>1. BoundData' \in [Control -> Key \cup {NoKey}]
    BY DEF Free, Fields
  <2>2. ResidentBytes' \in Int
    <3>1. IsFiniteSet(Resident)
      BY ResidentFinite DEF Fields, Resident
    <3>2. IsFiniteSet(ks)
      BY <1>2, <3>1, FS_Subset
    <3>3. \A j \in ks : bytes[j] \in Int
      BY <1>2 DEF Fields
    <3>4. Total(bytes, ks) \in Int
      BY <3>2, <3>3, TotalWithout
    <3> QED BY <3>4, SizeIsTotal DEF Fields
  <2> QED BY <1>1, <2>1, <2>2 DEF Fields
<1>10. Pins'
  <2>1. \A d \in Control : BoundData'[d] # NoKey => BoundData'[d] \in Resident'
    BY <1>1, <1>5 DEF Pins
  <2>2. \A d \in Control : RetainCount'[d] > 0 => BoundData'[d] # NoKey
    BY <1>4
  <2>3. \A u \in Thread : pc'[u] \in {"loading", "waiting"} => RetainCount'[control'[u]] > 0
    BY <1>7 DEF Pins
  <2>4. \A u \in Thread : pc'[u] = "resetting" => RetainCount'[control'[u]] = 0
    BY <1>7 DEF Pins
  <2> QED BY <2>1, <2>2, <2>3, <2>4 DEF Pins
<1>11. Loaders'
  <2>1. \A u \in Thread : pc'[u] = "loading" =>
           pc[u] = "loading" /\ BoundData'[control'[u]] = BoundData[control[u]]
    BY <1>7, <1>8
  <2>2. \A u \in Thread : pc'[u] = "loading" => load'[BoundData'[control'[u]]] = "loading"
    BY <2>1 DEF Loaders
  <2>3. ASSUME NEW j \in Resident', load'[j] = "loading"
        PROVE  \E u \in Thread : pc'[u] = "loading" /\ BoundData'[control'[u]] = j
    <3>1. PICK u \in Thread : pc[u] = "loading" /\ BoundData[control[u]] = j
      BY <2>3, <1>1 DEF Loaders
    <3> QED BY <3>1, <1>6, <1>8
  <2>4. \A u, v \in Thread :
           pc'[u] = "loading" /\ pc'[v] = "loading" /\ u # v =>
              BoundData'[control'[u]] # BoundData'[control'[v]]
    BY <2>1 DEF Loaders
  <2> QED BY <2>2, <2>3, <2>4 DEF Loaders
<1>12. Waiters'
  <2>1. ASSUME NEW d \in Control, BoundData'[d] # NoKey, load'[BoundData'[d]] = "loading"
        PROVE  pc'[Owner[d]] \in {"loading", "waiting"} /\ control'[Owner[d]] = d
    <3>1. pc[Owner[d]] \in {"loading", "waiting"} /\ control[Owner[d]] = d /\ Owner[d] \in Thread
      BY <2>1, <1>5, CacheAssumption DEF Waiters
    <3> QED BY <3>1, <1>6
  <2> QED BY <2>1 DEF Waiters
<1>13. Whole'
  BY <1>4 DEF Whole
<1>14. Exact'
  <2>1. ASSUME NEW j \in ks  PROVE j \in Counted
    <3>1. j \in Resident /\ \A d \in Control : BoundData[d] = j => RetainCount[d] = 0
      BY DEF Unpinned, BoundTo
    <3>2. ASSUME load[j] = "loading"  PROVE FALSE
      <4>1. PICK u \in Thread : pc[u] = "loading" /\ BoundData[control[u]] = j
        BY <3>1, <3>2 DEF Loaders
      <4>2. control[u] \in Control /\ RetainCount[control[u]] > 0
        BY <4>1, <1>6 DEF Pins
      <4> QED BY <3>1, <4>1, <4>2
    <3> QED BY <3>1, <3>2 DEF Counted
  <2>2. Counted' = Counted \ ks
    BY <1>1 DEF Counted
  <2>3. Total(bytes, Counted \ ks) = Total(bytes, Counted) - Total(bytes, ks)
    BY <2>1, CountedFinite, TotalSplit
  <2> QED BY <2>2, <2>3, CountMeans, CountMeansNext, SizeIsTotal
<1> QED BY <1>1, <1>9, <1>10, <1>11, <1>12, <1>13, <1>14 DEF IsInjective

\* A trim frees unpinned entries only.
LEMMA TrimmedUnpinned == \A n : Trimmed(n) \in SUBSET Unpinned
BY DEF Trimmed

\* The trim at the end of an acquire, the trim of everything, the eviction of one entry.
LEMMA TrimKeeps == ASSUME Sound, NEW t \in Thread, Trim(t)  PROVE Sound'
<1> DEFINE ks == Trimmed(ResidentByteLimit)
<1>1. /\ pc[t] = "trimming" /\ Goto(t, "outside") /\ Free(ks)
      /\ ResidentBytes' = ResidentBytes - SizeOf(ks)
      /\ UNCHANGED <<load, bytes, CacheKey, RetainCount, answer>>
  BY DEF Trim, TrimToBudget
<1>2. /\ Calls' /\ pc'[t] = "outside" /\ \A u \in Thread : u # t => pc'[u] = pc[u]
      /\ control' = control
  BY <1>1, Going DEF Sound, Steps
<1>3. ks \in SUBSET Unpinned
  BY TrimmedUnpinned
<1> HIDE DEF ks
<1>4. \A u \in Thread :
         \/ pc'[u] = pc[u] /\ control'[u] = control[u]
         \/ pc[u] \in {"outside", "trimming"} /\ pc'[u] \in {"outside", "trimming"}
  BY <1>1, <1>2
<1> QED BY <1>1, <1>2, <1>3, <1>4, Freeing

LEMMA TrimAllKeeps == ASSUME Sound, NEW t \in Thread, TrimAll(t)  PROVE Sound'
<1> DEFINE ks == Trimmed(0)
<1>1. /\ Free(ks) /\ ResidentBytes' = ResidentBytes - SizeOf(ks)
      /\ UNCHANGED <<load, bytes, CacheKey, RetainCount, answer>> /\ pc' = pc /\ control' = control
  BY DEF TrimAll, TrimToBudget, threads
<1>2. Calls'
  BY <1>1 DEF Sound, Calls
<1>3. ks \in SUBSET Unpinned
  BY TrimmedUnpinned
<1> HIDE DEF ks
<1> QED BY <1>1, <1>2, <1>3, Freeing

\* An eviction keeps the invariant, or frees an entry that is in use.
LEMMA EvictDataKeeps == ASSUME Sound, NEW c \in Control, EvictData(c)  PROVE IInv'
<1> DEFINE k == IF BoundData[c] = NoKey THEN CacheKey[c] ELSE BoundData[c]
<1>0. CASE k \notin Unpinned
  <2>1. Enter(c, "astray")
    BY <1>0 DEF EvictData
  <2>2. pc'[Owner[c]] = "astray" /\ Owner[c] \in Thread
    BY <2>1, CacheAssumption DEF Enter, Sound, Calls
  <2> QED BY <2>2 DEF IInv, Astray
<1> SUFFICES ASSUME k \in Unpinned  PROVE Sound'
  BY <1>0 DEF IInv
<1>1. /\ Enter(c, "outside") /\ k \in Unpinned /\ Free({k}) /\ ResidentBytes' = ResidentBytes - bytes[k]
      /\ UNCHANGED <<load, bytes, CacheKey, RetainCount, answer>>
  BY DEF EvictData, Evicted
<1> HIDE DEF k
<1>2. /\ Calls' /\ pc[Owner[c]] = "outside" /\ pc'[Owner[c]] = "outside"
      /\ \A t \in Thread : t # Owner[c] => pc'[t] = pc[t] /\ control'[t] = control[t]
  BY <1>1, Entering DEF Sound, Steps
<1>3. k \in Key
  BY <1>1, ResidentFinite DEF Unpinned, Resident, Sound, Fields
<1>4. SizeOf({k}) = bytes[k]
  <2>1. IsFiniteSet({k}) /\ {k} \ {k} = {} /\ bytes[k] \in Int
    <3>1. IsFiniteSet({k})
      BY FS_Singleton
    <3>2. bytes[k] \in Nat
      BY <1>3 DEF Sound, Fields
    <3> QED BY <3>1, <3>2
  <2>2. Total(bytes, {k}) = bytes[k] + Total(bytes, {k} \ {k})
    BY <2>1, TotalWithout
  <2>3. Total(bytes, {k}) = bytes[k]
    BY <2>1, <2>2, TotalEmpty
  <2> QED BY <2>3, SizeIsTotal
<1>5. \A u \in Thread :
         \/ pc'[u] = pc[u] /\ control'[u] = control[u]
         \/ pc[u] \in {"outside", "trimming"} /\ pc'[u] \in {"outside", "trimming"}
  BY <1>2
<1>6. {k} \in SUBSET Unpinned /\ ResidentBytes' = ResidentBytes - SizeOf({k})
  BY <1>1, <1>4
<1> QED BY <1>1, <1>2, <1>5, <1>6, Freeing

-----------------------------------------------------------------------------
\* Every step keeps the invariant.
LEMMA NextKeeps == ASSUME Sound, [Next]_vars  PROVE IInv'
<1>1. CASE Next
  <2>1. ASSUME NEW c \in Control,
               \/ \E k \in Key : SetCacheKey(c, k)
               \/ Reset(c)
               \/ AcquireRetained(c) \/ AcquireBound(c) \/ AcquireNew(c) \/ AcquireFound(c)
               \/ Release(c)
        PROVE  Sound'
    BY <2>1, SetCacheKeyKeeps, ResetKeeps, AcquireRetainedKeeps, AcquireBoundKeeps,
       AcquireNewKeeps, AcquireFoundKeeps, ReleaseKeeps
  <2>2. ASSUME NEW t \in Thread, ThreadProceeds(t) \/ LoadFails(t) \/ TrimAll(t)  PROVE Sound'
    BY <2>2, ResetUnlinkKeeps, LoadCompletesKeeps, WaitEndsKeeps, TrimKeeps, LoadFailsKeeps,
       TrimAllKeeps DEF ThreadProceeds
  <2>3. ASSUME NEW c \in Control, EvictData(c)  PROVE IInv'
    BY <2>3, EvictDataKeeps
  <2> QED BY <1>1, <2>1, <2>2, <2>3 DEF Next, IInv
<1>2. CASE UNCHANGED vars
  <2>1. /\ UNCHANGED <<lru, load, bytes, ResidentBytes, CacheKey, BoundData, RetainCount>>
        /\ UNCHANGED <<pc, control, answer>>
    BY <1>2 DEF vars, entries, controls, threads
  <2>2. Exact'
    BY <2>1, CountMeans, CountMeansNext DEF Counted, Resident, Sound
  <2>3. Sound'
    BY <2>1, <2>2 DEF Sound, Fields, Calls, Pins, Loaders, Waiters, Whole, Resident, IsInjective
  <2> QED BY <2>3 DEF IInv
<1> QED BY <1>1, <1>2

\* Nothing happens once an entry in use was freed.
LEMMA AstrayEnds == ASSUME Astray, [Next]_vars  PROVE Astray'
<1>1. CASE Next
  <2>1. ~Running
    BY DEF Running
  <2>2. ASSUME NEW c \in Control  PROVE /\ \A step : ~Enter(c, step)
                                        /\ \A k \in Key : ~SetCacheKey(c, k)
    BY <2>1 DEF Enter, SetCacheKey
  <2>3. ASSUME NEW t \in Thread  PROVE \A step : ~Goto(t, step)
    BY <2>1 DEF Goto
  <2>4. ASSUME NEW c \in Control
        PROVE  ~ \/ Reset(c) \/ AcquireRetained(c) \/ AcquireBound(c) \/ AcquireNew(c)
                 \/ AcquireFound(c) \/ Release(c) \/ EvictData(c)
    BY <2>2 DEF Reset, AcquireRetained, AcquireBound, AcquireNew, AcquireFound, Release,
       EvictData
  <2>5. ASSUME NEW t \in Thread  PROVE ~(ThreadProceeds(t) \/ LoadFails(t) \/ TrimAll(t))
    BY <2>1, <2>3 DEF ThreadProceeds, ResetUnlink, LoadCompletes, WaitEnds, Trim, LoadFails,
       TrimAll
  <2> QED BY <1>1, <2>2, <2>4, <2>5 DEF Next
<1>2. CASE UNCHANGED vars
  BY <1>2 DEF vars, threads, Astray
<1> QED BY <1>1, <1>2

\* Every state of the cache satisfies the invariant, for any constants.
THEOREM CacheInductive == Spec => []IInv
<1>1. Init => IInv
  BY InitHolds DEF IInv
<1>2. IInv /\ [Next]_vars => IInv'
  BY NextKeeps, AstrayEnds DEF IInv
<1> QED BY <1>1, <1>2, PTL DEF Spec

\* Until an eviction frees an entry that another control pins, no entry is freed
\* under a control that pins it or a thread that loads it or waits for it: by no
\* trim, by no failed load and in no wait.
THEOREM UsersOutlived == Spec => []EntriesOutliveTheirUsers
<1>1. Sound => EntriesOutliveTheirUsers
  BY DEF Sound, Pins, Calls, EntriesOutliveTheirUsers
<1>2. IInv => EntriesOutliveTheirUsers
  BY <1>1 DEF IInv, EntriesOutliveTheirUsers
<1> QED BY CacheInductive, <1>2, PTL

\* Under the same condition a resource has one entry in the list, and at most
\* one thread loads it.
THEOREM OneLoad == Spec => []OneLoadPerResource
<1>1. Sound => OneLoadPerResource
  BY DEF Sound, Loaders, OneLoadPerResource
<1>2. IInv => OneLoadPerResource
  BY <1>1 DEF IInv, OneLoadPerResource
<1> QED BY CacheInductive, <1>2, PTL

\* Under the same condition whoever was given data and still pins them has a
\* completely loaded entry.
THEOREM WholeData == Spec => []DataAreWhole
<1>1. IInv => DataAreWhole
  BY DEF IInv, Sound, Whole, DataAreWhole
<1> QED BY CacheInductive, <1>1, PTL

\* Under the same condition ResidentBytes is the sum over the resident entries
\* whose load has ended, through loads, failed loads, trims and evictions.
THEOREM ExactCount == Spec => []CountIsExact
<1>1. IInv => CountIsExact
  BY DEF IInv, Sound, Exact, CountIsExact
<1> QED BY CacheInductive, <1>1, PTL
=============================================================================
