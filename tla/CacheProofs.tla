------------------------------ MODULE CacheProofs ------------------------------
(***************************************************************************)
(* What the page cache keeps to, whatever the archives, the budget and the   *)
(* decoded contents are.                                                     *)
(*                                                                         *)
(* The first part is about sums, by which both caches in memory charge their *)
(* budgets; ViewerProofs uses it for the file cache.                         *)
(***************************************************************************)
EXTENDS PageCache, FiniteSetTheorems, WellFoundedInduction, TLAPS

-----------------------------------------------------------------------------
(* Sums over finite sets.  SumFunctionOnSet folds by taking one element out   *)
(* after another; that the order does not matter, and what a sum becomes when *)
(* its set does, is shown by looking at a smallest set for which it fails.    *)

\* Among sets of elements of a finite set there is a smallest one.
LEMMA Smallest ==
  ASSUME NEW S, IsFiniteSet(S), NEW F \in SUBSET SUBSET S, F # {}
  PROVE  \E T \in F : \A U \in F : U \subseteq T => U = T
<1> DEFINE R == StrictSubsetOrdering(S)
<1>1. IsWellFoundedOn(R, SUBSET S)
  BY FS_StrictSubsetOrderingWellFounded, FS_FiniteSubsetsOfFinite
<1>2. \E T \in F : \A U \in F : ~(<<U, T>> \in R)
  <2> HIDE DEF R
  <2> QED BY <1>1, WFMin
<1> QED BY <1>2 DEF StrictSubsetOrdering

\* The element a fold takes out first.
Pick(T) == CHOOSE x \in T : TRUE

\* What the recursion of a sum over S says of the function that it defines.
Adds(iter, f, S) ==
    iter = [T \in SUBSET S |-> IF T = {} THEN 0 ELSE f[Pick(T)] + iter[T \ {Pick(T)}]]

LEMMA SumIsRecursion ==
  ASSUME NEW f, NEW S
  PROVE  SumFunctionOnSet(f, S) = (CHOOSE iter : Adds(iter, f, S))[S]
BY DEF SumFunctionOnSet, FoldFunctionOnSet, MapThenFoldSet, Adds, Pick

LEMMA PickIsIn == ASSUME NEW T, T # {} PROVE Pick(T) \in T
BY DEF Pick

\* Two such functions agree where their domains meet.
LEMMA AddsAgree ==
  ASSUME NEW S, IsFiniteSet(S), NEW f, NEW i, NEW j, NEW V, NEW W,
         S \subseteq V, S \subseteq W, Adds(i, f, V), Adds(j, f, W)
  PROVE  i[S] = j[S]
<1> DEFINE F == {T \in SUBSET S : i[T] # j[T]}
<1> SUFFICES ASSUME F # {} PROVE FALSE
  OBVIOUS
<1>1. PICK T \in F : \A U \in F : U \subseteq T => U = T
  <2>1. F \in SUBSET SUBSET S
    OBVIOUS
  <2> HIDE DEF F
  <2> QED BY <2>1, Smallest
<1>2. T \in SUBSET V /\ T \in SUBSET W
  OBVIOUS
<1>3. /\ i[T] = IF T = {} THEN 0 ELSE f[Pick(T)] + i[T \ {Pick(T)}]
      /\ j[T] = IF T = {} THEN 0 ELSE f[Pick(T)] + j[T \ {Pick(T)}]
  BY <1>2 DEF Adds
<1>4. T # {}
  BY <1>3
<1>5. T \ {Pick(T)} \in SUBSET S /\ T \ {Pick(T)} # T
  BY <1>4, PickIsIn
<1>6. i[T \ {Pick(T)}] = j[T \ {Pick(T)}]
  BY <1>1, <1>5
<1> QED BY <1>3, <1>4, <1>6

\* There is such a function on the subsets of every finite set.
LEMMA AddsExists ==
  ASSUME NEW S, IsFiniteSet(S), NEW f
  PROVE  \E iter : Adds(iter, f, S)
<1> DEFINE F == {T \in SUBSET S : ~\E iter : Adds(iter, f, T)}
<1> SUFFICES ASSUME F # {} PROVE FALSE
  OBVIOUS
<1>1. PICK T \in F : \A U \in F : U \subseteq T => U = T
  <2>1. F \in SUBSET SUBSET S
    OBVIOUS
  <2> HIDE DEF F
  <2> QED BY <2>1, Smallest
<1>2. \A U \in SUBSET T : U # T => \E iter : Adds(iter, f, U)
  BY <1>1
<1>3. \A U \in SUBSET T : IsFiniteSet(U)
  BY FS_Subset
<1> DEFINE part(U) == CHOOSE iter : Adds(iter, f, U)
           all == [U \in SUBSET T |->
                     IF U = {} THEN 0 ELSE f[Pick(U)] + part(U \ {Pick(U)})[U \ {Pick(U)}]]
<1>4. ASSUME NEW U \in SUBSET T, U # T PROVE all[U] = part(U)[U]
  <2>1. Adds(part(U), f, U)
    BY <1>2, <1>4
  <2>2. part(U)[U] = IF U = {} THEN 0 ELSE f[Pick(U)] + part(U)[U \ {Pick(U)}]
    <3> HIDE DEF part
    <3> QED BY <2>1 DEF Adds
  <2>3. CASE U = {}
    BY <2>2, <2>3
  <2>4. CASE U # {}
    <3> DEFINE V == U \ {Pick(U)}
    <3>1. V \in SUBSET T /\ V # T /\ V \subseteq U
      BY <1>4, <2>4, PickIsIn
    <3>2. Adds(part(V), f, V) /\ IsFiniteSet(V)
      BY <1>2, <1>3, <3>1
    <3>3. part(U)[V] = part(V)[V]
      <4> HIDE DEF part, V
      <4> QED BY <2>1, <3>1, <3>2, AddsAgree
    <3> QED BY <2>2, <2>4, <3>3
  <2> QED BY <2>3, <2>4
<1>5. ASSUME NEW U \in SUBSET T, U # {}
      PROVE  all[U] = f[Pick(U)] + all[U \ {Pick(U)}]
  <2>1. U \ {Pick(U)} \in SUBSET T /\ U \ {Pick(U)} # T
    BY <1>5, PickIsIn
  <2>2. all[U \ {Pick(U)}] = part(U \ {Pick(U)})[U \ {Pick(U)}]
    BY <1>4, <2>1
  <2>3. all[U] = f[Pick(U)] + part(U \ {Pick(U)})[U \ {Pick(U)}]
    BY <1>5
  <2> QED BY <2>2, <2>3
<1>6. all[{}] = 0
  OBVIOUS
<1>7. all = [U \in SUBSET T |-> all[U]]
  OBVIOUS
<1> HIDE DEF all
<1>8. Adds(all, f, T)
  BY <1>5, <1>6, <1>7 DEF Adds
<1> QED BY <1>1, <1>8

\* The recursion that a sum obeys.
LEMMA SumStep ==
  ASSUME NEW S, IsFiniteSet(S), NEW f
  PROVE  /\ SumFunctionOnSet(f, {}) = 0
         /\ S # {} => SumFunctionOnSet(f, S) =
                        f[Pick(S)] + SumFunctionOnSet(f, S \ {Pick(S)})
<1> DEFINE iter(T) == CHOOSE i : Adds(i, f, T)
<1>1. IsFiniteSet({})
  BY FS_EmptySet
<1>2. \A T : IsFiniteSet(T) => Adds(iter(T), f, T) /\ SumFunctionOnSet(f, T) = iter(T)[T]
  BY AddsExists, SumIsRecursion
<1> HIDE DEF iter
<1>3. SumFunctionOnSet(f, {}) = 0
  BY <1>1, <1>2 DEF Adds
<1>4. ASSUME S # {}
      PROVE  SumFunctionOnSet(f, S) = f[Pick(S)] + SumFunctionOnSet(f, S \ {Pick(S)})
  <2> DEFINE T == S \ {Pick(S)}
  <2>1. IsFiniteSet(T) /\ T \subseteq S
    BY FS_Subset
  <2>2. iter(S)[S] = f[Pick(S)] + iter(S)[T]
    BY <1>2, <1>4 DEF Adds
  <2>3. iter(S)[T] = iter(T)[T]
    <3> HIDE DEF T
    <3> QED BY <1>2, <2>1, AddsAgree
  <2> QED BY <1>2, <2>1, <2>2, <2>3
<1> QED BY <1>3, <1>4

\* A sum of natural numbers is one.
LEMMA SumIsNat ==
  ASSUME NEW S, IsFiniteSet(S), NEW f, \A x \in S : f[x] \in Nat
  PROVE  SumFunctionOnSet(f, S) \in Nat
<1> DEFINE F == {T \in SUBSET S : SumFunctionOnSet(f, T) \notin Nat}
<1> SUFFICES ASSUME F # {} PROVE FALSE
  OBVIOUS
<1>1. PICK T \in F : \A U \in F : U \subseteq T => U = T
  <2>1. F \in SUBSET SUBSET S
    OBVIOUS
  <2> HIDE DEF F
  <2> QED BY <2>1, Smallest
<1>2. IsFiniteSet(T)
  BY FS_Subset
<1>3. T # {}
  <2>1. SumFunctionOnSet(f, {}) = 0
    BY FS_EmptySet, SumStep
  <2>2. SumFunctionOnSet(f, T) \notin Nat
    OBVIOUS
  <2> QED BY <2>1, <2>2
<1> DEFINE U == T \ {Pick(T)}
<1>4. SumFunctionOnSet(f, U) \in Nat
  <2>1. U \subseteq T /\ U # T /\ U \in SUBSET S
    BY <1>3, PickIsIn
  <2>2. U \notin F
    BY <1>1, <2>1
  <2> QED BY <2>1, <2>2
<1>5. f[Pick(T)] \in Nat
  BY <1>3, PickIsIn
<1>6. SumFunctionOnSet(f, T) = f[Pick(T)] + SumFunctionOnSet(f, U)
  BY <1>2, <1>3, SumStep
<1>7. SumFunctionOnSet(f, T) \notin Nat
  OBVIOUS
<1> HIDE DEF U, F
<1> QED BY <1>4, <1>5, <1>6, <1>7

\* Any element may be taken out first.
LEMMA SumTakesOut ==
  ASSUME NEW S, IsFiniteSet(S), NEW f, \A x \in S : f[x] \in Nat, NEW x \in S
  PROVE  SumFunctionOnSet(f, S) = f[x] + SumFunctionOnSet(f, S \ {x})
<1> DEFINE Sum(T) == SumFunctionOnSet(f, T)
           F == {T \in SUBSET S : \E y \in T : Sum(T) # f[y] + Sum(T \ {y})}
<1> SUFFICES ASSUME F # {} PROVE FALSE
  OBVIOUS
<1>1. PICK T \in F : \A U \in F : U \subseteq T => U = T
  <2>1. F \in SUBSET SUBSET S
    OBVIOUS
  <2> HIDE DEF F
  <2> QED BY <2>1, Smallest
<1>2. PICK y \in T : Sum(T) # f[y] + Sum(T \ {y})
  OBVIOUS
<1> DEFINE z == Pick(T)
<1>3. z \in T /\ IsFiniteSet(T)
  BY PickIsIn, FS_Subset
<1>4. Sum(T) = f[z] + Sum(T \ {z})
  BY <1>3, SumStep
<1>5. y # z
  BY <1>2, <1>4
<1>6. Sum(T \ {z}) = f[y] + Sum((T \ {z}) \ {y})
  <2>1. T \ {z} \in SUBSET S /\ T \ {z} # T /\ y \in T \ {z}
    BY <1>3, <1>5
  <2>2. T \ {z} \notin F
    BY <1>1, <2>1
  <2> HIDE DEF Sum, z
  <2> QED BY <2>1, <2>2
<1>7. Sum(T \ {y}) = f[z] + Sum((T \ {y}) \ {z})
  <2>1. T \ {y} \in SUBSET S /\ T \ {y} # T /\ z \in T \ {y}
    BY <1>3, <1>5
  <2>2. T \ {y} \notin F
    BY <1>1, <2>1
  <2> HIDE DEF Sum, z
  <2> QED BY <2>1, <2>2
<1>8. (T \ {z}) \ {y} = (T \ {y}) \ {z}
  OBVIOUS
<1>9. f[y] \in Nat /\ f[z] \in Nat /\ Sum((T \ {z}) \ {y}) \in Nat
  <2>1. IsFiniteSet((T \ {z}) \ {y}) /\ (T \ {z}) \ {y} \subseteq S
    BY FS_Subset
  <2>2. Sum((T \ {z}) \ {y}) \in Nat
    BY <2>1, SumIsNat
  <2> QED BY <1>3, <2>2
<1> HIDE DEF Sum, z
<1> QED BY <1>2, <1>4, <1>6, <1>7, <1>8, <1>9

\* The sum over two disjoint sets is the sum of their sums.
LEMMA SumOfUnion ==
  ASSUME NEW S, IsFiniteSet(S), NEW T, IsFiniteSet(T), S \cap T = {},
         NEW f, \A x \in S \cup T : f[x] \in Nat
  PROVE  SumFunctionOnSet(f, S \cup T) = SumFunctionOnSet(f, S) + SumFunctionOnSet(f, T)
<1> DEFINE Sum(U) == SumFunctionOnSet(f, U)
           F == {U \in SUBSET S : Sum(U \cup T) # Sum(U) + Sum(T)}
<1> SUFFICES ASSUME F # {} PROVE FALSE
  OBVIOUS
<1>1. PICK U \in F : \A V \in F : V \subseteq U => V = U
  <2>1. F \in SUBSET SUBSET S
    OBVIOUS
  <2> HIDE DEF F
  <2> QED BY <2>1, Smallest
<1>2. IsFiniteSet(U) /\ IsFiniteSet(U \cup T) /\ Sum(T) \in Nat
  BY FS_Subset, FS_Union, SumIsNat
<1>3. U # {}
  <2>1. SumFunctionOnSet(f, {}) = 0
    BY FS_EmptySet, SumStep
  <2>2. Sum(U \cup T) # Sum(U) + Sum(T)
    OBVIOUS
  <2>3. {} \cup T = T
    OBVIOUS
  <2>4. U = {} => Sum(U) = 0 /\ Sum(U \cup T) = Sum(T)
    BY <2>1, <2>3
  <2> HIDE DEF Sum, F
  <2> QED BY <1>2, <2>2, <2>4
<1>4. PICK x \in U : TRUE
  BY <1>3
<1>5. Sum((U \ {x}) \cup T) = Sum(U \ {x}) + Sum(T)
  BY <1>1
<1>6. (U \cup T) \ {x} = (U \ {x}) \cup T
  OBVIOUS
<1>7. Sum(U \cup T) = f[x] + Sum((U \cup T) \ {x})
  BY <1>2, SumTakesOut
<1>8. Sum(U) = f[x] + Sum(U \ {x})
  BY <1>2, SumTakesOut
<1>9. f[x] \in Nat /\ Sum(U \ {x}) \in Nat
  <2>1. IsFiniteSet(U \ {x})
    BY FS_Subset
  <2> QED BY <2>1, SumIsNat
<1> HIDE DEF Sum
<1> QED BY <1>1, <1>2, <1>5, <1>6, <1>7, <1>8, <1>9

\* A sum depends on the values of the elements alone.
LEMMA SumOfEquals ==
  ASSUME NEW S, IsFiniteSet(S), NEW f, NEW g, \A x \in S : f[x] = g[x]
  PROVE  SumFunctionOnSet(f, S) = SumFunctionOnSet(g, S)
<1> DEFINE F == {T \in SUBSET S : SumFunctionOnSet(f, T) # SumFunctionOnSet(g, T)}
<1> SUFFICES ASSUME F # {} PROVE FALSE
  OBVIOUS
<1>1. PICK T \in F : \A U \in F : U \subseteq T => U = T
  <2>1. F \in SUBSET SUBSET S
    OBVIOUS
  <2> HIDE DEF F
  <2> QED BY <2>1, Smallest
<1>2. IsFiniteSet(T)
  BY FS_Subset
<1>3. T # {}
  BY <1>2, SumStep
<1>4. SumFunctionOnSet(f, T \ {Pick(T)}) = SumFunctionOnSet(g, T \ {Pick(T)})
  BY <1>1, <1>3, PickIsIn
<1>5. f[Pick(T)] = g[Pick(T)]
  BY <1>3, PickIsIn
<1> QED BY <1>2, <1>3, <1>4, <1>5, SumStep

\* Part of a sum, and what is left of it.
LEMMA SumOfSubset ==
  ASSUME NEW S, IsFiniteSet(S), NEW T \in SUBSET S, NEW f, \A x \in S : f[x] \in Nat
  PROVE  /\ SumFunctionOnSet(f, S \ T) = SumFunctionOnSet(f, S) - SumFunctionOnSet(f, T)
         /\ SumFunctionOnSet(f, T) <= SumFunctionOnSet(f, S)
         /\ SumFunctionOnSet(f, T) \in Nat /\ SumFunctionOnSet(f, S) \in Nat
         /\ SumFunctionOnSet(f, S \ T) \in Nat
<1>1. IsFiniteSet(T) /\ IsFiniteSet(S \ T) /\ S = (S \ T) \cup T /\ (S \ T) \cap T = {}
  BY FS_Subset
<1>2. SumFunctionOnSet(f, S) = SumFunctionOnSet(f, S \ T) + SumFunctionOnSet(f, T)
  BY <1>1, SumOfUnion
<1>3. /\ SumFunctionOnSet(f, T) \in Nat /\ SumFunctionOnSet(f, S) \in Nat
      /\ SumFunctionOnSet(f, S \ T) \in Nat
  BY <1>1, SumIsNat
<1> QED BY <1>2, <1>3

-----------------------------------------------------------------------------
(* The page cache: bypasses *)

\* No operation but insert_animation seats an animation, and it does so only
\* for a page that has none, neither in its seat nor in the bypass.
LEMMA OneAnimation == CacheSpec => []OneAnimationPerPage
<1>1. CacheInit => OneAnimationPerPage
  BY DEF CacheInit, OneAnimationPerPage
<1>2. OneAnimationPerPage /\ [CacheNext]_cacheVars => OneAnimationPerPage'
  <2> SUFFICES ASSUME OneAnimationPerPage, [CacheNext]_cacheVars,
                      NEW p \in Page,
                      animations'[p] # None, animationBypass' # None,
                      animationBypass'.page = p
               PROVE  FALSE
    BY DEF OneAnimationPerPage
  <2> USE DEF OneAnimationPerPage, ForgetBypass
  <2>1. ASSUME NEW q \in Page, NEW g \in Generation, NEW cur,
               NEW content \in ContentsOf(q, g), Insert(q, g, content, cur)
        PROVE  FALSE
    <3>1. CASE InsertAnimation(q, content, cur)
      <4>1. CASE ContainsAnimation(q) /\ UNCHANGED cacheVars
        BY <4>1 DEF cacheVars
      <4>2. CASE ~ContainsAnimation(q) /\ BypassAnimation(q, content)
        BY <4>2 DEF ContainsAnimation, BypassAnimation
      <4>3. CASE ~ContainsAnimation(q) /\ SeatAnimation(q, content, cur)
        BY <4>3 DEF ContainsAnimation, SeatAnimation, AnimationsWithout
      <4> QED BY <3>1, <4>1, <4>2, <4>3 DEF InsertAnimation
    <3>2. CASE BypassStill(q, g, content)
      BY <3>2 DEF BypassStill, Vacate, AnimationsWithout
    <3>3. CASE InsertStill(q, g, content, cur)
      BY <3>3 DEF InsertStill, AnimationsWithout
    <3> QED BY <2>1, <3>1, <3>2, <3>3 DEF Insert
  <2>2. ASSUME NEW q \in Page, DropAnimation(q)
        PROVE  FALSE
    BY <2>2 DEF DropAnimation, Vacate, AnimationsWithout
  <2>3. ASSUME NEW q \in Page, NEW g \in Generation, RemoveOlderVersions(q, g)
        PROVE  FALSE
    BY <2>3 DEF RemoveOlderVersions, Vacate, AnimationsWithout
  <2>4. ASSUME NEW keep, RetainGenerations(keep)
        PROVE  FALSE
    BY <2>4 DEF RetainGenerations, Vacate, AnimationsWithout
  <2>5. ASSUME NEW b \in Book, RemoveAllForPath(b)
        PROVE  FALSE
    BY <2>5 DEF RemoveAllForPath, Vacate, AnimationsWithout
  <2>6. ASSUME NEW b \in Book, RemoveStaticPagesForPath(b)
        PROVE  FALSE
    BY <2>6 DEF RemoveStaticPagesForPath, Vacate, AnimationsWithout
  <2>7. CASE UNCHANGED cacheVars
    BY <2>7 DEF cacheVars
  <2> QED BY <2>1, <2>2, <2>3, <2>4, <2>5, <2>6, <2>7 DEF CacheNext
<1> QED BY <1>1, <1>2, PTL DEF CacheSpec

\* Every operation that lets the memory of a bypass go empties the slot with
\* it, and nothing fills a slot without remembering it.
LEMMA BypassMemory == CacheSpec => []BypassRemembered
<1>1. CacheInit => BypassRemembered
  BY DEF CacheInit, BypassRemembered
<1>2. BypassRemembered /\ [CacheNext]_cacheVars => BypassRemembered'
  <2> SUFFICES ASSUME BypassRemembered, [CacheNext]_cacheVars
               PROVE  BypassRemembered'
    OBVIOUS
  <2> USE DEF BypassRemembered
  <2>1. ASSUME NEW q \in Page, NEW g \in Generation, NEW cur,
               NEW content \in ContentsOf(q, g), Insert(q, g, content, cur)
        PROVE  BypassRemembered'
    <3>1. CASE InsertAnimation(q, content, cur)
      <4>1. CASE UNCHANGED cacheVars
        BY <4>1 DEF cacheVars
      <4>2. CASE BypassAnimation(q, content)
        BY <4>2 DEF BypassAnimation
      <4>3. CASE SeatAnimation(q, content, cur)
        BY <4>3 DEF SeatAnimation
      <4> QED BY <3>1, <4>1, <4>2, <4>3 DEF InsertAnimation
    <3>2. CASE BypassStill(q, g, content)
      BY <3>2 DEF BypassStill
    <3>3. CASE InsertStill(q, g, content, cur)
      BY <3>3 DEF InsertStill
    <3> QED BY <2>1, <3>1, <3>2, <3>3 DEF Insert
  <2>2. ASSUME NEW q \in Page, DropAnimation(q)
        PROVE  BypassRemembered'
    BY <2>2 DEF DropAnimation
  <2>3. ASSUME NEW q \in Page, NEW g \in Generation, RemoveOlderVersions(q, g)
        PROVE  BypassRemembered'
    BY <2>3 DEF RemoveOlderVersions, ForgetBypass
  <2>4. ASSUME NEW keep, RetainGenerations(keep)
        PROVE  BypassRemembered'
    BY <2>4 DEF RetainGenerations, ForgetBypass
  <2>5. ASSUME NEW b \in Book, RemoveAllForPath(b)
        PROVE  BypassRemembered'
    BY <2>5 DEF RemoveAllForPath, ForgetBypass
  <2>6. ASSUME NEW b \in Book, RemoveStaticPagesForPath(b)
        PROVE  BypassRemembered'
    BY <2>6 DEF RemoveStaticPagesForPath, ForgetBypass
  <2>7. CASE UNCHANGED cacheVars
    BY <2>7 DEF cacheVars
  <2> QED BY <2>1, <2>2, <2>3, <2>4, <2>5, <2>6, <2>7 DEF CacheNext
<1> QED BY <1>1, <1>2, PTL DEF CacheSpec

\* The two slots for what is too large agree with the seats and with the memory
\* of what is too large.
THEOREM BypassInStep == CacheSpec => []BypassesAgree
BY OneAnimation, BypassMemory, PTL DEF BypassesAgree

-----------------------------------------------------------------------------
(* The page cache: types *)

LEMMA ContentTyped ==
  ASSUME NEW p \in Page, NEW g \in Generation, NEW content \in ContentsOf(p, g)
  PROVE  /\ content \in Content /\ content # None
         /\ content.bytes \in Nat
<1>1. PICK d \in Decodes[p] : content = [animated |-> d.animated, bytes |-> d.bytes, target |-> g]
  BY DEF ContentsOf
<1>2. d \in [animated : BOOLEAN, bytes : Nat \ {0}]
  BY DecodesAssumption
<1>3. d.bytes \in {e.bytes : e \in Shape}
  BY DEF Shape
<1>4. content \in Content
  BY <1>1, <1>2, <1>3 DEF Content
<1> QED BY <1>1, <1>2, <1>4, NoneAssumption

LEMMA SeatsGoTyped ==
  ASSUME CacheTypeOK, NEW seats
  PROVE  /\ AnimationsWithout(seats) \in [Page -> {c \in Content : c.animated} \cup {None}]
         /\ EntriesWithout(seats) \in [Page -> [Generation -> {c \in Content : ~c.animated} \cup {None}]]
<1>1. ASSUME NEW p \in Page
      PROVE  AnimationsWithout(seats)[p] \in {c \in Content : c.animated} \cup {None}
  BY DEF CacheTypeOK, AnimationsWithout
<1>2. ASSUME NEW p \in Page, NEW g \in Generation
      PROVE  EntriesWithout(seats)[p][g] \in {c \in Content : ~c.animated} \cup {None}
  <2>1. entries[p][g] \in {c \in Content : ~c.animated} \cup {None}
    BY DEF CacheTypeOK
  <2> QED BY <2>1 DEF EntriesWithout
<1> QED BY <1>1, <1>2 DEF AnimationsWithout, EntriesWithout

-----------------------------------------------------------------------------
(* The page cache: seats and what they are charged for *)

Seats == AnimationSeats \cup StillSeats

AnimationSeat(p, content) ==
    [kind |-> "animation", page |-> p, gen |-> None, bytes |-> content.bytes]
StillSeat(p, g, content) ==
    [kind |-> "still", page |-> p, gen |-> g, bytes |-> content.bytes]

LEMMA SeatOfAnimation ==
  ASSUME NEW p \in Page, animations[p] # None
  PROVE  AnimationSeat(p, animations[p]) \in AnimationSeats
BY DEF AnimationSeats, AnimationSeat

LEMMA SeatOfStill ==
  ASSUME NEW p \in Page, NEW g \in Generation, entries[p][g] # None
  PROVE  StillSeat(p, g, entries[p][g]) \in StillSeats
<1>1. <<p, g>> \in {c \in Page \X Generation : entries[c[1]][c[2]] # None}
  OBVIOUS
<1> QED BY <1>1 DEF StillSeats, StillSeat

LEMMA AnimationOfSeat ==
  ASSUME NEW s \in AnimationSeats
  PROVE  /\ s.kind = "animation" /\ s.page \in Page /\ animations[s.page] # None
         /\ s = AnimationSeat(s.page, animations[s.page])
BY DEF AnimationSeats, AnimationSeat

LEMMA StillOfSeat ==
  ASSUME NEW s \in StillSeats
  PROVE  /\ s.kind = "still" /\ s.page \in Page /\ s.gen \in Generation
         /\ entries[s.page][s.gen] # None
         /\ s = StillSeat(s.page, s.gen, entries[s.page][s.gen])
<1>1. PICK c \in Page \X Generation :
         /\ entries[c[1]][c[2]] # None
         /\ s = StillSeat(c[1], c[2], entries[c[1]][c[2]])
  BY DEF StillSeats, StillSeat
<1>2. s.kind = "still" /\ s.page = c[1] /\ s.gen = c[2]
  BY <1>1 DEF StillSeat
<1> QED BY <1>1, <1>2

LEMMA SeatBytes ==
  ASSUME CacheTypeOK, NEW s \in Seats
  PROVE  s.bytes \in Nat
<1>1. \A c \in Content : c.bytes \in Nat
  <2> SUFFICES ASSUME NEW c \in Content PROVE c.bytes \in Nat
    OBVIOUS
  <2>1. PICK d \in Shape : c.bytes = d.bytes
    BY DEF Content
  <2>2. PICK p \in Page : d \in Decodes[p]
    BY DEF Shape
  <2> QED BY <2>1, <2>2, DecodesAssumption
<1>2. CASE s \in AnimationSeats
  <2>1. animations[s.page] \in Content /\ s.bytes = animations[s.page].bytes
    BY <1>2, AnimationOfSeat DEF CacheTypeOK, AnimationSeat
  <2> QED BY <1>1, <2>1
<1>3. CASE s \in StillSeats
  <2>1. s.page \in Page /\ s.gen \in Generation /\ entries[s.page][s.gen] # None
        /\ s.bytes = entries[s.page][s.gen].bytes
    BY <1>3, StillOfSeat DEF StillSeat
  <2>2. entries[s.page][s.gen] \in Content
    BY <2>1 DEF CacheTypeOK
  <2> QED BY <1>1, <2>1, <2>2
<1> QED BY <1>2, <1>3 DEF Seats

\* What is left of a finite set of seats, and what is charged for it.
LEMMA BytesOfRest ==
  ASSUME NEW S, IsFiniteSet(S), \A s \in S : s.bytes \in Nat, NEW T \in SUBSET S
  PROVE  /\ BytesOf(S \ T) = BytesOf(S) - BytesOf(T)
         /\ BytesOf(T) <= BytesOf(S)
         /\ BytesOf(S) \in Nat /\ BytesOf(T) \in Nat /\ BytesOf(S \ T) \in Nat
         /\ Less(BytesOf(S), BytesOf(T)) = BytesOf(S \ T)
         /\ IsFiniteSet(T) /\ IsFiniteSet(S \ T)
<1> DEFINE f == [s \in S |-> s.bytes]
<1>1. IsFiniteSet(T) /\ IsFiniteSet(S \ T)
  BY FS_Subset
<1>2. \A s \in S : f[s] \in Nat
  OBVIOUS
<1>3. BytesOf(S) = SumFunctionOnSet(f, S)
  BY DEF BytesOf
<1>4. BytesOf(T) = SumFunctionOnSet(f, T)
  <2>1. \A s \in T : [t \in T |-> t.bytes][s] = f[s]
    OBVIOUS
  <2> HIDE DEF f
  <2> QED BY <1>1, <2>1, SumOfEquals DEF BytesOf
<1>5. BytesOf(S \ T) = SumFunctionOnSet(f, S \ T)
  <2>1. \A s \in S \ T : [t \in S \ T |-> t.bytes][s] = f[s]
    OBVIOUS
  <2> HIDE DEF f
  <2> QED BY <1>1, <2>1, SumOfEquals DEF BytesOf
<1> HIDE DEF f
<1>6. /\ BytesOf(S \ T) = BytesOf(S) - BytesOf(T)
      /\ BytesOf(T) <= BytesOf(S)
      /\ BytesOf(S) \in Nat /\ BytesOf(T) \in Nat /\ BytesOf(S \ T) \in Nat
  BY <1>2, <1>3, <1>4, <1>5, SumOfSubset
<1> QED BY <1>1, <1>6 DEF Less

\* One seat more.
LEMMA BytesOfMore ==
  ASSUME NEW S, IsFiniteSet(S), \A s \in S : s.bytes \in Nat,
         NEW x, x \notin S, x.bytes \in Nat
  PROVE  /\ BytesOf(S \cup {x}) = BytesOf(S) + x.bytes
         /\ IsFiniteSet(S \cup {x})
<1> DEFINE T == S \cup {x}
           f == [t \in T |-> t.bytes]
<1>1. IsFiniteSet(T)
  BY FS_AddElement
<1>2. \A t \in T : f[t] \in Nat
  OBVIOUS
<1>3. SumFunctionOnSet(f, T) = f[x] + SumFunctionOnSet(f, T \ {x})
  <2>1. x \in T
    OBVIOUS
  <2> HIDE DEF f, T
  <2> QED BY <1>1, <1>2, <2>1, SumTakesOut
<1>4. T \ {x} = S
  OBVIOUS
<1>5. SumFunctionOnSet(f, S) = BytesOf(S)
  <2>1. \A s \in S : [t \in S |-> t.bytes][s] = f[s]
    OBVIOUS
  <2> HIDE DEF f
  <2> QED BY <2>1, SumOfEquals DEF BytesOf
<1>6. f[x] = x.bytes
  OBVIOUS
<1>7. BytesOf(T) = SumFunctionOnSet(f, T)
  BY DEF BytesOf
<1>8. SumFunctionOnSet(f, S) \in Nat
  BY <1>2, SumIsNat
<1> HIDE DEF f, T
<1>9. BytesOf(T) = x.bytes + BytesOf(S) /\ BytesOf(S) \in Nat
  BY <1>3, <1>4, <1>5, <1>6, <1>7, <1>8
<1>10. BytesOf(T) = BytesOf(S) + x.bytes
  BY <1>9
<1> QED BY <1>1, <1>10 DEF T

\* Seats that are emptied are gone, the others stay.
LEMMA AnimationSeatsGo ==
  ASSUME NEW gone \in SUBSET Seats, animations' = AnimationsWithout(gone)
  PROVE  AnimationSeats' = AnimationSeats \ gone
<1>1. ASSUME NEW p \in Page
      PROVE  /\ animations'[p] # None => animations'[p] = animations[p]
             /\ animations[p] # None =>
                  (animations'[p] # None <=> AnimationSeat(p, animations[p]) \notin gone)
  <2>1. animations'[p] = IF \E s \in gone : s.kind = "animation" /\ s.page = p
                         THEN None ELSE animations[p]
    BY DEF AnimationsWithout
  <2>2. ASSUME NEW s \in gone, s.kind = "animation", s.page = p
        PROVE  s = AnimationSeat(p, animations[p])
    <3>1. s \notin StillSeats
      BY <2>2, StillOfSeat
    <3> QED BY <2>2, <3>1, AnimationOfSeat DEF Seats
  <2>3. /\ AnimationSeat(p, animations[p]).kind = "animation"
        /\ AnimationSeat(p, animations[p]).page = p
    BY DEF AnimationSeat
  <2> QED BY <2>1, <2>2, <2>3
<1>2. AnimationSeats' \subseteq AnimationSeats \ gone
  <2> SUFFICES ASSUME NEW s \in AnimationSeats' PROVE s \in AnimationSeats \ gone
    OBVIOUS
  <2>1. PICK p \in Page : animations'[p] # None /\ s = AnimationSeat(p, animations'[p])
    BY DEF AnimationSeats, AnimationSeat
  <2> QED BY <1>1, <2>1, SeatOfAnimation
<1>3. AnimationSeats \ gone \subseteq AnimationSeats'
  <2> SUFFICES ASSUME NEW s \in AnimationSeats \ gone PROVE s \in AnimationSeats'
    OBVIOUS
  <2>1. PICK p \in Page : animations[p] # None /\ s = AnimationSeat(p, animations[p])
    BY AnimationOfSeat
  <2>2. animations'[p] # None /\ s = AnimationSeat(p, animations'[p])
    BY <1>1, <2>1
  <2> QED BY <2>2 DEF AnimationSeats, AnimationSeat
<1> QED BY <1>2, <1>3

LEMMA StillSeatsGo ==
  ASSUME NEW gone \in SUBSET Seats, entries' = EntriesWithout(gone)
  PROVE  StillSeats' = StillSeats \ gone
<1>1. ASSUME NEW p \in Page, NEW g \in Generation
      PROVE  /\ entries'[p][g] # None => entries'[p][g] = entries[p][g]
             /\ entries[p][g] # None =>
                  (entries'[p][g] # None <=> StillSeat(p, g, entries[p][g]) \notin gone)
  <2>1. entries'[p][g] = IF \E s \in gone : s.kind = "still" /\ s.page = p /\ s.gen = g
                         THEN None ELSE entries[p][g]
    BY DEF EntriesWithout
  <2>2. ASSUME NEW s \in gone, s.kind = "still", s.page = p, s.gen = g
        PROVE  s = StillSeat(p, g, entries[p][g])
    <3>1. s \notin AnimationSeats
      BY <2>2, AnimationOfSeat
    <3> QED BY <2>2, <3>1, StillOfSeat DEF Seats
  <2>3. /\ StillSeat(p, g, entries[p][g]).kind = "still"
        /\ StillSeat(p, g, entries[p][g]).page = p
        /\ StillSeat(p, g, entries[p][g]).gen = g
    BY DEF StillSeat
  <2> QED BY <2>1, <2>2, <2>3
<1>2. StillSeats' \subseteq StillSeats \ gone
  <2> SUFFICES ASSUME NEW s \in StillSeats' PROVE s \in StillSeats \ gone
    OBVIOUS
  <2>1. PICK c \in Page \X Generation :
           entries'[c[1]][c[2]] # None /\ s = StillSeat(c[1], c[2], entries'[c[1]][c[2]])
    BY DEF StillSeats, StillSeat
  <2>2. c[1] \in Page /\ c[2] \in Generation
    OBVIOUS
  <2> QED BY <1>1, <2>1, <2>2, SeatOfStill
<1>3. StillSeats \ gone \subseteq StillSeats'
  <2> SUFFICES ASSUME NEW s \in StillSeats \ gone PROVE s \in StillSeats'
    OBVIOUS
  <2>1. /\ s.page \in Page /\ s.gen \in Generation /\ entries[s.page][s.gen] # None
        /\ s = StillSeat(s.page, s.gen, entries[s.page][s.gen])
    BY StillOfSeat
  <2>2. entries'[s.page][s.gen] # None /\ s = StillSeat(s.page, s.gen, entries'[s.page][s.gen])
    BY <1>1, <2>1
  <2>3. <<s.page, s.gen>> \in {c \in Page \X Generation : entries'[c[1]][c[2]] # None}
    BY <2>1, <2>2
  <2> QED BY <2>2, <2>3 DEF StillSeats, StillSeat
<1> QED BY <1>2, <1>3

-----------------------------------------------------------------------------
(* The page cache: the budget *)

SeatsFinite == IsFiniteSet(Seats)

\* Animations are evicted for an animation down to the budget, or the minimum.
AnimationsBounded == BytesOf(AnimationSeats) < MinBytes + MaxBytes

CacheInv == CacheTypeOK /\ SeatsFinite /\ Accounting /\ Bounded /\ AnimationsBounded

LEMMA SeatsCharged ==
  ASSUME CacheTypeOK, SeatsFinite, NEW T \in SUBSET Seats, NEW R \in SUBSET T
  PROVE  /\ BytesOf(T) \in Nat /\ BytesOf(R) \in Nat /\ BytesOf(R) <= BytesOf(T)
         /\ Less(BytesOf(T), BytesOf(R)) = BytesOf(T \ R)
         /\ IsFiniteSet(T) /\ \A s \in T : s.bytes \in Nat
<1>1. \A s \in T : s.bytes \in Nat
  BY SeatBytes
<1>2. IsFiniteSet(T)
  BY FS_Subset DEF SeatsFinite
<1> QED BY <1>1, <1>2, BytesOfRest

\* Seats are emptied and refunded.
LEMMA VacateStep ==
  ASSUME CacheInv, NEW gone \in SUBSET Seats, Vacate(gone),
         /\ bypass' \in [page : Page, gen : Generation, content : Content] \cup {None}
         /\ animationBypass' \in [page : Page, content : Content] \cup {None}
         /\ knownBypass' \subseteq Page \X Generation
         /\ knownAnimationBypass' \subseteq Page
  PROVE  CacheInv'
<1> USE DEF CacheInv
<1>1. AnimationSeats' = AnimationSeats \ gone /\ StillSeats' = StillSeats \ gone
  BY AnimationSeatsGo, StillSeatsGo DEF Vacate
<1>2. Seats' = Seats \ gone /\ AnimationSeats' \subseteq AnimationSeats
  BY <1>1 DEF Seats
<1>3. totalBytes = BytesOf(Seats)
  BY DEF Accounting, Seats
<1>4. /\ totalBytes' = BytesOf(Seats \ gone) /\ BytesOf(Seats \ gone) <= BytesOf(Seats)
      /\ BytesOf(Seats \ gone) \in Nat /\ BytesOf(Seats) \in Nat
  <2>1. Seats \ gone \in SUBSET Seats
    OBVIOUS
  <2>2. totalBytes' = Less(totalBytes, BytesOf(gone))
    BY DEF Vacate
  <2> QED BY <1>3, <2>1, <2>2, SeatsCharged
<1>5. Accounting'
  BY <1>2, <1>4 DEF Accounting, Seats
<1>6. Bounded'
  BY <1>3, <1>4, BudgetAssumption DEF Bounded
<1>7. AnimationsBounded'
  <2>1. BytesOf(AnimationSeats') <= BytesOf(AnimationSeats)
    BY <1>2, SeatsCharged DEF Seats
  <2>2. BytesOf(AnimationSeats') \in Nat /\ BytesOf(AnimationSeats) \in Nat
    BY <1>2, SeatsCharged DEF Seats
  <2>3. BytesOf(AnimationSeats)' = BytesOf(AnimationSeats')
    BY DEF BytesOf
  <2> QED BY <2>1, <2>2, <2>3, BudgetAssumption DEF AnimationsBounded
<1>8. SeatsFinite'
  BY <1>2, SeatsCharged DEF SeatsFinite
<1>9. CacheTypeOK'
  <2>1. /\ animations' \in [Page -> {c \in Content : c.animated} \cup {None}]
        /\ entries' \in [Page -> [Generation -> {c \in Content : ~c.animated} \cup {None}]]
    BY SeatsGoTyped DEF Vacate
  <2> QED BY <1>4, <2>1 DEF CacheTypeOK
<1> QED BY <1>5, <1>6, <1>7, <1>8, <1>9

\* The slot and the memory of the bypass when some of it is forgotten
LEMMA ForgetTyped ==
  ASSUME CacheTypeOK, NEW gone, ForgetBypass(gone)
  PROVE  /\ bypass' \in [page : Page, gen : Generation, content : Content] \cup {None}
         /\ knownBypass' \subseteq Page \X Generation
BY DEF CacheTypeOK, ForgetBypass

LEMMA BypassAnimationStep ==
  ASSUME CacheInv, NEW p \in Page, NEW g \in Generation, NEW content \in ContentsOf(p, g),
         BypassAnimation(p, content)
  PROVE  CacheInv'
<1> USE DEF CacheInv
<1>1. UNCHANGED <<animations, entries, totalBytes, bypass, knownBypass>>
  BY DEF BypassAnimation
<1>2. UNCHANGED <<AnimationSeats, StillSeats>>
  BY <1>1 DEF AnimationSeats, StillSeats
<1>3. CacheTypeOK'
  BY <1>1, ContentTyped DEF CacheTypeOK, BypassAnimation
<1>4. SeatsFinite' /\ Accounting' /\ Bounded' /\ AnimationsBounded'
  BY <1>1, <1>2 DEF SeatsFinite, Seats, Accounting, Bounded, AnimationsBounded, BytesOf
<1> QED BY <1>3, <1>4

LEMMA SeatAnimationStep ==
  ASSUME CacheInv, NEW p \in Page, NEW g \in Generation, NEW content \in ContentsOf(p, g),
         NEW cur, content.animated, content.bytes < MaxBytes,
         ~ContainsAnimation(p), SeatAnimation(p, content, cur)
  PROVE  CacheInv'
<1> USE DEF CacheInv
<1>1. content \in Content /\ content # None /\ content.bytes \in Nat
  BY ContentTyped
<1>2. PICK gone \in SUBSET Seats :
         /\ Evicted(Seats, gone, totalBytes, content.bytes, cur, "animation")
         /\ animations' = [AnimationsWithout(gone) EXCEPT ![p] = content]
         /\ entries' = EntriesWithout(gone)
         /\ totalBytes' = Less(totalBytes, BytesOf(gone)) + content.bytes
  BY DEF SeatAnimation, Seats
<1> DEFINE new == AnimationSeat(p, content)
           left == Seats \ gone
<1>3. /\ AnimationSeats' = (AnimationSeats \ gone) \cup {new}
      /\ StillSeats' = StillSeats \ gone
  <2>1. animations[p] = None
    BY DEF ContainsAnimation
  <2>2. ASSUME NEW q \in Page, q # p
        PROVE  /\ animations'[q] # None => animations'[q] = animations[q]
               /\ animations[q] # None =>
                    (animations'[q] # None <=> AnimationSeat(q, animations[q]) \notin gone)
    <3>1. animations'[q] = IF \E s \in gone : s.kind = "animation" /\ s.page = q
                           THEN None ELSE animations[q]
      BY <1>2, <2>2 DEF AnimationsWithout
    <3>2. ASSUME NEW s \in gone, s.kind = "animation", s.page = q
          PROVE  s = AnimationSeat(q, animations[q])
      <4>1. s \notin StillSeats
        BY <3>2, StillOfSeat
      <4> QED BY <3>2, <4>1, AnimationOfSeat DEF Seats
    <3>3. /\ AnimationSeat(q, animations[q]).kind = "animation"
          /\ AnimationSeat(q, animations[q]).page = q
      BY DEF AnimationSeat
    <3> QED BY <3>1, <3>2, <3>3
  <2>3. animations'[p] = content
    BY <1>2 DEF AnimationsWithout
  <2>4. ASSUME NEW s \in AnimationSeats' PROVE s \in (AnimationSeats \ gone) \cup {new}
    <3>1. PICK q \in Page : animations'[q] # None /\ s = AnimationSeat(q, animations'[q])
      BY <2>4 DEF AnimationSeats, AnimationSeat
    <3>2. CASE q = p
      BY <2>3, <3>1, <3>2
    <3>3. CASE q # p
      BY <2>2, <3>1, <3>3, SeatOfAnimation
    <3> QED BY <3>2, <3>3
  <2>5. ASSUME NEW s \in AnimationSeats, s \notin gone PROVE s \in AnimationSeats'
    <3>1. s.page \in Page /\ animations[s.page] # None /\ s = AnimationSeat(s.page, animations[s.page])
      BY <2>5, AnimationOfSeat
    <3>2. s.page # p
      BY <2>1, <3>1
    <3>3. animations'[s.page] # None /\ s = AnimationSeat(s.page, animations'[s.page])
      BY <2>2, <2>5, <3>1, <3>2
    <3> QED BY <3>1, <3>3 DEF AnimationSeats, AnimationSeat
  <2>6. new \in AnimationSeats'
    BY <1>1, <2>3 DEF AnimationSeats, AnimationSeat
  <2>7. StillSeats' = StillSeats \ gone
    BY <1>2, StillSeatsGo
  <2> QED BY <2>4, <2>5, <2>6, <2>7
<1>4. new \notin Seats /\ new.bytes = content.bytes
  <2>1. new.kind = "animation" /\ new.page = p /\ new.bytes = content.bytes
    BY DEF AnimationSeat
  <2>2. new \notin AnimationSeats
    BY <2>1, AnimationOfSeat DEF ContainsAnimation
  <2>3. new \notin StillSeats
    BY <2>1, StillOfSeat
  <2> QED BY <2>1, <2>2, <2>3 DEF Seats
<1>5. Seats' = left \cup {new} /\ new \notin left
  <2>1. new \notin gone
    BY <1>4
  <2> QED BY <1>3, <1>4, <2>1 DEF Seats
<1>6. /\ BytesOf(left) \in Nat /\ BytesOf(left) <= totalBytes
      /\ Less(totalBytes, BytesOf(gone)) = BytesOf(left)
      /\ IsFiniteSet(left) /\ \A s \in left : s.bytes \in Nat
  <2>1. totalBytes = BytesOf(Seats)
    BY DEF Accounting, Seats
  <2>2. left \in SUBSET Seats
    OBVIOUS
  <2> HIDE DEF left
  <2>3. BytesOf(left) \in Nat /\ BytesOf(left) <= BytesOf(Seats) /\ IsFiniteSet(left) /\ \A s \in left : s.bytes \in Nat
    BY <2>2, SeatsCharged
  <2>4. Less(BytesOf(Seats), BytesOf(gone)) = BytesOf(left)
    BY SeatsCharged DEF left
  <2> QED BY <2>1, <2>3, <2>4
<1>7. /\ BytesOf(left \cup {new}) = BytesOf(left) + content.bytes
      /\ IsFiniteSet(left \cup {new})
  <2> HIDE DEF new, left
  <2> QED BY <1>1, <1>4, <1>5, <1>6, BytesOfMore
<1>8. totalBytes' = BytesOf(left) + content.bytes
  BY <1>2, <1>6
<1>9. Accounting' /\ SeatsFinite'
  <2>1. BytesOf(AnimationSeats \cup StillSeats)' = BytesOf(Seats')
    BY DEF BytesOf, Seats
  <2> QED BY <1>5, <1>7, <1>8, <2>1 DEF Accounting, SeatsFinite
<1>10. totalBytes' < MinBytes + MaxBytes
  <2>1. ~AnimationMustEvict(left, BytesOf(left), content.bytes)
    BY <1>2, <1>6 DEF Evicted
  <2>2. left = {} => BytesOf(left) = 0
    BY FS_EmptySet, SumStep DEF BytesOf
  <2>3. \/ BytesOf(left) + content.bytes <= MaxBytes
        \/ BytesOf(left) <= MinBytes
    <3> HIDE DEF left
    <3> QED BY <1>1, <1>6, <2>1, <2>2, BudgetAssumption DEF AnimationMustEvict
  <2> HIDE DEF left
  <2> QED BY <1>1, <1>6, <1>8, <2>3, BudgetAssumption
<1>11. Bounded' /\ totalBytes' \in Nat
  <2> HIDE DEF left
  <2> QED BY <1>1, <1>6, <1>8, <1>10, BudgetAssumption DEF Bounded
<1>12. CacheTypeOK'
  <2>1. /\ AnimationsWithout(gone) \in [Page -> {c \in Content : c.animated} \cup {None}]
        /\ EntriesWithout(gone) \in [Page -> [Generation -> {c \in Content : ~c.animated} \cup {None}]]
    BY SeatsGoTyped
  <2>2. /\ animations' \in [Page -> {c \in Content : c.animated} \cup {None}]
        /\ entries' \in [Page -> [Generation -> {c \in Content : ~c.animated} \cup {None}]]
    BY <1>1, <1>2, <2>1
  <2>3. /\ animationBypass' \in [page : Page, content : Content] \cup {None}
        /\ UNCHANGED <<bypass, knownBypass, knownAnimationBypass>>
    BY DEF SeatAnimation, CacheTypeOK
  <2> QED BY <1>11, <2>2, <2>3 DEF CacheTypeOK
<1>13. AnimationsBounded'
  <2>1. AnimationSeats' \subseteq Seats'
    BY <1>3, <1>5 DEF Seats
  <2>2. BytesOf(AnimationSeats') <= BytesOf(Seats') /\ BytesOf(AnimationSeats') \in Nat /\ BytesOf(Seats') \in Nat
    <3>1. \A s \in left \cup {new} : s.bytes \in Nat
      BY <1>1, <1>4, <1>6
    <3>2. AnimationSeats' \in SUBSET (left \cup {new})
      BY <1>5, <2>1
    <3> HIDE DEF left, new
    <3> QED BY <1>5, <1>7, <3>1, <3>2, BytesOfRest
  <2>3. BytesOf(Seats') = totalBytes'
    BY <1>5, <1>7, <1>8
  <2>4. BytesOf(AnimationSeats)' = BytesOf(AnimationSeats')
    BY DEF BytesOf
  <2> QED BY <1>10, <2>2, <2>3, <2>4, <1>11, BudgetAssumption DEF AnimationsBounded
<1> QED BY <1>9, <1>11, <1>12, <1>13

LEMMA InsertStillStep ==
  ASSUME CacheInv, NEW p \in Page, NEW g \in Generation, NEW content \in ContentsOf(p, g),
         NEW cur, ~content.animated, content.bytes < MaxBytes, InsertStill(p, g, content, cur)
  PROVE  CacheInv'
<1> USE DEF CacheInv
<1> DEFINE own == {s \in StillSeats : s.page = p /\ s.gen = g}
           rest == Seats \ own
<1>1. content \in Content /\ content # None /\ content.bytes \in Nat
  BY ContentTyped
<1>2. PICK gone \in SUBSET rest :
         /\ Evicted(rest, gone, Less(totalBytes, BytesOf(own)), content.bytes, cur, "still")
         /\ animations' = AnimationsWithout(gone)
         /\ entries' = [EntriesWithout(gone) EXCEPT ![p][g] = content]
         /\ totalBytes' = Less(Less(totalBytes, BytesOf(own)), BytesOf(gone)) + content.bytes
  BY DEF InsertStill, Seats
<1> DEFINE new == StillSeat(p, g, content)
           left == rest \ gone
<1>3. gone \in SUBSET Seats /\ own \in SUBSET Seats
  BY DEF Seats
<1>4. AnimationSeats' = AnimationSeats \ gone
  BY <1>2, <1>3, AnimationSeatsGo
<1>5. StillSeats' = ((StillSeats \ own) \ gone) \cup {new}
  <2>1. ASSUME NEW q \in Page, NEW h \in Generation, <<q, h>> # <<p, g>>
        PROVE  /\ entries'[q][h] # None => entries'[q][h] = entries[q][h]
               /\ entries[q][h] # None =>
                    (entries'[q][h] # None <=> StillSeat(q, h, entries[q][h]) \notin gone)
    <3>1. entries'[q][h] = IF \E s \in gone : s.kind = "still" /\ s.page = q /\ s.gen = h
                           THEN None ELSE entries[q][h]
      BY <1>2, <2>1 DEF EntriesWithout
    <3>2. ASSUME NEW s \in gone, s.kind = "still", s.page = q, s.gen = h
          PROVE  s = StillSeat(q, h, entries[q][h])
      <4>1. s \notin AnimationSeats
        BY <3>2, AnimationOfSeat
      <4> QED BY <1>3, <3>2, <4>1, StillOfSeat DEF Seats
    <3>3. /\ StillSeat(q, h, entries[q][h]).kind = "still"
          /\ StillSeat(q, h, entries[q][h]).page = q
          /\ StillSeat(q, h, entries[q][h]).gen = h
      BY DEF StillSeat
    <3> QED BY <3>1, <3>2, <3>3
  <2>2. entries'[p][g] = content
    BY <1>2 DEF EntriesWithout
  <2>3. ASSUME NEW s \in StillSeats' PROVE s \in ((StillSeats \ own) \ gone) \cup {new}
    <3>1. PICK c \in Page \X Generation :
             entries'[c[1]][c[2]] # None /\ s = StillSeat(c[1], c[2], entries'[c[1]][c[2]])
      BY <2>3 DEF StillSeats, StillSeat
    <3>2. c[1] \in Page /\ c[2] \in Generation
      OBVIOUS
    <3>3. CASE c[1] = p /\ c[2] = g
      BY <2>2, <3>1, <3>3
    <3>4. CASE ~(c[1] = p /\ c[2] = g)
      <4>1. entries[c[1]][c[2]] # None /\ s = StillSeat(c[1], c[2], entries[c[1]][c[2]]) /\ s \notin gone
        BY <2>1, <3>1, <3>2, <3>4
      <4>2. s \in StillSeats /\ s.page = c[1] /\ s.gen = c[2]
        BY <3>2, <4>1, SeatOfStill DEF StillSeat
      <4> QED BY <3>4, <4>1, <4>2
    <3> QED BY <3>3, <3>4
  <2>4. ASSUME NEW s \in StillSeats, s \notin own, s \notin gone PROVE s \in StillSeats'
    <3>1. /\ s.page \in Page /\ s.gen \in Generation /\ entries[s.page][s.gen] # None
          /\ s = StillSeat(s.page, s.gen, entries[s.page][s.gen])
      BY <2>4, StillOfSeat
    <3>2. <<s.page, s.gen>> # <<p, g>>
      BY <2>4
    <3>3. entries'[s.page][s.gen] # None /\ s = StillSeat(s.page, s.gen, entries'[s.page][s.gen])
      BY <2>1, <2>4, <3>1, <3>2
    <3>4. <<s.page, s.gen>> \in {c \in Page \X Generation : entries'[c[1]][c[2]] # None}
      BY <3>1, <3>3
    <3> QED BY <3>3, <3>4 DEF StillSeats, StillSeat
  <2>5. new \in StillSeats'
    <3>1. <<p, g>> \in {c \in Page \X Generation : entries'[c[1]][c[2]] # None}
      BY <1>1, <2>2
    <3> QED BY <2>2, <3>1 DEF StillSeats, StillSeat
  <2> QED BY <2>3, <2>4, <2>5
<1>6. new \notin rest /\ new.bytes = content.bytes
  <2>1. new.kind = "still" /\ new.page = p /\ new.gen = g /\ new.bytes = content.bytes
    BY DEF StillSeat
  <2>2. new \notin AnimationSeats
    BY <2>1, AnimationOfSeat
  <2> QED BY <2>1, <2>2 DEF Seats
<1>7. Seats' = left \cup {new} /\ new \notin left
  <2>1. own \cap AnimationSeats = {}
    BY StillOfSeat, AnimationOfSeat
  <2> QED BY <1>4, <1>5, <1>6, <2>1 DEF Seats
<1>8. /\ BytesOf(left) \in Nat
      /\ Less(Less(totalBytes, BytesOf(own)), BytesOf(gone)) = BytesOf(left)
      /\ IsFiniteSet(left) /\ \A s \in left : s.bytes \in Nat
  <2>1. Less(totalBytes, BytesOf(own)) = BytesOf(rest)
    <3>1. totalBytes = BytesOf(Seats)
      BY DEF Accounting, Seats
    <3> HIDE DEF own
    <3> QED BY <1>3, <3>1, SeatsCharged
  <2>2. rest \in SUBSET Seats
    OBVIOUS
  <2>3. left \in SUBSET Seats
    OBVIOUS
  <2>4. Less(BytesOf(rest), BytesOf(gone)) = BytesOf(left)
    <3> HIDE DEF rest
    <3> QED BY <2>2, SeatsCharged
  <2> HIDE DEF left, rest, own
  <2> QED BY <2>1, <2>3, <2>4, SeatsCharged
<1>9. /\ BytesOf(left \cup {new}) = BytesOf(left) + content.bytes
      /\ IsFiniteSet(left \cup {new})
  <2> HIDE DEF new, left
  <2> QED BY <1>1, <1>6, <1>7, <1>8, BytesOfMore
<1>10. totalBytes' = BytesOf(left) + content.bytes
  BY <1>2, <1>8
<1>11. Accounting' /\ SeatsFinite'
  <2>1. BytesOf(AnimationSeats \cup StillSeats)' = BytesOf(Seats')
    BY DEF BytesOf, Seats
  <2> QED BY <1>7, <1>9, <1>10, <2>1 DEF Accounting, SeatsFinite
<1>12. Bounded' /\ totalBytes' \in Nat
  <2>1. ~StillMustEvict(left, BytesOf(left), content.bytes)
    BY <1>2, <1>8 DEF Evicted
  <2>2. (\A s \in left : s.kind # "still") => BytesOf(left) <= BytesOf(AnimationSeats)
    <3>1. (\A s \in left : s.kind # "still") => left \in SUBSET AnimationSeats
      BY StillOfSeat DEF Seats
    <3>2. AnimationSeats \in SUBSET Seats
      BY DEF Seats
    <3> HIDE DEF left
    <3> QED BY <3>1, <3>2, SeatsCharged
  <2>3. BytesOf(AnimationSeats) \in Nat
    <3>1. AnimationSeats \in SUBSET Seats
      BY DEF Seats
    <3> QED BY <3>1, SeatsCharged
  <2> HIDE DEF left
  <2>4. \/ BytesOf(left) + content.bytes <= MaxBytes
        \/ BytesOf(left) <= MinBytes
        \/ BytesOf(left) <= BytesOf(AnimationSeats)
    BY <1>1, <1>8, <2>1, <2>2, BudgetAssumption DEF StillMustEvict
  <2>5. BytesOf(left) + content.bytes < MinBytes + 2 * MaxBytes
    BY <1>1, <1>8, <2>3, <2>4, BudgetAssumption DEF AnimationsBounded
  <2> QED BY <1>1, <1>8, <1>10, <2>5 DEF Bounded
<1>13. CacheTypeOK'
  <2>1. /\ AnimationsWithout(gone) \in [Page -> {c \in Content : c.animated} \cup {None}]
        /\ EntriesWithout(gone) \in [Page -> [Generation -> {c \in Content : ~c.animated} \cup {None}]]
    BY SeatsGoTyped
  <2>2. /\ animations' \in [Page -> {c \in Content : c.animated} \cup {None}]
        /\ entries' \in [Page -> [Generation -> {c \in Content : ~c.animated} \cup {None}]]
    BY <1>1, <1>2, <2>1
  <2>3. /\ bypass' = bypass \/ bypass' = None
        /\ UNCHANGED <<animationBypass, knownBypass, knownAnimationBypass>>
    BY DEF InsertStill
  <2> QED BY <1>12, <2>2, <2>3 DEF CacheTypeOK
<1>14. AnimationsBounded'
  <2>1. AnimationSeats' \subseteq AnimationSeats /\ AnimationSeats \subseteq Seats
    BY <1>4 DEF Seats
  <2>2. /\ BytesOf(AnimationSeats') <= BytesOf(AnimationSeats)
        /\ BytesOf(AnimationSeats') \in Nat /\ BytesOf(AnimationSeats) \in Nat
    BY <2>1, SeatsCharged
  <2>3. BytesOf(AnimationSeats)' = BytesOf(AnimationSeats')
    BY DEF BytesOf
  <2> QED BY <2>2, <2>3, BudgetAssumption DEF AnimationsBounded
<1> QED BY <1>11, <1>12, <1>13, <1>14


\* insert leaves the invariant alone, in each of its arms.
LEMMA InsertStep ==
  ASSUME CacheInv, NEW p \in Page, NEW g \in Generation, NEW content \in ContentsOf(p, g),
         NEW cur, Insert(p, g, content, cur)
  PROVE  CacheInv'
<1>1. CASE content.animated /\ ContainsAnimation(p) /\ UNCHANGED cacheVars
  <2>1. UNCHANGED <<AnimationSeats, StillSeats>>
    BY <1>1 DEF cacheVars, AnimationSeats, StillSeats
  <2> QED BY <1>1, <2>1 DEF cacheVars, CacheInv, CacheTypeOK, SeatsFinite, Seats, Accounting,
                            Bounded, AnimationsBounded, BytesOf
<1>2. CASE BypassAnimation(p, content)
  BY <1>2, BypassAnimationStep
<1>3. CASE /\ content.animated /\ content.bytes < MaxBytes
           /\ ~ContainsAnimation(p) /\ SeatAnimation(p, content, cur)
  BY <1>3, SeatAnimationStep
<1>4. CASE ~content.animated /\ BypassStill(p, g, content)
  <2> DEFINE gone == {s \in StillSeats : s.page = p /\ s.gen = g}
  <2>1. gone \in SUBSET Seats /\ Vacate(gone)
    BY <1>4 DEF BypassStill, Seats
  <2>2. content \in Content
    BY ContentTyped
  <2>3. /\ bypass' \in [page : Page, gen : Generation, content : Content] \cup {None}
        /\ animationBypass' \in [page : Page, content : Content] \cup {None}
        /\ knownBypass' \subseteq Page \X Generation
        /\ knownAnimationBypass' \subseteq Page
    BY <1>4, <2>2 DEF BypassStill, CacheInv, CacheTypeOK
  <2> HIDE DEF gone
  <2> QED BY <2>1, <2>3, VacateStep
<1>5. CASE ~content.animated /\ content.bytes < MaxBytes /\ InsertStill(p, g, content, cur)
  BY <1>5, InsertStillStep
<1> QED BY <1>1, <1>2, <1>3, <1>4, <1>5 DEF Insert, InsertAnimation

\* Every removal empties seats and forgets some of the bypass.
LEMMA RemovalStep ==
  ASSUME CacheInv, NEW gone \in SUBSET Seats, Vacate(gone),
         UNCHANGED <<bypass, knownBypass>> \/ \E f : ForgetBypass(f),
         animationBypass' \in {animationBypass, None},
         knownAnimationBypass' \subseteq knownAnimationBypass
  PROVE  CacheInv'
<1>1. /\ bypass' \in [page : Page, gen : Generation, content : Content] \cup {None}
      /\ knownBypass' \subseteq Page \X Generation
  <2>1. CASE UNCHANGED <<bypass, knownBypass>>
    BY <2>1 DEF CacheInv, CacheTypeOK
  <2>2. CASE \E f : ForgetBypass(f)
    BY <2>2, ForgetTyped DEF CacheInv
  <2> QED BY <2>1, <2>2
<1>2. /\ animationBypass' \in [page : Page, content : Content] \cup {None}
      /\ knownAnimationBypass' \subseteq Page
  BY DEF CacheInv, CacheTypeOK
<1> QED BY <1>1, <1>2, VacateStep

LEMMA CacheInvInit == CacheInit => CacheInv
<1> SUFFICES ASSUME CacheInit PROVE CacheInv
  OBVIOUS
<1>1. AnimationSeats = {}
  BY AnimationOfSeat DEF CacheInit
<1>2. StillSeats = {}
  BY StillOfSeat DEF CacheInit
<1>3. Seats = {}
  BY <1>1, <1>2 DEF Seats
<1>4. BytesOf({}) = 0 /\ IsFiniteSet({})
  BY FS_EmptySet, SumStep DEF BytesOf
<1>5. CacheTypeOK
  BY DEF CacheInit, CacheTypeOK
<1> QED BY <1>1, <1>3, <1>4, <1>5, BudgetAssumption
        DEF CacheInit, CacheInv, SeatsFinite, Accounting, Bounded, AnimationsBounded, Seats

\* Every operation of the page cache keeps the budget's invariant: what is charged is
\* what the seats hold, below the bound, and the animations' part stays below a smaller one.
THEOREM CacheInvariance == CacheSpec => []CacheInv
<1>1. CacheInv /\ [CacheNext]_cacheVars => CacheInv'
  <2> SUFFICES ASSUME CacheInv, [CacheNext]_cacheVars PROVE CacheInv'
    OBVIOUS
  <2>1. CASE UNCHANGED cacheVars
    <3>1. UNCHANGED <<AnimationSeats, StillSeats>>
      BY <2>1 DEF cacheVars, AnimationSeats, StillSeats
    <3> QED BY <2>1, <3>1 DEF cacheVars, CacheInv, CacheTypeOK, SeatsFinite, Seats, Accounting,
                              Bounded, AnimationsBounded, BytesOf
  <2>2. ASSUME NEW p \in Page, NEW g \in Generation, NEW cur,
               NEW content \in ContentsOf(p, g), Insert(p, g, content, cur)
        PROVE  CacheInv'
    BY <2>2, InsertStep
  <2>3. ASSUME NEW p \in Page, DropAnimation(p) PROVE CacheInv'
    <3> DEFINE gone == {s \in AnimationSeats : s.page = p}
    <3>1. gone \in SUBSET Seats
      BY DEF Seats
    <3>2. Vacate(gone) /\ UNCHANGED <<bypass, knownBypass>>
      BY <2>3 DEF DropAnimation
    <3>3. animationBypass' \in {animationBypass, None}
          /\ knownAnimationBypass' \subseteq knownAnimationBypass
      BY <2>3 DEF DropAnimation
    <3> HIDE DEF gone
    <3> QED BY <3>1, <3>2, <3>3, RemovalStep
  <2>4. ASSUME NEW p \in Page, NEW g \in Generation, RemoveOlderVersions(p, g) PROVE CacheInv'
    <3> DEFINE gone == {s \in StillSeats : s.page = p /\ s.gen # g}
    <3>1. gone \in SUBSET Seats
      BY DEF Seats
    <3>2. /\ Vacate(gone) /\ ForgetBypass({p} \X (Generation \ {g}))
          /\ UNCHANGED <<animationBypass, knownAnimationBypass>>
      BY <2>4 DEF RemoveOlderVersions
    <3> HIDE DEF gone
    <3> QED BY <3>1, <3>2, RemovalStep
  <2>5. ASSUME NEW keep \in SUBSET Generation, RetainGenerations(keep) PROVE CacheInv'
    <3> DEFINE gone == {s \in StillSeats : s.gen \notin keep}
    <3>1. gone \in SUBSET Seats
      BY DEF Seats
    <3>2. /\ Vacate(gone) /\ ForgetBypass(Page \X (Generation \ keep))
          /\ UNCHANGED <<animationBypass, knownAnimationBypass>>
      BY <2>5 DEF RetainGenerations
    <3> HIDE DEF gone
    <3> QED BY <3>1, <3>2, RemovalStep
  <2>6. ASSUME NEW b \in Book, RemoveAllForPath(b) PROVE CacheInv'
    <3> DEFINE gone == {s \in AnimationSeats \cup StillSeats : s.page[1] = b}
    <3>1. gone \in SUBSET Seats
      BY DEF Seats
    <3>2. Vacate(gone) /\ ForgetBypass(PagesOf(b) \X Generation)
      BY <2>6 DEF RemoveAllForPath
    <3>3. animationBypass' \in {animationBypass, None}
          /\ knownAnimationBypass' \subseteq knownAnimationBypass
      BY <2>6 DEF RemoveAllForPath
    <3> HIDE DEF gone
    <3> QED BY <3>1, <3>2, <3>3, RemovalStep
  <2>7. ASSUME NEW b \in Book, RemoveStaticPagesForPath(b) PROVE CacheInv'
    <3> DEFINE gone == {s \in StillSeats : s.page[1] = b}
    <3>1. gone \in SUBSET Seats
      BY DEF Seats
    <3>2. /\ Vacate(gone) /\ ForgetBypass(PagesOf(b) \X Generation)
          /\ UNCHANGED <<animationBypass, knownAnimationBypass>>
      BY <2>7 DEF RemoveStaticPagesForPath
    <3> HIDE DEF gone
    <3> QED BY <3>1, <3>2, RemovalStep
  <2> QED BY <2>1, <2>2, <2>3, <2>4, <2>5, <2>6, <2>7 DEF CacheNext
<1> QED BY <1>1, CacheInvInit, PTL DEF CacheSpec

\* What the page cache holds, charges and remembers is of its type.
THEOREM CacheTypeCorrect == CacheSpec => []CacheTypeOK
<1>1. CacheInv => CacheTypeOK
  BY DEF CacheInv
<1> QED BY <1>1, CacheInvariance, PTL

\* After any sequence of insertions, replacements, evictions and removals the bytes charged
\* are those of the contents held, and eviction, which is not exact, keeps them below the
\* minimum and two budgets (insert, insert_animation, evict_furthest, remove_*).
THEOREM BudgetIsKept == CacheSpec => []BudgetKept
<1>1. CacheInv => BudgetKept
  BY DEF CacheInv, BudgetKept
<1> QED BY <1>1, CacheInvariance, PTL

=============================================================================
