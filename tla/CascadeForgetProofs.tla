------------------------- MODULE CascadeForgetProofs -------------------------
(***************************************************************************)
(* Proofs about CascadeForget, for any set of memories, any derivation     *)
(* graph, any depth limit and any interference.                            *)
(***************************************************************************)
EXTENDS CascadeForget, FiniteSetTheorems, SequenceTheorems, WellFoundedInduction, TLAPS

-----------------------------------------------------------------------------
(* The inductive invariant. *)

\* The memory being processed.
Busy == IF at = None THEN {} ELSE {at[1]}

\* What was revoked at the start is still revoked, or gone.
Passed == before \cap present \subseteq revoked

\* The entries of the stack are at the depth they say.
Placed == \A n \in DOMAIN stack : Reaches(stack[n][1], stack[n][2])

\* The memory being processed is at its depth, and what was found for it was
\* derived from it.
InHand ==
    /\ at = None => children = {}
    /\ at # None =>
          /\ result = "running" /\ at[1] \in visited /\ at[2] < MaxDepth
          /\ Reaches(at[1], at[2])
          /\ \A j \in children : j \notin before /\ <<at[1], j>> \in derived

\* No memory is counted twice.
Counted == count + Cardinality(Busy) <= Cardinality(visited)

\* Every derivative of a processed memory was visited, or is on the stack one level
\* deeper, or is too deep.
Followed(i, d) ==
    \A j \in Ids \ before : <<i, j>> \in derived =>
        \/ j \in visited
        \/ d + 1 >= MaxDepth
        \/ \E n \in DOMAIN stack : stack[n] = <<j, d + 1>>

\* The walk of a cascade nobody interferes with.
Thorough ==
    /\ present = Ids /\ held = {} /\ revoked \subseteq before \cup visited
    /\ result = "ok" => stack = <<>> /\ at = None
    /\ result \in {"running", "ok"} =>
          /\ visited \ Busy \subseteq revoked
          /\ Root \in visited \/ \E n \in DOMAIN stack : stack[n] = <<Root, 0>>
          /\ at # None => \A j \in Ids \ before : <<at[1], j>> \in derived
                              => j \in visited \cup children
          /\ \A i \in visited \ Busy : \E d \in 0..(MaxDepth - 1) :
                Reaches(i, d) /\ Followed(i, d)

IInv ==
    /\ TypeOK
    /\ Passed
    /\ Placed
    /\ InHand
    /\ OnlyDescendants
    /\ Counted
    /\ alone => Thorough

-----------------------------------------------------------------------------
(* Paths from the root. *)

\* A set of naturals that is not empty has a least element.
LEMMA LeastNatural ==
    ASSUME NEW T \in SUBSET Nat, T # {}
    PROVE  \E m \in T : \A k \in T : m <= k
<1>1. PICK m \in T : \A k \in T : ~(<<k, m>> \in OpToRel(<, Nat))
  BY NatLessThanWellFounded, WFMin
<1>2. \A k \in T : ~(k < m)
  BY <1>1 DEF OpToRel
<1> QED
  BY <1>2

\* The root is no derivation away from itself.
LEMMA RootReached == Reaches(Root, 0)
<1> DEFINE path == [k \in 0..0 |-> Root]
<1>1. path \in [0..0 -> Ids] /\ path[0] = Root
  BY CascadeAssumption
<1>2. 1..0 = {}
  OBVIOUS
<1> QED
  BY <1>1, <1>2 DEF Reaches

\* A derivative that was not revoked is one derivation further.
LEMMA OneFurther ==
    ASSUME NEW n \in Nat, NEW i \in Ids, NEW j \in Ids \ before,
           Reaches(i, n), <<i, j>> \in derived
    PROVE  Reaches(j, n + 1)
<1>1. PICK path \in [0..n -> Ids] :
         /\ path[0] = Root /\ path[n] = i
         /\ \A k \in 1..n : path[k] \notin before /\ <<path[k - 1], path[k]>> \in derived
  BY DEF Reaches
<1> DEFINE longer == [k \in 0..(n + 1) |-> IF k = n + 1 THEN j ELSE path[k]]
<1>2. longer \in [0..(n + 1) -> Ids] /\ longer[0] = Root /\ longer[n + 1] = j
  BY <1>1
<1>3. ASSUME NEW k \in 1..(n + 1)
      PROVE  longer[k] \notin before /\ <<longer[k - 1], longer[k]>> \in derived
  <2>1. CASE k = n + 1
    <3>1. longer[k] = j /\ longer[k - 1] = path[n]
      BY <2>1
    <3> QED
      BY <1>1, <3>1
  <2>2. CASE k \in 1..n
    <3>1. longer[k] = path[k] /\ longer[k - 1] = path[k - 1]
      BY <2>2
    <3> QED
      BY <1>1, <2>2, <3>1
  <2> QED
    BY <2>1, <2>2
<1> QED
  BY <1>2, <1>3 DEF Reaches

\* A part of a path is a path.
LEMMA PrefixReached ==
    ASSUME NEW n \in Nat, NEW path \in [0..n -> Ids], path[0] = Root,
           \A k \in 1..n : path[k] \notin before /\ <<path[k - 1], path[k]>> \in derived,
           NEW m \in 0..n
    PROVE  Reaches(path[m], m)
<1> DEFINE part == [k \in 0..m |-> path[k]]
<1>1. part \in [0..m -> Ids] /\ part[0] = Root /\ part[m] = path[m]
  OBVIOUS
<1>2. \A k \in 1..m : part[k] = path[k] /\ part[k - 1] = path[k - 1] /\ k \in 1..n
  OBVIOUS
<1> QED
  BY <1>1, <1>2 DEF Reaches

\* The last derivation of a path.
LEMMA OneBack ==
    ASSUME NEW n \in Nat, NEW i \in Ids, Reaches(i, n)
    PROVE  \/ n = 0 /\ i = Root
           \/ n > 0 /\ \E p \in Ids : Reaches(p, n - 1) /\ <<p, i>> \in derived
<1>1. PICK path \in [0..n -> Ids] :
         /\ path[0] = Root /\ path[n] = i
         /\ \A k \in 1..n : path[k] \notin before /\ <<path[k - 1], path[k]>> \in derived
  BY DEF Reaches
<1>2. CASE n = 0
  BY <1>1, <1>2
<1>3. CASE n > 0
  <2>1. n - 1 \in 0..n /\ n \in 1..n
    BY <1>3
  <2>2. Reaches(path[n - 1], n - 1)
    BY <1>1, <2>1, PrefixReached
  <2> QED
    BY <1>1, <1>3, <2>1, <2>2
<1> QED
  BY <1>2, <1>3

\* In a tree a memory has one depth.
LEMMA UniqueDepth ==
    ASSUME IsTree, NEW i \in Ids, NEW m \in Nat, NEW n \in Nat, Reaches(i, m), Reaches(i, n)
    PROVE  m = n
<1> DEFINE Twice(x) == \E j \in Ids : \E y \in Nat : y # x /\ Reaches(j, x) /\ Reaches(j, y)
           T == {x \in Nat : Twice(x)}
<1> SUFFICES ASSUME m # n PROVE FALSE
  OBVIOUS
<1>1. T \in SUBSET Nat /\ T # {}
  OBVIOUS
<1>2. PICK x \in T : \A z \in T : x <= z
  BY <1>1, LeastNatural
<1>3. PICK j \in Ids : \E y \in Nat : y # x /\ Reaches(j, x) /\ Reaches(j, y)
  OBVIOUS
<1>4. PICK y \in Nat : y # x /\ Reaches(j, x) /\ Reaches(j, y)
  BY <1>3
<1>5. x \in Nat
  OBVIOUS
<1>6. \A p \in Ids : <<p, Root>> \notin derived
  BY DEF IsTree
<1>7. x > 0 /\ y > 0
  BY <1>4, <1>5, <1>6, OneBack
<1>8. PICK p \in Ids : Reaches(p, x - 1) /\ <<p, j>> \in derived
  BY <1>4, <1>5, <1>7, OneBack
<1>9. PICK q \in Ids : Reaches(q, y - 1) /\ <<q, j>> \in derived
  <2>1. y \in Nat /\ Reaches(j, y) /\ y # 0
    BY <1>4, <1>7
  <2>2. y > 0 /\ \E q \in Ids : Reaches(q, y - 1) /\ <<q, j>> \in derived
    BY <2>1, OneBack
  <2> QED
    BY <2>2
<1>10. p = q
  BY <1>8, <1>9 DEF IsTree
<1>11. x - 1 \in T
  <2>1. x - 1 \in Nat /\ y - 1 \in Nat /\ y - 1 # x - 1
    BY <1>4, <1>5, <1>7
  <2>2. Twice(x - 1)
    BY <1>8, <1>9, <1>10, <2>1
  <2> QED
    BY <2>1, <2>2
<1> QED
  BY <1>2, <1>5, <1>11

\* Paths depend on the graph and on what was revoked at the start, which stay.
LEMMA PathsStay ==
    ASSUME UNCHANGED <<derived, before>>
    PROVE  \A i, n : Reaches(i, n)' <=> Reaches(i, n)
  BY DEF Reaches

-----------------------------------------------------------------------------
(* The stack. *)

\* Taking the top off leaves the other entries.
LEMMA Popped ==
    ASSUME TypeOK, stack # <<>>, stack' = Front(stack)
    PROVE  /\ stack' \in Seq(Ids \X (0..MaxDepth))
           /\ Len(stack) \in DOMAIN stack /\ Top \in Ids \X (0..MaxDepth)
           /\ \A n \in DOMAIN stack' : n \in DOMAIN stack /\ stack'[n] = stack[n]
           /\ \A n \in DOMAIN stack : stack[n] # Top =>
                 n \in DOMAIN stack' /\ stack'[n] = stack[n]
<1>1. stack \in Seq(Ids \X (0..MaxDepth)) /\ Len(stack) \in Nat /\ Len(stack) # 0
  BY DEF TypeOK
<1>2. Len(stack) \in DOMAIN stack /\ Top \in Ids \X (0..MaxDepth)
  BY <1>1 DEF Top
<1>3. stack' = SubSeq(stack, 1, Len(stack) - 1)
  BY DEF Front
<1>4. /\ stack' \in Seq(Ids \X (0..MaxDepth)) /\ DOMAIN stack' = 1..(Len(stack) - 1)
      /\ \A n \in 1..(Len(stack) - 1) : stack'[n] = stack[n]
  BY <1>1, <1>3
<1>5. DOMAIN stack = 1..Len(stack)
  BY <1>1
<1> QED
  BY <1>1, <1>2, <1>4, <1>5 DEF Top

\* Every child is pushed, one level deeper, on top of what is there.
LEMMA Pushed ==
    ASSUME TypeOK, at[2] < MaxDepth, PushChildren
    PROVE  /\ stack' \in Seq(Ids \X (0..MaxDepth))
           /\ \A n \in DOMAIN stack : n \in DOMAIN stack' /\ stack'[n] = stack[n]
           /\ \A n \in DOMAIN stack' :
                 \/ n \in DOMAIN stack /\ stack'[n] = stack[n]
                 \/ \E j \in children : stack'[n] = <<j, at[2] + 1>>
           /\ \A j \in children : \E n \in DOMAIN stack' : stack'[n] = <<j, at[2] + 1>>
<1>1. PICK order \in SetToSeqs(children) :
         stack' = stack \o [k \in DOMAIN order |-> <<order[k], at[2] + 1>>]
  BY DEF PushChildren
<1> DEFINE c == Cardinality(children)
           new == [k \in 1..c |-> <<order[k], at[2] + 1>>]
<1>2. IsFiniteSet(children) /\ c \in Nat
  <2>1. IsFiniteSet(children)
    BY FS_Subset, CascadeAssumption DEF TypeOK
  <2> QED
    BY <2>1, FS_CardinalityType
<1>3. order \in [1..c -> children] /\ \A k, l \in 1..c : k # l => order[k] # order[l]
  BY DEF SetToSeqs
<1>4. \A j \in children : \E k \in 1..c : order[k] = j
  <2>1. order \in Injection(1..c, children)
    BY <1>3 DEF Injection, IsInjective
  <2>2. Cardinality(1..c) = c
    BY <1>2, FS_Interval
  <2>3. order \in Surjection(1..c, children)
    BY <1>2, <2>1, <2>2, FS_Injection
  <2> QED
    BY <2>3 DEF Surjection
<1>5. stack \in Seq(Ids \X (0..MaxDepth)) /\ at[2] + 1 \in 0..MaxDepth /\ children \subseteq Ids
  BY CascadeAssumption DEF TypeOK
<1>6. new \in Seq(Ids \X (0..MaxDepth)) /\ Len(new) = c
  <2>1. \A k \in 1..c : <<order[k], at[2] + 1>> \in Ids \X (0..MaxDepth)
    BY <1>3, <1>5
  <2> QED
    BY <1>2, <2>1
<1>7. stack' = stack \o new
  BY <1>1, <1>3
<1> HIDE DEF new, c
<1>8. /\ stack' \in Seq(Ids \X (0..MaxDepth)) /\ Len(stack') = Len(stack) + c
      /\ \A n \in 1..Len(stack) : stack'[n] = stack[n]
      /\ \A n \in (Len(stack) + 1)..(Len(stack) + c) : stack'[n] = new[n - Len(stack)]
  BY <1>2, <1>5, <1>6, <1>7
<1>9. /\ DOMAIN stack = 1..Len(stack) /\ DOMAIN stack' = 1..(Len(stack) + c)
      /\ Len(stack) \in Nat
  BY <1>2, <1>5, <1>8
<1>10. \A k \in 1..c : new[k] = <<order[k], at[2] + 1>>
  BY DEF new
<1>11. ASSUME NEW n \in DOMAIN stack', n \notin DOMAIN stack
       PROVE  \E j \in children : stack'[n] = <<j, at[2] + 1>>
  <2>0. n \in Nat /\ n <= Len(stack) + c /\ n > Len(stack)
    BY <1>2, <1>9, <1>11
  <2>1. n - Len(stack) \in 1..c /\ n \in (Len(stack) + 1)..(Len(stack) + c)
    BY <1>2, <1>9, <2>0
  <2>2. stack'[n] = new[n - Len(stack)]
    BY <1>8, <2>1
  <2> QED
    BY <1>3, <1>10, <2>1, <2>2
<1>12. ASSUME NEW j \in children
       PROVE  \E n \in DOMAIN stack' : stack'[n] = <<j, at[2] + 1>>
  <2>1. PICK k \in 1..c : order[k] = j
    BY <1>4
  <2>2. /\ Len(stack) + k \in (Len(stack) + 1)..(Len(stack) + c)
        /\ Len(stack) + k \in 1..(Len(stack) + c)
        /\ (Len(stack) + k) - Len(stack) = k
    BY <1>2, <1>9
  <2>3. Len(stack) + k \in DOMAIN stack' /\ stack'[Len(stack) + k] = new[k]
    BY <1>8, <1>9, <2>2
  <2> QED
    BY <1>10, <2>1, <2>3
<1>13. \A n \in DOMAIN stack : n \in DOMAIN stack' /\ stack'[n] = stack[n]
  BY <1>2, <1>8, <1>9
<1> QED
  BY <1>8, <1>11, <1>12, <1>13

-----------------------------------------------------------------------------
(* Steps. *)

\* No entry the walk takes up stands for none.
LEMMA NoneApart ==
    /\ \A x \in Ids \X (0..MaxDepth) : x[2] < MaxDepth => x # None
    /\ None \in Ids \X (0..MaxDepth) /\ None[1] = Root /\ None[2] = MaxDepth
  BY CascadeAssumption DEF None

\* The sizes of the sets the walk counts in.
LEMMA Sizes ==
    ASSUME TypeOK
    PROVE  /\ IsFiniteSet(visited) /\ Cardinality(visited) \in Nat
           /\ Cardinality(visited) <= Cardinality(Ids) /\ Cardinality(Ids) \in Nat
           /\ at = None => Cardinality(Busy) = 0
           /\ at # None => Cardinality(Busy) = 1
<1>1. /\ IsFiniteSet(visited) /\ Cardinality(visited) <= Cardinality(Ids)
      /\ Cardinality(Ids) \in Nat
  BY FS_Subset, FS_CardinalityType, CascadeAssumption DEF TypeOK
<1>2. Cardinality(visited) \in Nat
  BY <1>1, FS_CardinalityType
<1>3. Cardinality({}) = 0 /\ \A x : Cardinality({x}) = 1
  BY FS_EmptySet, FS_Singleton
<1> QED
  BY <1>1, <1>2, <1>3 DEF Busy

\* The root is all the walk knows of at the start.
LEMMA InitIInv == Init => IInv
<1> SUFFICES ASSUME Init PROVE IInv
  OBVIOUS
<1>1. stack = << <<Root, 0>> >> /\ 1 \in DOMAIN stack /\ DOMAIN stack = {1}
      /\ stack[1] = <<Root, 0>>
  BY DEF Init
<1>2. TypeOK
  <2>1. << <<Root, 0>> >> \in Seq(Ids \X (0..MaxDepth))
    <3>1. <<Root, 0>> \in Ids \X (0..MaxDepth)
      BY CascadeAssumption
    <3> QED
      BY <3>1
  <2>2. 0 \in 0..Cardinality(Ids)
    BY FS_CardinalityType, CascadeAssumption
  <2> QED
    BY <2>1, <2>2, NoneApart DEF Init, TypeOK
<1>3. Placed
  BY <1>1, RootReached DEF Placed
<1>4. Counted
  <2>1. count = 0 /\ at = None /\ visited = {}
    BY DEF Init
  <2>2. Cardinality(Busy) = 0 /\ Cardinality(visited) \in Nat
    BY <1>2, <2>1, Sizes
  <2> QED
    BY <2>1, <2>2 DEF Counted
<1>5. Thorough
  BY <1>1 DEF Init, Thorough, Busy
<1> QED
  BY <1>2, <1>3, <1>4, <1>5 DEF Init, IInv, Passed, InHand, OnlyDescendants

\* Passing over an entry loses nothing: its memory was visited, or is too deep.
LEMMA SkipIInv == IInv /\ Skip => IInv'
<1> SUFFICES ASSUME IInv, Skip PROVE IInv'
  OBVIOUS
<1>0. TypeOK /\ Passed /\ Placed /\ InHand /\ OnlyDescendants /\ Counted /\ (alone => Thorough)
  BY DEF IInv
<1>1. /\ UNCHANGED <<derived, present, revoked, held, visited, at, children, count,
                     result, before, alone>>
      /\ result = "running" /\ at = None /\ stack # <<>> /\ stack' = Front(stack)
      /\ ~(Top[2] < MaxDepth) \/ Top[1] \in visited
  BY DEF Skip, ShouldCascade
<1>2. /\ stack' \in Seq(Ids \X (0..MaxDepth))
      /\ Top \in Ids \X (0..MaxDepth)
      /\ \A n \in DOMAIN stack' : n \in DOMAIN stack /\ stack'[n] = stack[n]
      /\ \A n \in DOMAIN stack : stack[n] # Top => n \in DOMAIN stack' /\ stack'[n] = stack[n]
  BY <1>0, <1>1, Popped
<1>3. \A i, n : Reaches(i, n)' <=> Reaches(i, n)
  BY <1>1, PathsStay
<1>4. TypeOK'
  BY <1>0, <1>1, <1>2 DEF TypeOK
<1>5. Passed' /\ InHand' /\ OnlyDescendants' /\ Counted'
  BY <1>0, <1>1, <1>3 DEF Passed, InHand, OnlyDescendants, Counted, Busy
<1>6. Placed'
  BY <1>0, <1>1, <1>2, <1>3 DEF Placed
<1>7. ASSUME alone PROVE Thorough'
  <2>1. Thorough /\ MaxDepth \in Nat \ {0}
    BY <1>0, <1>7, CascadeAssumption
  <2>2. Busy' = Busy
    BY <1>1 DEF Busy
  <2>3. Root \in visited \/ \E n \in DOMAIN stack' : stack'[n] = <<Root, 0>>
    <3>1. ASSUME Root \notin visited PROVE <<Root, 0>> # Top
      BY <1>1, <2>1, <3>1
    <3> QED
      BY <1>1, <1>2, <2>1, <3>1 DEF Thorough
  <2>4. ASSUME NEW i \in Ids, NEW d \in 0..(MaxDepth - 1), Followed(i, d)
        PROVE  Followed(i, d)'
    <3> SUFFICES ASSUME NEW j \in Ids \ before, <<i, j>> \in derived,
                        j \notin visited, ~(d + 1 >= MaxDepth)
                 PROVE  \E n \in DOMAIN stack' : stack'[n] = <<j, d + 1>>
      BY <1>1 DEF Followed
    <3>1. PICK n \in DOMAIN stack : stack[n] = <<j, d + 1>>
      BY <2>4 DEF Followed
    <3>2. <<j, d + 1>> # Top
      BY <1>1, <2>1
    <3> QED
      BY <1>2, <3>1, <3>2
  <2>5. visited \subseteq Ids
    BY <1>0 DEF TypeOK
  <2>6. \A i \in visited \ Busy : \E d \in 0..(MaxDepth - 1) : Reaches(i, d)' /\ Followed(i, d)'
    BY <1>1, <1>3, <2>1, <2>4, <2>5 DEF Thorough
  <2> QED
    BY <1>1, <2>1, <2>2, <2>3, <2>6 DEF Thorough
<1> QED
  BY <1>1, <1>4, <1>5, <1>6, <1>7 DEF IInv

\* The entry taken up is at its depth, and so are the derivatives found for it.
LEMMA FindDerivedIInv == IInv /\ FindDerived => IInv'
<1> SUFFICES ASSUME IInv, FindDerived PROVE IInv'
  OBVIOUS
<1>0. TypeOK /\ Passed /\ Placed /\ InHand /\ OnlyDescendants /\ Counted /\ (alone => Thorough)
  BY DEF IInv
<1>1. /\ UNCHANGED <<derived, present, revoked, held, count, result, before, alone>>
      /\ result = "running" /\ at = None /\ stack # <<>> /\ stack' = Front(stack)
      /\ Top[2] < MaxDepth /\ Top[1] \notin visited
      /\ visited' = visited \cup {Top[1]} /\ at' = Top
      /\ children' = {j \in present \ revoked : <<Top[1], j>> \in derived}
  BY DEF FindDerived, ShouldCascade
<1>2. /\ stack' \in Seq(Ids \X (0..MaxDepth))
      /\ Len(stack) \in DOMAIN stack /\ Top \in Ids \X (0..MaxDepth)
      /\ \A n \in DOMAIN stack' : n \in DOMAIN stack /\ stack'[n] = stack[n]
      /\ \A n \in DOMAIN stack : stack[n] # Top => n \in DOMAIN stack' /\ stack'[n] = stack[n]
  BY <1>0, <1>1, Popped
<1>3. \A i, n : Reaches(i, n)' <=> Reaches(i, n)
  BY <1>1, PathsStay
<1>4. TypeOK'
  BY <1>0, <1>1, <1>2 DEF TypeOK
<1>5. Reaches(Top[1], Top[2]) /\ Top[1] \in Ids /\ Top[2] \in 0..(MaxDepth - 1)
  <2>1. Reaches(Top[1], Top[2])
    BY <1>0, <1>2 DEF Placed, Top
  <2> QED
    BY <1>1, <1>2, <2>1, CascadeAssumption
<1>6. Top # None
  BY <1>1, <1>2, NoneApart
<1>7. Passed' /\ Placed'
  BY <1>0, <1>1, <1>2, <1>3 DEF Passed, Placed
<1>8. InHand'
  <2>1. \A j \in children' : j \notin before /\ <<Top[1], j>> \in derived
    BY <1>0, <1>1 DEF Passed
  <2> QED
    BY <1>1, <1>3, <1>5, <1>6, <2>1 DEF InHand, None
<1>9. OnlyDescendants'
  BY <1>0, <1>1, <1>3, <1>5 DEF OnlyDescendants
<1>10. Busy = {} /\ Busy' = {Top[1]}
  BY <1>1, <1>6 DEF Busy, None
<1>11. Counted'
  <2>1. Cardinality(visited') = Cardinality(visited) + 1 /\ Cardinality(visited) \in Nat
    BY <1>0, <1>1, Sizes, FS_AddElement
  <2>2. Cardinality(Busy) = 0 /\ Cardinality(Busy') = 1
    BY <1>10, FS_EmptySet, FS_Singleton
  <2>3. count \in Nat
    BY <1>0, Sizes DEF TypeOK
  <2> QED
    BY <1>0, <1>1, <2>1, <2>2, <2>3 DEF Counted
<1>12. ASSUME alone PROVE Thorough'
  <2>1. Thorough
    BY <1>0, <1>12
  <2>2. visited' \ Busy' = visited \ Busy
    BY <1>1, <1>10
  <2>3. Root \in visited' \/ \E n \in DOMAIN stack' : stack'[n] = <<Root, 0>>
    BY <1>1, <1>2, <2>1 DEF Thorough
  <2>4. ASSUME NEW i \in Ids, NEW d \in 0..(MaxDepth - 1), Followed(i, d)
        PROVE  Followed(i, d)'
    <3> SUFFICES ASSUME NEW j \in Ids \ before, <<i, j>> \in derived,
                        j \notin visited', ~(d + 1 >= MaxDepth)
                 PROVE  \E n \in DOMAIN stack' : stack'[n] = <<j, d + 1>>
      BY <1>1 DEF Followed
    <3>1. PICK n \in DOMAIN stack : stack[n] = <<j, d + 1>>
      BY <1>1, <2>4 DEF Followed
    <3>2. <<j, d + 1>> # Top
      BY <1>1
    <3> QED
      BY <1>2, <3>1, <3>2
  <2>5. visited \subseteq Ids
    BY <1>0 DEF TypeOK
  <2>6. \A i \in visited \ Busy : \E d \in 0..(MaxDepth - 1) : Reaches(i, d)' /\ Followed(i, d)'
    BY <1>1, <1>3, <2>1, <2>4, <2>5 DEF Thorough
  <2>7. \A j \in Ids \ before : <<Top[1], j>> \in derived => j \in visited' \cup children'
    BY <1>1, <2>1 DEF Thorough
  <2>8. /\ present = Ids /\ held = {} /\ revoked \subseteq before \cup visited
        /\ visited \ Busy \subseteq revoked
    BY <1>1, <2>1 DEF Thorough
  <2> QED
    BY <1>1, <2>2, <2>3, <2>6, <2>7, <2>8 DEF Thorough
<1> QED
  BY <1>1, <1>4, <1>7, <1>8, <1>9, <1>11, <1>12 DEF IInv

\* Once the memory is soft-deleted its derivatives are on the stack, and it is counted.
LEMMA SoftDeleteIInv == IInv /\ SoftDelete => IInv'
<1> SUFFICES ASSUME IInv, SoftDelete PROVE IInv'
  OBVIOUS
<1>0. TypeOK /\ Passed /\ Placed /\ InHand /\ OnlyDescendants /\ Counted /\ (alone => Thorough)
  BY DEF IInv
<1>1. /\ UNCHANGED <<derived, present, held, visited, before, alone>>
      /\ at # None /\ at' = None /\ children' = {}
  BY DEF SoftDelete
<1>2. \A i, n : Reaches(i, n)' <=> Reaches(i, n)
  BY <1>1, PathsStay
<1>3. /\ result = "running" /\ at[1] \in visited /\ at[2] < MaxDepth /\ Reaches(at[1], at[2])
      /\ \A j \in children : j \notin before /\ <<at[1], j>> \in derived
  BY <1>0, <1>1 DEF InHand
<1>4. Busy = {at[1]} /\ Busy' = {}
  BY <1>1 DEF Busy, None
<1>5. at[1] \in Ids /\ at[2] \in 0..(MaxDepth - 1) /\ at[2] \in Nat
  BY <1>0, <1>3, CascadeAssumption DEF TypeOK
<1>6. OnlyDescendants' /\ InHand'
  BY <1>0, <1>1, <1>2 DEF OnlyDescendants, InHand, None
<1>7. /\ count \in Nat /\ count + 1 <= Cardinality(visited)
      /\ Cardinality(visited) <= Cardinality(Ids)
      /\ Cardinality(visited) \in Nat /\ Cardinality(Ids) \in Nat
      /\ Cardinality(Busy') = 0
  <2>1. Cardinality(Busy) = 1 /\ Cardinality(Busy') = 0
    BY <1>4, FS_EmptySet, FS_Singleton
  <2> QED
    BY <1>0, <2>1, Sizes DEF Counted, TypeOK
<1>8. CASE at[1] \in held
  <2>1. result' = "held" /\ UNCHANGED <<revoked, stack, count>>
    BY <1>8 DEF SoftDelete
  <2>2. TypeOK'
    BY <1>0, <1>1, <2>1, NoneApart DEF TypeOK
  <2>3. Passed' /\ Placed'
    BY <1>0, <1>1, <1>2, <2>1 DEF Passed, Placed
  <2>4. Counted'
    BY <1>1, <1>7, <2>1 DEF Counted
  <2>5. alone => Thorough'
    BY <1>0, <1>8 DEF Thorough
  <2> QED
    BY <1>1, <1>6, <2>2, <2>3, <2>4, <2>5 DEF IInv
<1>9. CASE at[1] \notin held
  <2>1. /\ result' = result /\ PushChildren
        /\ IF at[1] \in present
           THEN revoked' = revoked \cup {at[1]} /\ count' = count + 1
           ELSE UNCHANGED <<revoked, count>>
    BY <1>9 DEF SoftDelete
  <2>2. /\ stack' \in Seq(Ids \X (0..MaxDepth))
        /\ \A n \in DOMAIN stack : n \in DOMAIN stack' /\ stack'[n] = stack[n]
        /\ \A n \in DOMAIN stack' :
              \/ n \in DOMAIN stack /\ stack'[n] = stack[n]
              \/ \E j \in children : stack'[n] = <<j, at[2] + 1>>
        /\ \A j \in children : \E n \in DOMAIN stack' : stack'[n] = <<j, at[2] + 1>>
    BY <1>0, <1>3, <2>1, Pushed
  <2>3. /\ revoked \subseteq revoked' /\ revoked' \subseteq revoked \cup {at[1]}
        /\ at[1] \in present => at[1] \in revoked'
        /\ revoked' \subseteq revoked \cup present
    BY <2>1
  <2>4. count' \in Nat /\ count' <= count + 1
    BY <1>7, <2>1
  <2>5. TypeOK'
    <3>1. count' \in 0..Cardinality(Ids)
      BY <1>7, <2>4
    <3>2. revoked' \subseteq present
      BY <1>0, <2>3 DEF TypeOK
    <3> QED
      BY <1>0, <1>1, <2>1, <2>2, <3>1, <3>2, NoneApart DEF TypeOK
  <2>6. Passed'
    BY <1>0, <1>1, <2>3 DEF Passed
  <2>7. Placed'
    <3> SUFFICES ASSUME NEW n \in DOMAIN stack' PROVE Reaches(stack'[n][1], stack'[n][2])
      BY <1>2 DEF Placed
    <3>1. CASE n \in DOMAIN stack /\ stack'[n] = stack[n]
      BY <1>0, <3>1 DEF Placed
    <3>2. ASSUME NEW j \in children, stack'[n] = <<j, at[2] + 1>>
          PROVE  Reaches(stack'[n][1], stack'[n][2])
      <4>1. j \in Ids \ before /\ <<at[1], j>> \in derived
        BY <1>0, <1>3 DEF TypeOK
      <4>2. Reaches(j, at[2] + 1)
        BY <1>3, <1>5, <4>1, OneFurther
      <4> QED
        BY <3>2, <4>2
    <3> QED
      BY <2>2, <3>1, <3>2
  <2>8. Counted'
    BY <1>1, <1>7, <2>4 DEF Counted
  <2>9. ASSUME alone PROVE Thorough'
    <3>1. Thorough
      BY <1>0, <2>9
    <3>2. /\ present = Ids /\ held = {} /\ revoked \subseteq before \cup visited
          /\ visited \ {at[1]} \subseteq revoked
          /\ Root \in visited \/ \E n \in DOMAIN stack : stack[n] = <<Root, 0>>
          /\ \A j \in Ids \ before : <<at[1], j>> \in derived => j \in visited \cup children
          /\ \A i \in visited \ {at[1]} : \E d \in 0..(MaxDepth - 1) :
                Reaches(i, d) /\ Followed(i, d)
      BY <1>1, <1>3, <1>4, <3>1 DEF Thorough
    <3>3. revoked' \subseteq before \cup visited /\ visited \subseteq revoked'
      BY <1>3, <1>5, <2>3, <3>2
    <3>4. Root \in visited \/ \E n \in DOMAIN stack' : stack'[n] = <<Root, 0>>
      BY <2>2, <3>2
    <3>5. \A i, d : Followed(i, d) => Followed(i, d)'
      BY <1>1, <2>2 DEF Followed
    <3>6. \A i, d : i = at[1] /\ d = at[2] => Followed(i, d)'
      <4> SUFFICES ASSUME NEW i, NEW d, i = at[1], d = at[2],
                          NEW j \in Ids \ before, <<i, j>> \in derived, j \notin visited
                   PROVE  \E n \in DOMAIN stack' : stack'[n] = <<j, d + 1>>
        BY <1>1 DEF Followed
      <4> QED
        BY <2>2, <3>2
    <3>7. \A i \in visited : \E d \in 0..(MaxDepth - 1) : Reaches(i, d) /\ Followed(i, d)'
      BY <1>3, <1>5, <3>2, <3>5, <3>6
    <3> QED
      BY <1>1, <1>2, <1>3, <1>4, <2>1, <3>2, <3>3, <3>4, <3>7 DEF Thorough
  <2> QED
    BY <1>1, <1>6, <2>5, <2>6, <2>7, <2>8, <2>9 DEF IInv
<1> QED
  BY <1>8, <1>9

\* The walk ends with an empty stack.
LEMMA FinishIInv == IInv /\ Finish => IInv'
<1> SUFFICES ASSUME IInv, Finish PROVE IInv'
  OBVIOUS
<1>1. /\ UNCHANGED <<derived, present, revoked, held, stack, visited, at, children, count,
                     before, alone>>
      /\ result = "running" /\ at = None /\ stack = <<>> /\ result' = "ok"
  BY DEF Finish
<1>2. \A i, n : (Reaches(i, n)' <=> Reaches(i, n)) /\ (Followed(i, n)' <=> Followed(i, n))
  BY <1>1, PathsStay DEF Followed
<1>3. TypeOK' /\ Passed' /\ Placed' /\ InHand' /\ OnlyDescendants' /\ Counted'
  BY <1>1, <1>2 DEF IInv, TypeOK, Passed, Placed, InHand, OnlyDescendants, Counted, Busy
<1>4. ASSUME alone PROVE Thorough'
  <2>1. Thorough /\ Busy' = Busy
    BY <1>1, <1>4 DEF IInv, Busy
  <2> QED
    BY <1>1, <1>2, <2>1 DEF Thorough
<1> QED
  BY <1>1, <1>3, <1>4 DEF IInv

\* A cascade that fails keeps to its descendants; what it leaves out is its own.
LEMMA FailIInv == IInv /\ Fail => IInv'
<1> SUFFICES ASSUME IInv, Fail PROVE IInv'
  OBVIOUS
<1>0. TypeOK /\ Passed /\ Placed /\ InHand /\ OnlyDescendants /\ Counted /\ (alone => Thorough)
  BY DEF IInv
<1>1. /\ UNCHANGED <<derived, present, held, stack, visited, count, before, alone>>
      /\ result = "running" /\ result' = "error" /\ at' = None /\ children' = {}
  BY DEF Fail
<1>2. \/ revoked' = revoked
      \/ at # None /\ at[1] \in present /\ revoked' = revoked \cup {at[1]}
  BY DEF Fail
<1>3. \A i, n : Reaches(i, n)' <=> Reaches(i, n)
  BY <1>1, PathsStay
<1>4. /\ revoked \subseteq revoked' /\ revoked' \subseteq present
      /\ revoked' \subseteq revoked \cup visited
  BY <1>0, <1>2 DEF TypeOK, InHand
<1>5. TypeOK'
  BY <1>0, <1>1, <1>4, NoneApart DEF TypeOK
<1>6. Passed' /\ Placed' /\ InHand' /\ OnlyDescendants'
  BY <1>0, <1>1, <1>3, <1>4 DEF Passed, Placed, InHand, OnlyDescendants, None
<1>7. Counted'
  <2>1. /\ count \in Nat /\ Cardinality(visited) \in Nat
        /\ Cardinality(Busy) = 0 \/ Cardinality(Busy) = 1
    BY <1>0, Sizes DEF TypeOK
  <2>2. Cardinality(Busy') = 0
    BY <1>1, FS_EmptySet DEF Busy, None
  <2> QED
    BY <1>0, <1>1, <2>1, <2>2 DEF Counted
<1>8. ASSUME alone PROVE Thorough'
  <2>1. Thorough
    BY <1>0, <1>8
  <2> QED
    BY <1>1, <1>4, <2>1 DEF Thorough
<1> QED
  BY <1>1, <1>5, <1>6, <1>7, <1>8 DEF IInv

\* Others may revoke, remove or hold memories; the walk's own bookkeeping stands.
LEMMA InterfereIInv == ASSUME NEW i \in Ids PROVE IInv /\ Interfere(i) => IInv'
<1> SUFFICES ASSUME IInv, Interfere(i) PROVE IInv'
  OBVIOUS
<1>0. TypeOK /\ Passed /\ Placed /\ InHand /\ OnlyDescendants /\ Counted
  BY DEF IInv
<1>1. /\ UNCHANGED <<derived, stack, visited, at, children, count, result, before>>
      /\ alone' = FALSE
  BY DEF Interfere
<1>2. \A j, n : Reaches(j, n)' <=> Reaches(j, n)
  BY <1>1, PathsStay
<1>3. TypeOK' /\ Passed'
  BY <1>0, <1>1 DEF Interfere, TypeOK, Passed
<1>4. Placed' /\ InHand' /\ OnlyDescendants' /\ Counted'
  BY <1>0, <1>1, <1>2 DEF Placed, InHand, OnlyDescendants, Counted, Busy, None
<1> QED
  BY <1>1, <1>3, <1>4 DEF IInv

\* A step that changes nothing.
LEMMA StutterIInv == IInv /\ UNCHANGED vars => IInv'
<1> SUFFICES ASSUME IInv, UNCHANGED vars PROVE IInv'
  OBVIOUS
<1>1. \A i, n : (Reaches(i, n)' <=> Reaches(i, n)) /\ (Followed(i, n)' <=> Followed(i, n))
  BY PathsStay DEF vars, Followed
<1>2. TypeOK' /\ Passed' /\ Placed' /\ InHand' /\ OnlyDescendants' /\ Counted'
  BY <1>1 DEF IInv, vars, TypeOK, Passed, Placed, InHand, OnlyDescendants, Counted, Busy
<1>3. ASSUME alone PROVE Thorough'
  <2>1. Thorough /\ Busy' = Busy /\ UNCHANGED vars
    BY <1>3 DEF IInv, Busy, vars
  <2> QED
    BY <1>1, <2>1 DEF Thorough, vars
<1> QED
  BY <1>2, <1>3 DEF IInv, vars

-----------------------------------------------------------------------------
(* Theorems. *)

\* The inductive invariant holds in every behaviour of the cascade.
THEOREM Inductive == Spec => []IInv
<1>1. ASSUME IInv, [Next]_vars PROVE IInv'
  BY <1>1, SkipIInv, FindDerivedIInv, SoftDeleteIInv, FinishIInv, FailIInv, InterfereIInv,
     StutterIInv DEF Next, Cascade
<1> QED
  BY <1>1, InitIInv, PTL DEF Spec

\* cascade_forget keeps its types: in particular it never counts more
\* soft-deletes than there are memories.
THEOREM TypeCorrect == Spec => []TypeOK
<1>1. IInv => TypeOK
  BY DEF IInv
<1> QED
  BY <1>1, Inductive, PTL

\* cascade_forget visits only the root and what was derived from it, within
\* MAX_CASCADE_DEPTH levels, whatever other requests do meanwhile.
THEOREM DescendantsOnly == Spec => []OnlyDescendants
<1>1. IInv => OnlyDescendants
  BY DEF IInv
<1> QED
  BY <1>1, Inductive, PTL

\* On a tree, a walk that ended has visited every memory within the limit: the
\* first memory of a path that it missed would be on the stack, which is empty.
LEMMA NoneMissed ==
    ASSUME IInv, alone, IsTree, result = "ok",
           NEW n \in 0..(MaxDepth - 1), NEW i \in Ids, Reaches(i, n)
    PROVE  i \in visited
<1> SUFFICES ASSUME i \notin visited PROVE FALSE
  OBVIOUS
<1>1. /\ Thorough /\ stack = <<>> /\ Busy = {} /\ DOMAIN stack = {} /\ visited \subseteq Ids
      /\ MaxDepth \in Nat \ {0} /\ n \in Nat
  BY CascadeAssumption DEF IInv, Thorough, TypeOK, Busy
<1>2. PICK path \in [0..n -> Ids] :
         /\ path[0] = Root /\ path[n] = i
         /\ \A k \in 1..n : path[k] \notin before /\ <<path[k - 1], path[k]>> \in derived
  BY DEF Reaches
<1> DEFINE T == {k \in 0..n : path[k] \notin visited}
<1>3. T \in SUBSET Nat /\ T # {}
  <2>1. n \in T
    BY <1>1, <1>2
  <2> QED
    BY <2>1
<1>4. PICK m \in T : \A k \in T : m <= k
  BY <1>3, LeastNatural
<1>5. m \in 0..n /\ path[m] \notin visited
  BY <1>4
<1>6. m # 0
  BY <1>1, <1>2, <1>5 DEF Thorough
<1>7. m \in 1..n /\ m - 1 \in 0..n /\ m - 1 \in Nat
  BY <1>5, <1>6
<1>8. path[m - 1] \in visited
  BY <1>4, <1>7
<1>9. PICK d \in 0..(MaxDepth - 1) : Reaches(path[m - 1], d) /\ Followed(path[m - 1], d)
  BY <1>1, <1>8 DEF Thorough
<1>10. Reaches(path[m - 1], m - 1)
  BY <1>1, <1>2, <1>7, PrefixReached
<1>11. d = m - 1
  <2>1. d \in Nat /\ path[m - 1] \in Ids
    BY <1>1, <1>7
  <2> QED
    BY <1>7, <1>9, <1>10, <2>1, UniqueDepth
<1>12. path[m] \in Ids \ before /\ <<path[m - 1], path[m]>> \in derived
  BY <1>2, <1>7
<1>13. ~(d + 1 >= MaxDepth)
  BY <1>1, <1>7, <1>11
<1> QED
  BY <1>1, <1>5, <1>9, <1>12, <1>13 DEF Followed

\* Where no memory has two parents and no other request interferes, an Ok from
\* cascade_forget means the whole subtree within MAX_CASCADE_DEPTH is revoked.
THEOREM TreesCompleted == Spec => []CompleteOnTrees
<1>1. ASSUME IInv PROVE CompleteOnTrees
  <2> SUFFICES ASSUME IsTree, alone, result = "ok", NEW i \in present,
                      NEW n \in 0..(MaxDepth - 1), Reaches(i, n)
               PROVE  i \in revoked
    BY DEF CompleteOnTrees, Complete
  <2>1. i \in Ids
    BY <1>1 DEF IInv, TypeOK
  <2>2. i \in visited
    BY <1>1, <2>1, NoneMissed
  <2>3. Thorough /\ Busy = {}
    BY <1>1 DEF IInv, Thorough, Busy
  <2> QED
    BY <2>2, <2>3 DEF Thorough
<1> QED
  BY <1>1, Inductive, PTL
==============================================================================
