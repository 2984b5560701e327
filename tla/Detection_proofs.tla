-------------------------- MODULE Detection_proofs --------------------------
(***************************************************************************)
(* Proofs about the detection of device profiles, for any profiles,        *)
(* requests and orders of the detectors, and any number of goroutines that *)
(* sort the shared slices beside each other.                               *)
(***************************************************************************)
EXTENDS Detection, WellFoundedInduction, TLAPS

-----------------------------------------------------------------------------
(* The inductive invariant.                                                *)

Labels        == {"idle", "ask", "sort", "store", "scan", "done"}
ProfilesOf(d) == {p \in Profiles : p.method = d}
Loops         == [detector : Nat \ {0}, i : Nat, j : Nat]

RegistryOK ==
    /\ detectors \in Seq(Detectors)
    /\ default \in Profiles \cup {NoProfile}
    /\ \A t \in DOMAIN patterns :
         patterns[t] \in ProfilesOf("path") /\ patterns[t].pattern = t
    /\ slice = [d \in Slices |-> slice[d]]
    /\ \A d \in Slices : slice[d] \in Seq(ProfilesOf(d))

GoroutinesOK ==
    /\ query \in [Goroutines -> Queries \cup {NoQuery}]
    /\ pc \in [Goroutines -> Labels]
    /\ loop \in [Goroutines -> Loops]
    /\ held \in [Goroutines -> Seq(Profiles)]
    /\ result \in [Goroutines -> Profiles \cup {NoProfile}]
    /\ overlapped \in BOOLEAN

\* Where the indices of a goroutine's loops are, and what it holds.
SortingOK(g) ==
    /\ loop[g].i >= 2 /\ loop[g].j \in 1 .. loop[g].i
    /\ loop[g].i > Len(slice[Detector(g)]) => loop[g].j = loop[g].i

StoringOK(g) ==
    /\ loop[g].i \in 2 .. Len(slice[Detector(g)])
    /\ loop[g].j \in 2 .. loop[g].i
    /\ held[g] \in Seq(ProfilesOf(Detector(g))) /\ Len(held[g]) \in {1, 2}

IndexOK(g) ==
    /\ pc[g] \in {"sort", "store", "scan"} =>
         loop[g].detector \in DOMAIN detectors /\ Detector(g) \in Slices
    /\ pc[g] = "sort" => SortingOK(g)
    /\ pc[g] = "store" => StoringOK(g)
    /\ pc[g] # "store" => held[g] = <<>>
    /\ pc[g] = "scan" => loop[g].i # 0
    /\ pc[g] = "idle" => loop[g].detector = 1

IndicesOK == \A g \in Goroutines : IndexOK(g)

\* Two detections that have not met over a slice out of order: every slice is
\* in order, or a single goroutine is at work.
Apart ==
    ~ overlapped => \/ Sorted
                    \/ \A g, h \in Goroutines :
                         pc[g] # "idle" /\ pc[h] # "idle" => g = h

\* The slices as they will be when the swap a goroutine is in is done.
Swapped(s, j, h) ==
    IF Len(h) = 2 THEN [s EXCEPT ![j] = h[1], ![j - 1] = h[2]]
    ELSE [s EXCEPT ![j - 1] = h[1]]

Completed(g) ==
    IF pc[g] = "store"
    THEN [slice EXCEPT ![Detector(g)] = Swapped(@, loop[g].j, held[g])]
    ELSE slice

\* The profiles up to the i-th are in order but for the j-th, which is still
\* on its way to the front: none behind it goes before it.
OrderedTo(s, i, j) ==
    \A a, b \in DOMAIN s :
        a < b /\ b <= i /\ b # j => s[b].priority <= s[a].priority

Ordered ==
    ~ overlapped => \A g \in Goroutines :
        /\ pc[g] = "sort" =>
             OrderedTo(slice[Detector(g)], loop[g].i, loop[g].j)
        /\ pc[g] = "store" =>
             OrderedTo(Completed(g)[Detector(g)], loop[g].i, loop[g].j - 1)
        /\ pc[g] = "scan" =>
             /\ OrderedTo(slice[Detector(g)], Len(slice[Detector(g)]), 0)
             /\ \A k \in 1 .. loop[g].i - 1 : k \in DOMAIN slice[Detector(g)] =>
                  ~ Matches(Detector(g), query[g], slice[Detector(g)][k])

\* What a goroutine finds with a detector when the slices are these.
Found(slices, d, q) ==
    {p \in IF d = "path" THEN Range(patterns) ELSE Range(slices[d]) :
        Matches(d, q, p)}

\* The detectors asked before had no profile for the request.
Searched ==
    ~ overlapped => \A g \in Goroutines :
        pc[g] \in {"ask", "sort", "store", "scan"} =>
            \A n \in DOMAIN detectors : n < loop[g].detector =>
                Found(Completed(g), detectors[n], query[g]) = {}

Types == RegistryOK /\ GoroutinesOK /\ IndicesOK

IInv == /\ Types /\ AnswersMatch
        /\ Apart /\ Ordered /\ Searched /\ BestOfFirstDetector

-----------------------------------------------------------------------------
(* The indices of a goroutine's loops.                                     *)

LEMMA LoopFacts ==
    ASSUME loop \in [Goroutines -> Loops], NEW g \in Goroutines
    PROVE  /\ loop[g].detector \in Nat /\ loop[g].detector # 0
           /\ loop[g].i \in Nat /\ loop[g].j \in Nat
           /\ loop[g] = [detector |-> loop[g].detector, i |-> loop[g].i,
                         j |-> loop[g].j]
<1>. loop[g] \in Loops
  OBVIOUS
<1>. QED
  BY DEF Loops

LEMMA SetLoop ==
    ASSUME loop \in [Goroutines -> Loops], NEW g \in Goroutines,
           NEW r \in Loops, loop' = [loop EXCEPT ![g] = r]
    PROVE  /\ loop' \in [Goroutines -> Loops] /\ loop'[g] = r
           /\ \A h \in Goroutines : h # g => loop'[h] = loop[h]
OBVIOUS

LEMMA SetIndices ==
    ASSUME loop \in [Goroutines -> Loops], NEW g \in Goroutines,
           NEW a \in Nat, NEW b \in Nat,
           \/ loop' = [loop EXCEPT ![g].i = a, ![g].j = b]
           \/ loop' = [loop EXCEPT ![g].i = a] /\ b = loop[g].j
           \/ loop' = [loop EXCEPT ![g].j = b] /\ a = loop[g].i
    PROVE  /\ loop' \in [Goroutines -> Loops]
           /\ loop'[g].detector = loop[g].detector
           /\ loop'[g].i = a /\ loop'[g].j = b
           /\ \A h \in Goroutines : h # g => loop'[h] = loop[h]
<1>. DEFINE r == [detector |-> loop[g].detector, i |-> a, j |-> b]
<1>1. r \in Loops
  BY LoopFacts DEF Loops
<1>2. loop' = [loop EXCEPT ![g] = r]
  <2>. loop[g] = [detector |-> loop[g].detector, i |-> loop[g].i, j |-> loop[g].j]
    BY LoopFacts
  <2>1. CASE loop' = [loop EXCEPT ![g].i = a, ![g].j = b]
    BY <2>1
  <2>2. CASE loop' = [loop EXCEPT ![g].i = a] /\ b = loop[g].j
    BY <2>2
  <2>3. CASE loop' = [loop EXCEPT ![g].j = b] /\ a = loop[g].i
    BY <2>3
  <2>. QED
    BY <2>1, <2>2, <2>3
<1>. HIDE DEF Loops
<1>. QED
  BY <1>1, <1>2, SetLoop

LEMMA SetBoth ==
    ASSUME loop \in [Goroutines -> Loops], NEW g \in Goroutines,
           NEW a \in Nat, NEW b \in Nat
    PROVE  loop' = [loop EXCEPT ![g].i = a, ![g].j = b] =>
             /\ loop'[g].detector = loop[g].detector
             /\ loop'[g].i = a /\ loop'[g].j = b
<1>. DEFINE r == [detector |-> loop[g].detector, i |-> a, j |-> b]
<1>. loop[g] = [detector |-> loop[g].detector, i |-> loop[g].i, j |-> loop[g].j]
  BY LoopFacts
<1>1. CASE loop' = [loop EXCEPT ![g].i = a, ![g].j = b]
  <2>1. loop' = [loop EXCEPT ![g] = r]
    <3>. DEFINE s == [loop[g] EXCEPT !.i = a]
                t == [s EXCEPT !.j = b]
    <3>1. s = [detector |-> loop[g].detector, i |-> a, j |-> loop[g].j]
      OBVIOUS
    <3>. HIDE DEF s
    <3>2. t = r
      BY <3>1
    <3>3. loop' = [loop EXCEPT ![g] = t]
      BY <1>1 DEF s
    <3>. QED
      BY <3>2, <3>3
  <2>2. r.detector = loop[g].detector /\ r.i = a /\ r.j = b
    OBVIOUS
  <2>. HIDE DEF r
  <2>. QED
    BY <2>1, <2>2
<1>. QED
  BY <1>1

LEMMA SetInner ==
    ASSUME loop \in [Goroutines -> Loops], NEW g \in Goroutines, NEW b \in Nat,
           loop' = [loop EXCEPT ![g].j = b]
    PROVE  /\ loop'[g].detector = loop[g].detector
           /\ loop'[g].i = loop[g].i /\ loop'[g].j = b
<1>. DEFINE t == [loop[g] EXCEPT !.j = b]
<1>1. loop[g] = [detector |-> loop[g].detector, i |-> loop[g].i, j |-> loop[g].j]
  BY LoopFacts
<1>2. t = [detector |-> loop[g].detector, i |-> loop[g].i, j |-> b]
  BY <1>1
<1>3. loop'[g] = t
  OBVIOUS
<1>. QED
  BY <1>2, <1>3

LEMMA SetDetector ==
    ASSUME loop \in [Goroutines -> Loops], NEW g \in Goroutines,
           loop' = [loop EXCEPT ![g].detector = @ + 1]
    PROVE  /\ loop' \in [Goroutines -> Loops]
           /\ loop'[g].detector = loop[g].detector + 1
           /\ \A h \in Goroutines : h # g => loop'[h] = loop[h]
<1>. DEFINE r == [detector |-> loop[g].detector + 1, i |-> loop[g].i,
                  j |-> loop[g].j]
<1>1. r \in Loops
  BY LoopFacts DEF Loops
<1>2. loop' = [loop EXCEPT ![g] = r]
  <2>. DEFINE n == loop[g].detector + 1
  <2>1. loop' = [loop EXCEPT ![g].detector = n]
    OBVIOUS
  <2>2. loop[g] = [detector |-> loop[g].detector, i |-> loop[g].i, j |-> loop[g].j]
    BY LoopFacts
  <2>3. r = [detector |-> n, i |-> loop[g].i, j |-> loop[g].j]
    OBVIOUS
  <2>. HIDE DEF n, r
  <2>. QED
    BY <2>1, <2>2, <2>3
<1>3. r.detector = loop[g].detector + 1
  OBVIOUS
<1>. HIDE DEF r, Loops
<1>. QED
  BY <1>1, <1>2, <1>3, SetLoop

-----------------------------------------------------------------------------
(* Types.                                                                  *)

\* The places a swap stores to are in the slice, and what it stores a profile.
LEMMA StoringFacts ==
    ASSUME NEW g, NEW d, d = Detector(g), Len(slice[d]) \in Nat, StoringOK(g)
    PROVE  /\ loop[g].j \in 1 .. Len(slice[d]) /\ loop[g].j - 1 \in 1 .. Len(slice[d])
           /\ held[g][1] \in ProfilesOf(d)
<1>. DEFINE S == ProfilesOf(d)
            h == held[g]
<1>1. /\ loop[g].i \in 2 .. Len(slice[d]) /\ loop[g].j \in 2 .. loop[g].i
      /\ h \in Seq(S) /\ Len(h) \in {1, 2}
  BY DEF StoringOK
<1>. HIDE DEF S, h
<1>2. h[1] \in S
  BY <1>1
<1>. QED
  BY <1>1, <1>2 DEF S, h

LEMMA RegistryStep == ASSUME Types, [Next]_vars PROVE RegistryOK'
<1>. /\ RegistryOK /\ GoroutinesOK /\ IndicesOK
  BY DEF Types
<1>. USE DEF RegistryOK
<1>1. ASSUME NEW d \in Detectors, RegisterDetector(d) PROVE RegistryOK'
  BY <1>1 DEF RegisterDetector
<1>2. ASSUME NEW p \in Profiles, SetDefaultProfile(p) PROVE RegistryOK'
  BY <1>2 DEF SetDefaultProfile
<1>3. ASSUME NEW p \in Profiles, RegisterProfile(p) PROVE RegistryOK'
  <2>1. detectors' = detectors /\ default' = default
    BY <1>3 DEF RegisterProfile
  <2>2. CASE /\ p.method = "path" /\ slice' = slice
             /\ patterns' = [t \in DOMAIN patterns \cup {p.pattern} |->
                               IF t = p.pattern THEN p ELSE patterns[t]]
    BY <2>1, <2>2 DEF ProfilesOf
  <2>3. CASE /\ p.method \in Slices /\ patterns' = patterns
             /\ slice' = [slice EXCEPT ![p.method] = Append(@, p)]
    <3>1. p \in ProfilesOf(p.method)
      BY DEF ProfilesOf
    <3>2. Append(slice[p.method], p) \in Seq(ProfilesOf(p.method))
      BY <2>3, <3>1
    <3>3. /\ slice' = [d \in Slices |-> slice'[d]]
          /\ \A d \in Slices : slice'[d] = IF d = p.method
                                           THEN Append(slice[p.method], p)
                                           ELSE slice[d]
      BY <2>3
    <3>4. \A d \in Slices : slice'[d] \in Seq(ProfilesOf(d))
      BY <3>2, <3>3
    <3>. HIDE DEF ProfilesOf
    <3>. QED
      BY <2>1, <2>3, <3>3, <3>4
  <2>. QED
    BY <1>3, <2>2, <2>3 DEF RegisterProfile
<1>4. ASSUME NEW g \in Goroutines, StoreUpper(g) \/ StoreLower(g)
      PROVE  RegistryOK'
  <2>. DEFINE d == Detector(g)
  <2>1. /\ d \in Slices /\ UNCHANGED <<detectors, default, patterns>>
        /\ \E j \in 1 .. Len(slice[d]) : \E p \in ProfilesOf(d) :
             slice' = [slice EXCEPT ![d][j] = p]
    <3>1. /\ pc[g] = "store" /\ UNCHANGED registry
          /\ \/ slice' = [slice EXCEPT ![d][loop[g].j] = held[g][1]]
             \/ slice' = [slice EXCEPT ![d][loop[g].j - 1] = held[g][1]]
      BY <1>4 DEF StoreUpper, StoreLower
    <3>2. d \in Slices /\ StoringOK(g) /\ d = Detector(g)
      BY <3>1 DEF IndicesOK, IndexOK
    <3>. HIDE DEF d
    <3>3. Len(slice[d]) \in Nat
      BY <3>2
    <3>4. /\ loop[g].j \in 1 .. Len(slice[d]) /\ loop[g].j - 1 \in 1 .. Len(slice[d])
          /\ held[g][1] \in ProfilesOf(d)
      BY <3>2, <3>3, StoringFacts
    <3>. QED
      BY <3>1, <3>2, <3>4 DEF registry
  <2>. HIDE DEF d
  <2>. PICK j \in 1 .. Len(slice[d]), p \in ProfilesOf(d) :
         slice' = [slice EXCEPT ![d][j] = p]
    BY <2>1
  <2>2. [slice[d] EXCEPT ![j] = p] \in Seq(ProfilesOf(d))
    BY <2>1
  <2>3. /\ slice' = [e \in Slices |-> slice'[e]]
        /\ \A e \in Slices : slice'[e] = IF e = d THEN [slice[d] EXCEPT ![j] = p]
                                         ELSE slice[e]
    BY <2>1
  <2>. QED
    BY <2>1, <2>2, <2>3
<1>5. CASE UNCHANGED <<detectors, default, patterns, slice>>
  BY <1>5
<1>. QED
  BY <1>1, <1>2, <1>3, <1>4, <1>5
  DEF Next, Begin, AskNobody, AskPath, AskSlice, Sort, Scan, End, registry, vars

\* The profile at an index of a slice.
LEMMA At ==
    ASSUME RegistryOK, NEW d \in Slices, NEW n \in 1 .. Len(slice[d])
    PROVE  /\ slice[d] \in Seq(ProfilesOf(d)) /\ Len(slice[d]) \in Nat
           /\ slice[d][n] \in ProfilesOf(d) /\ slice[d][n] \in Profiles
           /\ slice[d][n].priority \in Int /\ slice[d][n].method = d
<1>1. slice[d][n] \in ProfilesOf(d) /\ slice[d] \in Seq(ProfilesOf(d))
  BY DEF RegistryOK
<1>. QED
  BY <1>1, DetectionAssumption DEF ProfilesOf

LEMMA TailOfTwo ==
    ASSUME NEW S, NEW s \in Seq(S), Len(s) = 2
    PROVE  /\ Tail(s) \in Seq(S) /\ Len(Tail(s)) = 1
           /\ Tail(s)[1] = s[2]
<1>. s # <<>>
  OBVIOUS
<1>. QED
  OBVIOUS

LEMMA GoroutinesStep == ASSUME Types, [Next]_vars PROVE GoroutinesOK'
<1>. /\ RegistryOK /\ GoroutinesOK /\ IndicesOK
  BY DEF Types
<1>. USE DEF GoroutinesOK, Labels
<1>1. ASSUME NEW g \in Goroutines, NEW q \in Queries, Begin(g, q)
      PROVE  GoroutinesOK'
  <2>1. overlapped' \in BOOLEAN
    BY <1>1 DEF Begin
  <2>. QED
    BY <1>1, <2>1 DEF Begin
<1>2. ASSUME NEW g \in Goroutines, NEW p \in Profiles \cup {NoProfile},
             Return(g, p), UNCHANGED <<query, held, overlapped>>
      PROVE  GoroutinesOK'
  BY <1>2 DEF Return
<1>3. ASSUME NEW g \in Goroutines, NextDetector(g),
             UNCHANGED <<query, held, overlapped>>
      PROVE  GoroutinesOK'
  <2>1. loop' \in [Goroutines -> Loops]
    BY <1>3, SetDetector DEF NextDetector
  <2>. QED
    BY <1>3, <2>1 DEF NextDetector
<1>4. ASSUME NEW g \in Goroutines, AskNobody(g) PROVE GoroutinesOK'
  BY <1>2, <1>4 DEF AskNobody, RegistryOK
<1>5. ASSUME NEW g \in Goroutines, AskPath(g) PROVE GoroutinesOK'
  <2>1. CASE NextDetector(g)
    BY <1>3, <1>5, <2>1 DEF AskPath
  <2>2. CASE ~ NextDetector(g)
    <3>. PICK t \in DOMAIN patterns : Return(g, patterns[t])
      BY <1>5, <2>2 DEF AskPath
    <3>1. patterns[t] \in Profiles
      BY DEF RegistryOK, ProfilesOf
    <3>. QED
      BY <1>2, <1>5, <3>1 DEF AskPath
  <2>. QED
    BY <2>1, <2>2
<1>6. ASSUME NEW g \in Goroutines, AskSlice(g) PROVE GoroutinesOK'
  <2>1. CASE NextDetector(g)
    BY <1>3, <1>6, <2>1 DEF AskSlice
  <2>2. CASE ~ NextDetector(g)
    <3>1. loop' \in [Goroutines -> Loops]
      BY <1>6, <2>2, SetIndices DEF AskSlice
    <3>. QED
      BY <1>6, <2>2, <3>1 DEF AskSlice
  <2>. QED
    BY <2>1, <2>2
<1>7. ASSUME NEW g \in Goroutines, Sort(g) PROVE GoroutinesOK'
  <2>. DEFINE s == slice[Detector(g)]
              i == loop[g].i
              j == loop[g].j
  <2>1. UNCHANGED <<query, result, overlapped>>
    BY <1>7 DEF Sort
  <2>2. pc[g] = "sort" /\ Detector(g) \in Slices /\ SortingOK(g)
    BY <1>7 DEF Sort, IndicesOK, IndexOK
  <2>3. CASE i > Len(s)
    <3>1. loop' \in [Goroutines -> Loops]
      BY <1>7, <2>3, SetIndices DEF Sort
    <3>. QED
      BY <1>7, <2>3, <3>1 DEF Sort
  <2>4. CASE ~ (i > Len(s)) /\ j > 1 /\ Before(s[j], s[j - 1])
    <3>1. /\ held' = [held EXCEPT ![g] = <<s[j - 1], s[j]>>]
          /\ pc' = [pc EXCEPT ![g] = "store"] /\ loop' = loop
      BY <1>7, <2>4 DEF Sort
    <3>2. Len(s) \in Nat
      BY <2>2 DEF RegistryOK
    <3>3. j \in 1 .. Len(s) /\ j - 1 \in 1 .. Len(s)
      BY <2>2, <2>4, <3>2, LoopFacts DEF SortingOK
    <3>4. s[j] \in Profiles /\ s[j - 1] \in Profiles
      BY <2>2, <3>3, At
    <3>. HIDE DEF s, j
    <3>5. <<s[j - 1], s[j]>> \in Seq(Profiles)
      BY <3>4
    <3>. QED
      BY <2>1, <3>1, <3>5
  <2>5. CASE ~ (i > Len(s)) /\ ~ (j > 1 /\ Before(s[j], s[j - 1]))
    <3>1. /\ loop' = [loop EXCEPT ![g].i = i + 1, ![g].j = i + 1]
          /\ UNCHANGED <<pc, held>>
      BY <1>7, <2>5 DEF Sort
    <3>2. i + 1 \in Nat
      BY <2>2 DEF Loops
    <3>3. loop' \in [Goroutines -> Loops]
      BY <3>1, <3>2, SetIndices
    <3>. QED
      BY <2>1, <3>1, <3>3
  <2>. QED
    BY <2>3, <2>4, <2>5
<1>8. ASSUME NEW g \in Goroutines, StoreUpper(g) PROVE GoroutinesOK'
  <2>1. Tail(held[g]) \in Seq(Profiles)
    <3>1. held[g] \in Seq(Profiles) /\ Len(held[g]) = 2
      BY <1>8 DEF StoreUpper
    <3>. QED
      BY <3>1, TailOfTwo
  <2>. QED
    BY <1>8, <2>1 DEF StoreUpper
<1>9. ASSUME NEW g \in Goroutines, StoreLower(g) PROVE GoroutinesOK'
  <2>1. StoringOK(g)
    BY <1>9 DEF StoreLower, IndicesOK, IndexOK
  <2>2. loop[g].j - 1 \in Nat /\ loop[g].i \in Nat
    BY <2>1 DEF StoringOK, Loops
  <2>3. loop' = [loop EXCEPT ![g].j = loop[g].j - 1]
    BY <1>9 DEF StoreLower
  <2>4. loop' \in [Goroutines -> Loops]
    BY <2>2, <2>3, SetIndices
  <2>5. <<>> \in Seq(Profiles)
    OBVIOUS
  <2>. QED
    BY <1>9, <2>4, <2>5 DEF StoreLower
<1>10. ASSUME NEW g \in Goroutines, Scan(g) PROVE GoroutinesOK'
  <2>. DEFINE s == slice[Detector(g)]
              i == loop[g].i
  <2>1. UNCHANGED <<query, held, overlapped>>
    BY <1>10 DEF Scan
  <2>2. CASE i > Len(s)
    BY <1>3, <1>10, <2>1, <2>2 DEF Scan
  <2>3. CASE ~ (i > Len(s)) /\ Matches(Detector(g), query[g], s[i])
    <3>1. Return(g, s[i])
      BY <1>10, <2>3 DEF Scan
    <3>2. Detector(g) \in Slices /\ i # 0 /\ pc[g] = "scan"
      BY <1>10 DEF Scan, IndicesOK, IndexOK
    <3>3. Len(s) \in Nat
      BY <3>2 DEF RegistryOK
    <3>4. i \in 1 .. Len(s)
      BY <2>3, <3>2, <3>3, LoopFacts
    <3>5. s[i] \in Profiles
      BY <3>2, <3>4, At
    <3>. QED
      BY <1>2, <2>1, <3>1, <3>5
  <2>4. CASE ~ (i > Len(s)) /\ ~ Matches(Detector(g), query[g], s[i])
    <3>1. loop' = [loop EXCEPT ![g].i = i + 1] /\ UNCHANGED <<pc, result>>
      BY <1>10, <2>4 DEF Scan
    <3>2. i + 1 \in Nat /\ loop[g].j \in Nat
      BY DEF Loops
    <3>3. loop' \in [Goroutines -> Loops]
      BY <3>1, <3>2, SetIndices
    <3>. QED
      BY <2>1, <3>1, <3>3
  <2>. QED
    BY <2>2, <2>3, <2>4
<1>11. ASSUME NEW g \in Goroutines, End(g) PROVE GoroutinesOK'
  <2>1. loop' \in [Goroutines -> Loops]
    BY <1>11 DEF End, Idle, Loops
  <2>. QED
    BY <1>11, <2>1 DEF End
<1>12. CASE UNCHANGED <<query, pc, loop, held, result, overlapped>>
  BY <1>12
<1>. QED
  BY <1>1, <1>4, <1>5, <1>6, <1>7, <1>8, <1>9, <1>10, <1>11, <1>12
  DEF Next, RegisterDetector, RegisterProfile, SetDefaultProfile, vars
-----------------------------------------------------------------------------
(* The path detector's patterns.                                           *)

\* A set of natural numbers has a least element: what stands in the proofs
\* below for induction.
LEMMA LeastOf ==
    ASSUME NEW T \in SUBSET Nat, T # {}
    PROVE  \E n \in T : \A m \in T : n <= m
<1>1. PICK n \in T : \A m \in T : <<m, n>> \notin OpToRel(<, Nat)
  BY NatLessThanWellFounded, WFMin
<1>2. \A m \in T : ~ (m < n)
  BY <1>1 DEF OpToRel
<1>. QED
  BY <1>2

\* What the recursive function of MatchesPattern is, for the first length
\* characters of the pattern.
IsEnds(ends, path, pattern, length) ==
    ends = [n \in 0 .. length |->
              IF n = 0 THEN {0} ELSE Extend(path, ends[n - 1], pattern[n])]

\* There is such a function.
LEMMA EndsExist ==
    ASSUME NEW path, NEW pattern, NEW length \in Nat
    PROVE  \E ends : IsEnds(ends, path, pattern, length)
<1>. DEFINE T == {n \in Nat : ~ \E ends : IsEnds(ends, path, pattern, n)}
<1>. SUFFICES ASSUME T # {} PROVE FALSE
  OBVIOUS
<1>1. PICK n \in T : \A m \in T : n <= m
  BY LeastOf
<1>2. n # 0
  <2>1. IsEnds([k \in 0 .. 0 |-> {0}], path, pattern, 0)
    BY DEF IsEnds
  <2>. QED
    BY <1>1, <2>1
<1>3. n - 1 \in Nat /\ ~ (n <= n - 1)
  BY <1>2
<1>4. PICK f : IsEnds(f, path, pattern, n - 1)
  BY <1>1, <1>3
<1>. DEFINE g == [k \in 0 .. n |->
                    IF k = n THEN Extend(path, f[n - 1], pattern[n]) ELSE f[k]]
<1>5. \A k \in 0 .. n :
        g[k] = IF k = 0 THEN {0} ELSE Extend(path, g[k - 1], pattern[k])
  <2>1. ASSUME NEW k \in 0 .. n - 1
        PROVE  g[k] = IF k = 0 THEN {0} ELSE Extend(path, g[k - 1], pattern[k])
    <3>1. g[k] = f[k] /\ (k # 0 => g[k - 1] = f[k - 1])
      BY <1>3
    <3>2. f[k] = IF k = 0 THEN {0} ELSE Extend(path, f[k - 1], pattern[k])
      BY <1>3, <1>4 DEF IsEnds
    <3>. QED
      BY <3>1, <3>2
  <2>2. g[n] = Extend(path, g[n - 1], pattern[n])
    BY <1>2, <1>3
  <2>3. \A k \in 0 .. n : k \in 0 .. n - 1 \/ k = n
    OBVIOUS
  <2>. QED
    BY <1>2, <2>1, <2>2, <2>3
<1>. HIDE DEF g
<1>6. g = [k \in 0 .. n |-> g[k]]
  BY DEF g
<1>7. IsEnds(g, path, pattern, n)
  BY <1>5, <1>6 DEF IsEnds
<1>. QED
  BY <1>1, <1>7

\* A path matches itself as a pattern, "*" or no "*" in it: the exact matches
\* are matches.
LEMMA ExactMatches ==
    ASSUME NEW path, path \in Seq(Range(path))
    PROVE  MatchesPattern(path, path)
<1>. DEFINE ends == CHOOSE ends : IsEnds(ends, path, path, Len(path))
<1>. Len(path) \in Nat
  OBVIOUS
<1>1. IsEnds(ends, path, path, Len(path))
  <2>1. \E f : IsEnds(f, path, path, Len(path))
    BY EndsExist
  <2>. QED
    BY <2>1
<1>2. MatchesPattern(path, path) <=> Len(path) \in ends[Len(path)]
  BY DEF MatchesPattern, IsEnds
<1>. HIDE DEF ends
<1>. DEFINE T == {n \in 0 .. Len(path) : n \notin ends[n]}
<1>3. ASSUME T # {} PROVE FALSE
  <2>. T \in SUBSET Nat
    OBVIOUS
  <2>1. PICK n \in T : \A m \in T : n <= m
    BY <1>3, LeastOf
  <2>2. n # 0
    BY <1>1, <2>1 DEF IsEnds
  <2>3. n - 1 \in 0 .. Len(path) /\ ~ (n <= n - 1)
    BY <2>2
  <2>4. n - 1 \in ends[n - 1]
    BY <2>1, <2>3
  <2>5. ends[n] = Extend(path, ends[n - 1], path[n])
    BY <1>1, <2>2 DEF IsEnds
  <2>6. n \in ends[n]
    BY <2>2, <2>3, <2>4, <2>5 DEF Extend
  <2>. QED
    BY <2>1, <2>6
<1>. QED
  BY <1>2, <1>3
-----------------------------------------------------------------------------
(* What a step changes.                                                    *)

\* A step of a goroutine.
Step(g) ==
    \/ \E q \in Queries : Begin(g, q)
    \/ AskNobody(g) \/ AskPath(g) \/ AskSlice(g)
    \/ Sort(g) \/ StoreUpper(g) \/ StoreLower(g)
    \/ Scan(g) \/ End(g)

Registration ==
    \/ \E d \in Detectors : RegisterDetector(d)
    \/ \E p \in Profiles : RegisterProfile(p) \/ SetDefaultProfile(p)

LEMMA StepOf ==
    ASSUME [Next]_vars
    PROVE  Registration \/ (\E g \in Goroutines : Step(g)) \/ UNCHANGED vars
BY DEF Next, Registration, Step

LEMMA RegistrationIsQuiet ==
    ASSUME Registration
    PROVE  Quiet /\ UNCHANGED <<query, pc, loop, held, result, overlapped>>
BY DEF Registration, RegisterDetector, RegisterProfile, SetDefaultProfile

\* A step of a goroutine disturbs neither the registry nor another goroutine.
LEMMA Others ==
    ASSUME Types, NEW g \in Goroutines, Step(g)
    PROVE  /\ UNCHANGED <<detectors, default, patterns>>
           /\ overlapped => overlapped'
           /\ \A h \in Goroutines : h # g =>
                /\ query'[h] = query[h] /\ pc'[h] = pc[h]
                /\ loop'[h] = loop[h] /\ held'[h] = held[h]
                /\ result'[h] = result[h] /\ Detector(h)' = Detector(h)
<1>. GoroutinesOK
  BY DEF Types
<1>1. UNCHANGED <<detectors, default, patterns>>
  BY DEF Step, Begin, AskNobody, AskPath, AskSlice, Sort, StoreUpper, StoreLower,
         Scan, End, registry
<1>2. overlapped => overlapped'
  BY DEF Step, Begin, AskNobody, AskPath, AskSlice, Sort, StoreUpper, StoreLower,
         Scan, End
<1>3. ASSUME NEW h \in Goroutines, h # g
      PROVE  /\ query'[h] = query[h] /\ pc'[h] = pc[h]
             /\ held'[h] = held[h] /\ result'[h] = result[h]
  BY <1>3
  DEF Step, Begin, AskNobody, AskPath, AskSlice, Sort, StoreUpper, StoreLower,
      Scan, End, Return, NextDetector, GoroutinesOK
<1>4. ASSUME NEW h \in Goroutines, h # g
      PROVE  loop'[h] = loop[h]
  BY <1>4
  DEF Step, Begin, AskNobody, AskPath, AskSlice, Sort, StoreUpper, StoreLower,
      Scan, End, Return, NextDetector, GoroutinesOK
<1>. QED
  BY <1>1, <1>2, <1>3, <1>4 DEF Detector

\* It writes to a slice only to store, and the slices keep their lengths.
LEMMA Writes ==
    ASSUME Types, NEW g \in Goroutines, Step(g)
    PROVE  /\ pc[g] # "store" => slice' = slice
           /\ pc[g] \notin {"sort", "store"} => held' = held
           /\ \A d \in Slices : Len(slice'[d]) = Len(slice[d])
<1>. RegistryOK /\ IndicesOK
  BY DEF Types
<1>1. pc[g] # "store" => slice' = slice
  BY DEF Step, Begin, AskNobody, AskPath, AskSlice, Sort, StoreUpper, StoreLower,
         Scan, End
<1>2. pc[g] \notin {"sort", "store"} => held' = held
  BY DEF Step, Begin, AskNobody, AskPath, AskSlice, Sort, StoreUpper, StoreLower,
         Scan, End
<1>3. ASSUME NEW d \in Slices PROVE Len(slice'[d]) = Len(slice[d])
  <2>1. CASE pc[g] # "store"
    BY <1>1, <2>1
  <2>2. CASE pc[g] = "store"
    <3>. DEFINE e == Detector(g)
    <3>1. e \in Slices /\ loop[g].j \in Nat /\ StoringOK(g)
      BY <2>2 DEF IndicesOK, IndexOK, StoringOK
    <3>2. \/ slice' = [slice EXCEPT ![e][loop[g].j] = held[g][1]]
          \/ slice' = [slice EXCEPT ![e][loop[g].j - 1] = held[g][1]]
      BY <2>2 DEF Step, Begin, AskNobody, AskPath, AskSlice, Sort, StoreUpper,
                  StoreLower, Scan, End
    <3>. HIDE DEF e
    <3>3. PICK n, p : slice' = [slice EXCEPT ![e][n] = p]
      BY <3>2
    <3>4. slice'[d] = IF d = e THEN [slice[d] EXCEPT ![n] = p] ELSE slice[d]
      BY <3>3 DEF RegistryOK
    <3>5. slice[d] \in Seq(ProfilesOf(d))
      BY DEF RegistryOK
    <3>. QED
      BY <3>4, <3>5
  <2>. QED
    BY <2>1, <2>2
<1>. QED
  BY <1>1, <1>2, <1>3

LEMMA IndicesStep == ASSUME Types, [Next]_vars PROVE IndicesOK'
<1>. /\ RegistryOK /\ GoroutinesOK /\ IndicesOK
  BY DEF Types
<1>. loop \in [Goroutines -> Loops]
  BY DEF GoroutinesOK
<1>1. CASE Registration
  <2>1. Quiet /\ UNCHANGED <<query, pc, loop, held, result, overlapped>>
    BY <1>1, RegistrationIsQuiet
  <2>. QED
    BY <2>1 DEF Quiet, IndicesOK, IndexOK
<1>2. ASSUME NEW g \in Goroutines, Step(g) PROVE IndicesOK'
  <2>. USE DEF IndexOK
  <2>1. /\ UNCHANGED detectors
        /\ \A d \in Slices : Len(slice'[d]) = Len(slice[d])
    BY <1>2, Others, Writes
  <2>2. ASSUME NEW h \in Goroutines, h # g PROVE IndexOK(h)'
    <3>1. /\ pc'[h] = pc[h] /\ loop'[h] = loop[h] /\ held'[h] = held[h]
          /\ Detector(h)' = Detector(h)
      BY <1>2, <2>2, Others
    <3>2. IndexOK(h)
      BY DEF IndicesOK, IndexOK
    <3>3. /\ SortingOK(h) /\ Detector(h) \in Slices => SortingOK(h)'
          /\ StoringOK(h) /\ Detector(h) \in Slices => StoringOK(h)'
      BY <2>1, <3>1 DEF SortingOK, StoringOK
    <3>. QED
      BY <2>1, <3>1, <3>2, <3>3
  <2>3. ASSUME pc'[g] \in {"ask", "done"}, held'[g] = <<>> PROVE IndexOK(g)'
    BY <2>3
  <2>4. ASSUME pc[g] \in {"idle", "ask", "done"} PROVE IndexOK(g)'
    <3>1. held'[g] = <<>>
      BY <1>2, <2>4, Writes DEF IndicesOK, IndexOK
    <3>2. CASE pc[g] = "idle"
      BY <1>2, <2>3, <3>1, <3>2
      DEF Step, Begin, AskNobody, AskPath, AskSlice, Sort, StoreUpper,
          StoreLower, Scan, End, GoroutinesOK
    <3>3. CASE pc[g] = "ask" /\ ~ AskSlice(g)
      BY <1>2, <2>3, <3>1, <3>3
      DEF Step, Begin, AskNobody, AskPath, Sort, StoreUpper,
          StoreLower, Scan, End, GoroutinesOK, Return, NextDetector
    <3>4. CASE AskSlice(g)
      <4>1. CASE NextDetector(g)
        BY <2>3, <3>1, <4>1 DEF NextDetector, GoroutinesOK
      <4>2. CASE ~ NextDetector(g)
        <5>1. /\ loop[g].detector \in DOMAIN detectors /\ Detector(g) \in Slices
              /\ loop' = [loop EXCEPT ![g].i = 2, ![g].j = 2]
              /\ pc'[g] = "sort"
          BY <3>4, <4>2 DEF AskSlice, GoroutinesOK
        <5>2. loop'[g].detector = loop[g].detector /\ loop'[g].i = 2 /\ loop'[g].j = 2
          <6>. DEFINE a == 2
                      b == 2
          <6>1. a \in Nat /\ b \in Nat /\ loop' = [loop EXCEPT ![g].i = a, ![g].j = b]
            BY <5>1
          <6>. HIDE DEF a, b
          <6>2. loop'[g].detector = loop[g].detector /\ loop'[g].i = a /\ loop'[g].j = b
            BY <6>1, SetBoth
          <6>. QED
            BY <6>2 DEF a, b
        <5>3. Detector(g)' = Detector(g)
          BY <2>1, <5>2 DEF Detector
        <5>4. SortingOK(g)'
          BY <5>2 DEF SortingOK
        <5>. QED
          BY <2>1, <3>1, <5>1, <5>2, <5>3, <5>4
      <4>. QED
        BY <4>1, <4>2
    <3>5. CASE pc[g] = "done"
      <4>1. pc'[g] = "idle" /\ loop'[g] = Idle
        BY <1>2, <3>5 DEF Step, Begin, AskNobody, AskPath, AskSlice, Sort, StoreUpper,
          StoreLower, Scan, End, GoroutinesOK
      <4>. QED
        BY <3>1, <4>1 DEF Idle
    <3>. QED
      BY <2>4, <3>2, <3>3, <3>4, <3>5
  <2>5. ASSUME pc[g] = "sort" PROVE IndexOK(g)'
    <3>. DEFINE s == slice[Detector(g)]
                i == loop[g].i
                j == loop[g].j
    <3>1. Sort(g)
      BY <1>2, <2>5 DEF Step, Begin, AskNobody, AskPath, AskSlice, Sort, StoreUpper,
          StoreLower, Scan, End
    <3>2. /\ held[g] = <<>> /\ SortingOK(g) /\ Detector(g) \in Slices
          /\ loop[g].detector \in DOMAIN detectors
      BY <2>5 DEF IndicesOK, IndexOK
    <3>3. Len(s) \in Nat /\ i \in Nat /\ j \in Nat /\ i >= 2 /\ j \in 1 .. i
      BY <3>2, LoopFacts DEF RegistryOK, GoroutinesOK, SortingOK
    <3>4. UNCHANGED slice
      BY <3>1 DEF Sort
    <3>5. CASE i > Len(s)
      <4>1. /\ loop' = [loop EXCEPT ![g].i = 1, ![g].j = 0]
            /\ pc'[g] = "scan" /\ held' = held
        BY <3>1, <3>5 DEF Sort, GoroutinesOK
      <4>2. loop'[g].detector = loop[g].detector /\ loop'[g].i = 1
        BY <4>1, SetIndices
      <4>3. Detector(g)' = Detector(g)
        BY <2>1, <4>2 DEF Detector
      <4>. QED
        BY <2>1, <3>2, <4>1, <4>2, <4>3
    <3>6. CASE ~ (i > Len(s)) /\ j > 1 /\ Before(s[j], s[j - 1])
      <4>1. /\ held'[g] = <<s[j - 1], s[j]>>
            /\ pc'[g] = "store" /\ loop' = loop
        BY <3>1, <3>6 DEF Sort, GoroutinesOK
      <4>2. Detector(g)' = Detector(g)
        BY <2>1, <4>1 DEF Detector
      <4>3. j \in 1 .. Len(s) /\ j - 1 \in 1 .. Len(s)
        BY <3>3, <3>6
      <4>4. s[j] \in ProfilesOf(Detector(g)) /\ s[j - 1] \in ProfilesOf(Detector(g))
        BY <3>2, <4>3, At
      <4>5. /\ held'[g] \in Seq(ProfilesOf(Detector(g)))
            /\ Len(held'[g]) = 2
        <5>. HIDE DEF s, j
        <5>. QED
          BY <4>1, <4>4
      <4>6. StoringOK(g)'
        BY <3>3, <3>4, <3>6, <4>1, <4>2, <4>5 DEF StoringOK
      <4>. QED
        BY <2>1, <3>2, <4>1, <4>2, <4>6
    <3>7. CASE ~ (i > Len(s)) /\ ~ (j > 1 /\ Before(s[j], s[j - 1]))
      <4>1. /\ loop' = [loop EXCEPT ![g].i = i + 1, ![g].j = i + 1]
            /\ pc'[g] = "sort" /\ held' = held
        BY <2>5, <3>1, <3>7 DEF Sort, GoroutinesOK
      <4>2. /\ loop'[g].detector = loop[g].detector
            /\ loop'[g].i = i + 1 /\ loop'[g].j = i + 1
        <5>. DEFINE a == i + 1
                    b == i + 1
        <5>1. a \in Nat /\ b \in Nat /\ loop' = [loop EXCEPT ![g].i = a, ![g].j = b]
          BY <3>3, <4>1
        <5>. HIDE DEF a, b
        <5>2. loop'[g].detector = loop[g].detector /\ loop'[g].i = a /\ loop'[g].j = b
          BY <5>1, SetBoth
        <5>. QED
          BY <5>2 DEF a, b
      <4>3. Detector(g)' = Detector(g)
        BY <2>1, <4>2 DEF Detector
      <4>4. SortingOK(g)'
        BY <3>3, <4>2 DEF SortingOK
      <4>. QED
        BY <2>1, <3>2, <4>1, <4>2, <4>3, <4>4
    <3>. QED
      BY <3>5, <3>6, <3>7
  <2>6. ASSUME pc[g] = "store" PROVE IndexOK(g)'
    <3>1. /\ loop[g].detector \in DOMAIN detectors /\ Detector(g) \in Slices
          /\ StoringOK(g)
      BY <2>6 DEF IndicesOK, IndexOK
    <3>2. CASE StoreUpper(g)
      <4>1. /\ held'[g] = Tail(held[g]) /\ UNCHANGED <<pc, loop>>
        BY <3>2 DEF StoreUpper, GoroutinesOK
      <4>2. Detector(g)' = Detector(g)
        BY <2>1, <4>1 DEF Detector
      <4>3. /\ held'[g] \in Seq(ProfilesOf(Detector(g))) /\ Len(held'[g]) = 1
        BY <3>1, <3>2, <4>1, TailOfTwo DEF StoringOK, StoreUpper
      <4>4. StoringOK(g)'
        BY <2>1, <3>1, <4>1, <4>2, <4>3 DEF StoringOK
      <4>. QED
        BY <2>1, <2>6, <3>1, <4>1, <4>2, <4>4
    <3>3. CASE StoreLower(g)
      <4>1. /\ held'[g] = <<>> /\ pc'[g] = "sort"
            /\ loop' = [loop EXCEPT ![g].j = loop[g].j - 1]
        BY <3>3 DEF StoreLower, GoroutinesOK
      <4>2. /\ loop[g].i \in Nat /\ loop[g].j - 1 \in Nat
            /\ loop[g].i \in 2 .. Len(slice[Detector(g)])
            /\ loop[g].j - 1 \in 1 .. loop[g].i
            /\ Len(slice[Detector(g)]) \in Nat
        BY <3>1 DEF StoringOK, GoroutinesOK, RegistryOK
      <4>3. /\ loop'[g].detector = loop[g].detector
            /\ loop'[g].i = loop[g].i /\ loop'[g].j = loop[g].j - 1
        <5>. DEFINE b == loop[g].j - 1
        <5>1. b \in Nat /\ loop' = [loop EXCEPT ![g].j = b]
          BY <4>1, <4>2
        <5>. HIDE DEF b
        <5>2. loop \in [Goroutines -> Loops]
          BY DEF GoroutinesOK
        <5>3. /\ loop'[g].detector = loop[g].detector
              /\ loop'[g].i = loop[g].i /\ loop'[g].j = b
          BY <5>1, <5>2, SetInner
        <5>. QED
          BY <5>3 DEF b
      <4>4. Detector(g)' = Detector(g)
        BY <2>1, <4>3 DEF Detector
      <4>5. Len(slice'[Detector(g)]) = Len(slice[Detector(g)])
        BY <2>1, <3>1
      <4>6. SortingOK(g)'
        BY <4>2, <4>3, <4>4, <4>5 DEF SortingOK
      <4>. QED
        BY <2>1, <3>1, <4>1, <4>3, <4>4, <4>6
    <3>. QED
      BY <1>2, <2>6, <3>2, <3>3
      DEF Step, Begin, AskNobody, AskPath, AskSlice, Sort, Scan, End
  <2>7. ASSUME pc[g] = "scan" PROVE IndexOK(g)'
    <3>1. /\ loop[g].detector \in DOMAIN detectors /\ Detector(g) \in Slices
          /\ loop[g].i # 0 /\ held'[g] = <<>>
      BY <1>2, <2>7, Writes DEF IndicesOK, IndexOK
    <3>2. Scan(g)
      BY <1>2, <2>7 DEF Step, Begin, AskNobody, AskPath, AskSlice, Sort, StoreUpper,
          StoreLower, Scan, End
    <3>3. CASE pc'[g] \in {"ask", "done"}
      BY <2>3, <3>1, <3>3
    <3>4. CASE ~ (pc'[g] \in {"ask", "done"})
      <4>1. loop' = [loop EXCEPT ![g].i = loop[g].i + 1] /\ pc' = pc
        BY <3>2, <3>4 DEF Scan, Return, NextDetector, GoroutinesOK
      <4>2. loop[g].i + 1 \in Nat /\ loop[g].i + 1 # 0
        BY <3>1, LoopFacts DEF GoroutinesOK
      <4>3. loop'[g].detector = loop[g].detector /\ loop'[g].i = loop[g].i + 1
        BY <4>1, <4>2, SetIndices, LoopFacts
      <4>4. Detector(g)' = Detector(g)
        BY <2>1, <4>3 DEF Detector
      <4>. QED
        BY <2>1, <2>7, <3>1, <4>1, <4>2, <4>3, <4>4
    <3>. QED
      BY <3>3, <3>4
  <2>8. pc[g] \in Labels
    BY DEF GoroutinesOK
  <2>. HIDE DEF IndexOK
  <2>9. IndexOK(g)'
    BY <2>4, <2>5, <2>6, <2>7, <2>8 DEF Labels
  <2>10. \A h \in Goroutines : IndexOK(h)'
    BY <2>2, <2>9
  <2>. QED
    BY <2>10 DEF IndicesOK
<1>3. CASE UNCHANGED vars
  BY <1>3 DEF vars, registry, IndicesOK, IndexOK, SortingOK, StoringOK, Detector
<1>. QED
  BY <1>1, <1>2, <1>3, StepOf

LEMMA TypesStep == ASSUME Types, [Next]_vars PROVE Types'
BY RegistryStep, GoroutinesStep, IndicesStep DEF Types

-----------------------------------------------------------------------------
(* Answers.                                                                *)

LEMMA PathsAreStrings ==
    ASSUME GoroutinesOK, NEW g \in Goroutines
    PROVE  query[g].path \in Seq(Range(query[g].path))
<1>1. CASE query[g] \in Queries
  BY <1>1, DetectionAssumption
<1>2. CASE query[g] = NoQuery
  <2>1. query[g].path = <<>>
    BY <1>2 DEF NoQuery
  <2>2. <<>> \in Seq(Range(query[g].path))
    OBVIOUS
  <2>. QED
    BY <2>1, <2>2
<1>. QED
  BY <1>1, <1>2 DEF GoroutinesOK

\* What each detector returns.
LEMMA PathReturns ==
    ASSUME Types, NEW g \in Goroutines, AskPath(g), ~ NextDetector(g)
    PROVE  /\ detectors[loop[g].detector] = "path"
           /\ loop[g].detector \in DOMAIN detectors
           /\ \E t \in DOMAIN patterns :
                /\ Return(g, patterns[t])
                /\ Matches("path", query[g], patterns[t])
                /\ query[g].path \in DOMAIN patterns => t = query[g].path
           /\ query' = query /\ pc[g] = "ask"
<1>. DEFINE path == query[g].path
<1>1. PICK t : /\ t \in IF path \in DOMAIN patterns THEN {path}
                        ELSE {u \in DOMAIN patterns : MatchesPattern(path, u)}
               /\ Return(g, patterns[t])
  BY DEF AskPath
<1>2. t \in DOMAIN patterns /\ MatchesPattern(path, t)
  BY <1>1, PathsAreStrings, ExactMatches DEF Types
<1>3. Matches("path", query[g], patterns[t])
  BY <1>2 DEF Types, RegistryOK, Matches
<1>. QED
  BY <1>1, <1>2, <1>3 DEF AskPath, Detector

LEMMA ScanReturns ==
    ASSUME Types, NEW g \in Goroutines, Scan(g), pc'[g] = "done"
    PROVE  LET s == slice[Detector(g)]
               i == loop[g].i
           IN  /\ i \in 1 .. Len(s) /\ Len(s) \in Nat
               /\ Detector(g) \in Slices /\ loop[g].detector \in DOMAIN detectors
               /\ Return(g, s[i]) /\ query' = query
               /\ s[i] \in ProfilesOf(Detector(g))
               /\ Matches(Detector(g), query[g], s[i])
<1>. DEFINE s == slice[Detector(g)]
            i == loop[g].i
<1>. RegistryOK /\ GoroutinesOK /\ IndicesOK
  BY DEF Types
<1>1. /\ Detector(g) \in Slices /\ loop[g].detector \in DOMAIN detectors
      /\ i # 0 /\ pc[g] = "scan"
  BY DEF Scan, IndicesOK, IndexOK
<1>2. ~ (i > Len(s)) /\ Return(g, s[i]) /\ Matches(Detector(g), query[g], s[i])
      /\ query' = query
  BY <1>1 DEF Scan, NextDetector, GoroutinesOK
<1>3. Len(s) \in Nat /\ i \in Nat
  BY <1>1, LoopFacts DEF RegistryOK, GoroutinesOK
<1>4. i \in 1 .. Len(s)
  BY <1>1, <1>2, <1>3
<1>5. s[i] \in ProfilesOf(Detector(g))
  BY <1>1, <1>4, At
<1>. QED
  BY <1>1, <1>2, <1>3, <1>4, <1>5

LEMMA NobodyReturns ==
    ASSUME Types, NEW g \in Goroutines, AskNobody(g)
    PROVE  result'[g] = default /\ query' = query
BY DEF Types, GoroutinesOK, AskNobody, Return

\* How a goroutine comes to be done.
LEMMA Returns ==
    ASSUME Types, NEW g \in Goroutines, Step(g), pc'[g] = "done"
    PROVE  AskNobody(g) \/ (AskPath(g) /\ ~ NextDetector(g)) \/ Scan(g)
BY DEF Types, GoroutinesOK, Step, Begin, AskPath, AskSlice, Sort, StoreUpper,
       StoreLower, End, NextDetector

LEMMA AnswersMatchStep ==
    ASSUME Types, AnswersMatch, [Next]_vars PROVE AnswersMatch'
<1>. GoroutinesOK
  BY DEF Types
<1>1. CASE Registration
  BY <1>1, RegistrationIsQuiet DEF AnswersMatch, Quiet
<1>2. ASSUME NEW g \in Goroutines, Step(g) PROVE AnswersMatch'
  <2>. UNCHANGED default
    BY <1>2, Others
  <2>1. ASSUME pc'[g] = "done"
        PROVE  \/ result'[g] = default'
               \/ Matches(result'[g].method, query'[g], result'[g])
    <3>1. CASE AskNobody(g)
      BY <3>1, NobodyReturns
    <3>2. CASE AskPath(g) /\ ~ NextDetector(g)
      <4>1. PICK t \in DOMAIN patterns :
              Return(g, patterns[t]) /\ Matches("path", query[g], patterns[t])
        BY <3>2, PathReturns
      <4>2. result'[g] = patterns[t] /\ query' = query
        BY <3>2, <4>1, PathReturns DEF Return, GoroutinesOK
      <4>3. patterns[t].method = "path"
        BY DEF Types, RegistryOK, ProfilesOf
      <4>. QED
        BY <4>1, <4>2, <4>3
    <3>3. CASE Scan(g)
      <4>. DEFINE p == slice[Detector(g)][loop[g].i]
      <4>1. /\ Return(g, p) /\ query' = query /\ p \in ProfilesOf(Detector(g))
            /\ Matches(Detector(g), query[g], p)
        BY <2>1, <3>3, ScanReturns
      <4>2. result'[g] = p
        BY <4>1 DEF Return, GoroutinesOK
      <4>. QED
        BY <4>1, <4>2 DEF ProfilesOf
    <3>. QED
      BY <1>2, <2>1, <3>1, <3>2, <3>3, Returns
  <2>2. ASSUME NEW h \in Goroutines, h # g, pc'[h] = "done"
        PROVE  \/ result'[h] = default'
               \/ Matches(result'[h].method, query'[h], result'[h])
    BY <1>2, <2>2, Others DEF AnswersMatch
  <2>. QED
    BY <2>1, <2>2 DEF AnswersMatch
<1>3. CASE UNCHANGED vars
  BY <1>3 DEF vars, registry, AnswersMatch
<1>. QED
  BY <1>1, <1>2, <1>3, StepOf

-----------------------------------------------------------------------------
(* Overlapping detections.                                                 *)

\* Nothing goes before its predecessor in a slice that is in order, and
\* nothing is held: no goroutine swaps or stores.
LEMMA SortedHolds ==
    ASSUME Types, Sorted, NEW g \in Goroutines, Step(g)
    PROVE  UNCHANGED <<slice, held>>
<1>. RegistryOK /\ GoroutinesOK /\ IndicesOK
  BY DEF Types
<1>1. pc[g] # "store"
  <2>1. held[g] = <<>>
    BY DEF Sorted
  <2>2. pc[g] = "store" => Len(held[g]) \in {1, 2}
    BY DEF IndicesOK, IndexOK, StoringOK
  <2>. QED
    BY <2>1, <2>2
<1>2. slice' = slice
  BY <1>1, Writes
<1>3. CASE pc[g] # "sort"
  BY <1>1, <1>2, <1>3, Writes
<1>4. CASE pc[g] = "sort"
  <2>. DEFINE d == Detector(g)
              s == slice[d]
              i == loop[g].i
              j == loop[g].j
  <2>1. Sort(g) /\ d \in Slices /\ SortingOK(g)
    BY <1>4 DEF Step, Begin, AskNobody, AskPath, AskSlice, Sort, StoreUpper,
                StoreLower, Scan, End, IndicesOK, IndexOK
  <2>2. /\ Len(s) \in Nat /\ i \in Nat /\ j \in Nat /\ j \in 1 .. i
    BY <2>1, LoopFacts DEF RegistryOK, GoroutinesOK, SortingOK
  <2>3. ASSUME ~ (i > Len(s)), j > 1 PROVE ~ Before(s[j], s[j - 1])
    <3>1. j \in 2 .. Len(s) /\ j \in 1 .. Len(s) /\ j - 1 \in 1 .. Len(s)
      BY <2>2, <2>3
    <3>2. s[j].priority <= s[j - 1].priority
      BY <2>1, <3>1 DEF Sorted
    <3>3. s[j].priority \in Int /\ s[j - 1].priority \in Int
      BY <2>1, <3>1, At
    <3>. QED
      BY <3>2, <3>3 DEF Before
  <2>4. held' = held
    BY <2>1, <2>3 DEF Sort
  <2>. QED
    BY <1>2, <2>4
<1>. QED
  BY <1>3, <1>4

LEMMA SortedStep ==
    ASSUME Types, [Next]_vars PROVE Sorted /\ ~ Quiet => UNCHANGED <<slice, held>>
BY StepOf, RegistrationIsQuiet, SortedHolds DEF vars

LEMMA ApartStep == ASSUME Types, Apart, [Next]_vars PROVE Apart'
<1>. GoroutinesOK
  BY DEF Types
<1>1. CASE Registration
  BY <1>1, RegistrationIsQuiet DEF Apart, Quiet
<1>2. ASSUME NEW g \in Goroutines, Step(g) PROVE Apart'
  <2>1. CASE overlapped'
    BY <2>1 DEF Apart
  <2>2. CASE Sorted
    <3>1. UNCHANGED <<slice, held>>
      BY <1>2, <2>2, SortedHolds
    <3>. QED
      BY <2>2, <3>1 DEF Sorted, Apart
  <2>3. CASE ~ overlapped' /\ ~ Sorted
    <3>1. ~ overlapped
      BY <1>2, <2>3, Others
    <3>2. ASSUME NEW h \in Goroutines, h # g PROVE pc'[h] = "idle"
      <4>1. pc'[h] = pc[h]
        BY <1>2, <3>2, Others
      <4>2. CASE pc[g] # "idle"
        BY <2>3, <3>1, <3>2, <4>1, <4>2 DEF Apart
      <4>3. CASE pc[g] = "idle"
        <5>1. Quiet
          BY <1>2, <2>3, <4>3
          DEF Step, Begin, AskNobody, AskPath, AskSlice, Sort, StoreUpper,
              StoreLower, Scan, End
        <5>. QED
          BY <4>1, <5>1 DEF Quiet
      <4>. QED
        BY <4>2, <4>3
    <3>. QED
      BY <3>2 DEF Apart
  <2>. QED
    BY <2>1, <2>2, <2>3
<1>3. CASE UNCHANGED vars
  BY <1>3 DEF vars, registry, Apart, Sorted
<1>. QED
  BY <1>1, <1>2, <1>3, StepOf

-----------------------------------------------------------------------------
(* Swaps.                                                                  *)

LEMMA SwapFacts ==
    ASSUME NEW S, NEW s \in Seq(S), NEW j \in 2 .. Len(s),
           NEW t, t = [s EXCEPT ![j] = s[j - 1], ![j - 1] = s[j]]
    PROVE  /\ t \in Seq(S) /\ Len(t) = Len(s)
           /\ \A n \in 1 .. Len(s) :
                t[n] = IF n = j THEN s[j - 1] ELSE IF n = j - 1 THEN s[j] ELSE s[n]
           /\ Range(t) = Range(s)
<1>. Len(s) \in Nat /\ j \in 1 .. Len(s) /\ j - 1 \in 1 .. Len(s) /\ j - 1 # j
  OBVIOUS
<1>1. t \in Seq(S) /\ Len(t) = Len(s)
  OBVIOUS
<1>2. \A n \in 1 .. Len(s) :
        t[n] = IF n = j THEN s[j - 1] ELSE IF n = j - 1 THEN s[j] ELSE s[n]
  OBVIOUS
<1>3. DOMAIN s = 1 .. Len(s) /\ DOMAIN t = 1 .. Len(s)
  BY <1>1
<1>4. Range(t) = Range(s)
  <2>1. \A n \in 1 .. Len(s) : t[n] \in Range(s)
    BY <1>2, <1>3 DEF Range
  <2>2. \A n \in 1 .. Len(s) : s[n] \in Range(t)
    <3>. TAKE n \in 1 .. Len(s)
    <3>1. CASE n = j
      BY <1>2, <1>3, <3>1 DEF Range
    <3>2. CASE n = j - 1
      BY <1>2, <1>3, <3>2 DEF Range
    <3>3. CASE n # j /\ n # j - 1
      BY <1>2, <1>3, <3>3 DEF Range
    <3>. QED
      BY <3>1, <3>2, <3>3
  <2>. QED
    BY <1>3, <2>1, <2>2 DEF Range
<1>. QED
  BY <1>1, <1>2, <1>4

LEMMA CompletedElsewhere ==
    ASSUME NEW g, pc[g] # "store" PROVE Completed(g) = slice
BY DEF Completed

\* The first store of a swap leaves the swap as it was, the second ends it.
LEMMA CompletedUpper ==
    ASSUME Types, NEW g \in Goroutines, StoreUpper(g)
    PROVE  Completed(g)' = Completed(g)
<1>. DEFINE d == Detector(g)
            j == loop[g].j
            h == held[g]
<1>. RegistryOK /\ GoroutinesOK /\ IndicesOK
  BY DEF Types
<1>1. /\ pc[g] = "store" /\ pc' = pc /\ loop' = loop /\ Len(h) = 2
      /\ slice' = [slice EXCEPT ![d][j] = h[1]] /\ held'[g] = Tail(h)
      /\ detectors' = detectors
  BY DEF StoreUpper, registry, GoroutinesOK
<1>2. Detector(g)' = d /\ loop'[g].j = j
  BY <1>1 DEF Detector
<1>3. d \in Slices /\ j \in Nat /\ h \in Seq(ProfilesOf(d))
  BY <1>1, LoopFacts DEF IndicesOK, IndexOK, StoringOK, GoroutinesOK
<1>4. Len(held'[g]) = 1 /\ held'[g][1] = h[2]
  BY <1>1, <1>3, TailOfTwo
<1>5. Completed(g) = [slice EXCEPT ![d] = [slice[d] EXCEPT ![j] = h[1],
                                                           ![j - 1] = h[2]]]
  BY <1>1 DEF Completed, Swapped
<1>6. Completed(g)' = [slice' EXCEPT ![d] = [slice'[d] EXCEPT ![j - 1] = h[2]]]
  <2>1. Completed(g)' = [slice' EXCEPT ![d] = Swapped(slice'[d], j, held'[g])]
    BY <1>1, <1>2 DEF Completed
  <2>2. Swapped(slice'[d], j, held'[g]) = [slice'[d] EXCEPT ![j - 1] = h[2]]
    BY <1>4 DEF Swapped
  <2>. HIDE DEF d, j, h
  <2>. QED
    BY <2>1, <2>2
<1>7. slice'[d] = [slice[d] EXCEPT ![j] = h[1]]
  BY <1>1, <1>3 DEF RegistryOK
<1>8. slice' = [slice EXCEPT ![d] = slice'[d]]
  BY <1>1, <1>7
<1>. HIDE DEF d, j, h
<1>. QED
  BY <1>3, <1>5, <1>6, <1>7, <1>8

LEMMA CompletedLower ==
    ASSUME Types, NEW g \in Goroutines, StoreLower(g)
    PROVE  slice' = Completed(g) /\ Completed(g)' = slice' /\ pc'[g] = "sort"
<1>1. /\ pc[g] = "store" /\ Len(held[g]) = 1 /\ pc'[g] = "sort"
      /\ slice' = [slice EXCEPT ![Detector(g)][loop[g].j - 1] = held[g][1]]
  BY DEF StoreLower, Types, GoroutinesOK
<1>2. slice' = Completed(g)
  BY <1>1 DEF Completed, Swapped
<1>3. Completed(g)' = slice'
  BY <1>1 DEF Completed
<1>. QED
  BY <1>1, <1>2, <1>3

\* The slice with the swap that Sort sets out to.
LEMMA CompletedSort ==
    ASSUME Types, NEW g \in Goroutines, Sort(g), pc'[g] = "store"
    PROVE  LET d == Detector(g)
               s == slice[d]
               j == loop[g].j
               t == [s EXCEPT ![j] = s[j - 1], ![j - 1] = s[j]]
           IN  /\ d \in Slices /\ s \in Seq(ProfilesOf(d))
               /\ j \in 2 .. Len(s) /\ Before(s[j], s[j - 1])
               /\ Detector(g)' = d /\ loop' = loop
               /\ Completed(g)' = [slice EXCEPT ![d] = t]
               /\ \A e \in Slices :
                    Completed(g)'[e] = IF e = d THEN t ELSE slice[e]
<1>. DEFINE d == Detector(g)
            s == slice[d]
            j == loop[g].j
            t == [s EXCEPT ![j] = s[j - 1], ![j - 1] = s[j]]
<1>. RegistryOK /\ GoroutinesOK /\ IndicesOK
  BY DEF Types
<1>1. /\ pc[g] = "sort" /\ detectors' = detectors /\ slice' = slice
      /\ ~ (loop[g].i > Len(s)) /\ j > 1 /\ Before(s[j], s[j - 1])
      /\ held'[g] = <<s[j - 1], s[j]>> /\ loop' = loop
  BY DEF Sort, GoroutinesOK, registry
<1>2. d \in Slices /\ SortingOK(g)
  BY <1>1 DEF IndicesOK, IndexOK
<1>3. s \in Seq(ProfilesOf(d)) /\ Len(s) \in Nat
  BY <1>2 DEF RegistryOK
<1>4. j \in 2 .. Len(s)
  BY <1>1, <1>2, <1>3, LoopFacts DEF SortingOK, GoroutinesOK
<1>5. Detector(g)' = d /\ loop'[g].j = j
  BY <1>1 DEF Detector
<1>6. Completed(g)' = [slice EXCEPT ![d] = t]
  <2>1. Completed(g)' = [slice' EXCEPT ![d] = Swapped(slice'[d], j, held'[g])]
    BY <1>5 DEF Completed
  <2>2. Len(held'[g]) = 2 /\ held'[g][1] = s[j - 1] /\ held'[g][2] = s[j]
    BY <1>1
  <2>. QED
    BY <1>1, <2>1, <2>2 DEF Swapped
<1>7. \A e \in Slices : Completed(g)'[e] = IF e = d THEN t ELSE slice[e]
  BY <1>6 DEF RegistryOK
<1>. QED
  BY <1>1, <1>2, <1>3, <1>4, <1>5, <1>6, <1>7

-----------------------------------------------------------------------------
(* Detections that are apart.                                              *)

\* A goroutine that is in a swap is the only one at work.
LEMMA StoresAlone ==
    ASSUME Types, Apart, ~ overlapped, NEW g \in Goroutines,
           NEW h \in Goroutines, pc[h] = "store", pc[g] # "idle"
    PROVE  g = h
<1>1. held[h] # <<>>
  BY DEF Types, IndicesOK, IndexOK, StoringOK
<1>. QED
  BY <1>1 DEF Apart, Sorted

\* While another detection is under way nothing is written, the swap of that
\* one included.
LEMMA Beside ==
    ASSUME Types, Apart, NEW g \in Goroutines, Step(g), ~ overlapped',
           NEW h \in Goroutines, h # g, pc[h] # "idle"
    PROVE  ~ overlapped /\ slice' = slice /\ Completed(h)' = Completed(h)
<1>1. ~ overlapped
  BY Others
<1>2. slice' = slice
  <2>1. CASE Sorted
    BY <2>1, SortedHolds
  <2>2. CASE ~ Sorted
    <3>1. pc[g] = "idle"
      BY <1>1, <2>2 DEF Apart
    <3>. QED
      BY <3>1, Writes
  <2>. QED
    BY <2>1, <2>2
<1>3. /\ pc'[h] = pc[h] /\ loop'[h] = loop[h] /\ held'[h] = held[h]
      /\ Detector(h)' = Detector(h)
  BY Others
<1>. QED
  BY <1>1, <1>2, <1>3 DEF Completed

\* An action of a goroutine that is not in a swap and sets out to none.
LEMMA NoSwap ==
    ASSUME Types, NEW g \in Goroutines, Step(g),
           pc[g] # "store", pc'[g] # "store"
    PROVE  slice' = slice /\ Completed(g) = slice /\ Completed(g)' = slice
BY Writes DEF Completed

LEMMA StoreSteps ==
    ASSUME Types, NEW g \in Goroutines, Step(g)
    PROVE  /\ pc[g] = "store" => StoreUpper(g) \/ StoreLower(g)
           /\ pc[g] # "store" /\ pc'[g] = "store" => Sort(g)
           /\ StoreUpper(g) => pc'[g] = "store" /\ pc[g] = "store"
BY DEF Types, GoroutinesOK, Step, Begin, AskNobody, AskPath, AskSlice, Sort,
       StoreUpper, StoreLower, Scan, End, Return, NextDetector

-----------------------------------------------------------------------------
(* What sorting puts in order.                                             *)

OrderedAt(g) ==
    /\ pc[g] = "sort" =>
         OrderedTo(slice[Detector(g)], loop[g].i, loop[g].j)
    /\ pc[g] = "store" =>
         OrderedTo(Completed(g)[Detector(g)], loop[g].i, loop[g].j - 1)
    /\ pc[g] = "scan" =>
         /\ OrderedTo(slice[Detector(g)], Len(slice[Detector(g)]), 0)
         /\ \A k \in 1 .. loop[g].i - 1 : k \in DOMAIN slice[Detector(g)] =>
              ~ Matches(Detector(g), query[g], slice[Detector(g)][k])

LEMMA OrderedAll == Ordered <=> (~ overlapped => \A g \in Goroutines : OrderedAt(g))
BY DEF Ordered, OrderedAt

\* One swap takes the profile that is on its way one place further.
LEMMA SwapOrders ==
    ASSUME NEW S, NEW s \in Seq(S), \A p \in S : p.priority \in Int,
           NEW i \in 2 .. Len(s), NEW j \in 2 .. i, Before(s[j], s[j - 1]),
           OrderedTo(s, i, j),
           NEW t, t = [s EXCEPT ![j] = s[j - 1], ![j - 1] = s[j]]
    PROVE  OrderedTo(t, i, j - 1)
<1>. DEFINE P(n) == s[n].priority
<1>1. Len(s) \in Nat /\ i \in Int /\ j \in Int /\ j - 1 \in 1 .. Len(s)
      /\ j \in 2 .. Len(s)
  OBVIOUS
<1>2. \A n \in 1 .. Len(s) : s[n] \in S /\ P(n) \in Int
  OBVIOUS
<1>3. /\ Len(t) = Len(s) /\ t \in Seq(S)
      /\ \A n \in 1 .. Len(s) :
           t[n] = IF n = j THEN s[j - 1] ELSE IF n = j - 1 THEN s[j] ELSE s[n]
  BY <1>1, SwapFacts
<1>4. \A a, b \in 1 .. Len(s) : a < b /\ b <= i /\ b # j => P(b) <= P(a)
  BY DEF OrderedTo
<1>5. P(j) > P(j - 1)
  BY DEF Before
<1>. SUFFICES ASSUME NEW a \in 1 .. Len(s), NEW b \in 1 .. Len(s),
                     a < b, b <= i, b # j - 1
              PROVE  t[b].priority <= t[a].priority
  BY <1>3 DEF OrderedTo
<1>6. /\ t[a].priority = IF a = j THEN P(j - 1) ELSE IF a = j - 1 THEN P(j) ELSE P(a)
      /\ t[b].priority = IF b = j THEN P(j - 1) ELSE P(b)
  BY <1>3
<1>. HIDE DEF P
<1>7. CASE b = j
  <2>1. P(j - 1) \in Int /\ P(j) \in Int /\ P(a) \in Int
    BY <1>1, <1>2
  <2>2. a < j - 1 => P(j - 1) <= P(a)
    BY <1>1, <1>4
  <2>3. a < j
    BY <1>7
  <2>. QED
    BY <1>1, <1>5, <1>6, <1>7, <2>1, <2>2, <2>3
<1>8. CASE b # j
  <2>1. \A n \in 1 .. Len(s) : n < b => P(b) <= P(n)
    BY <1>4, <1>8
  <2>2. a \in {j, j - 1} => j < b
    BY <1>1, <1>8
  <2>. QED
    BY <1>1, <1>6, <1>8, <2>1, <2>2
<1>. QED
  BY <1>7, <1>8

\* When the profile on its way goes no further the next one is taken.
LEMMA NextOrders ==
    ASSUME NEW S, NEW s \in Seq(S), \A p \in S : p.priority \in Int,
           NEW i \in 2 .. Len(s), NEW j \in 1 .. i,
           ~ (j > 1 /\ Before(s[j], s[j - 1])), OrderedTo(s, i, j)
    PROVE  OrderedTo(s, i + 1, i + 1)
<1>. DEFINE P(n) == s[n].priority
<1>1. Len(s) \in Nat /\ i \in Int /\ j \in Int /\ j \in 1 .. Len(s)
  OBVIOUS
<1>2. \A n \in 1 .. Len(s) : P(n) \in Int
  OBVIOUS
<1>3. \A a, b \in 1 .. Len(s) : a < b /\ b <= i /\ b # j => P(b) <= P(a)
  BY DEF OrderedTo
<1>4. j > 1 => ~ (P(j) > P(j - 1))
  BY DEF Before
<1>. SUFFICES ASSUME NEW a \in 1 .. Len(s), NEW b \in 1 .. Len(s),
                     a < b, b <= i + 1, b # i + 1
              PROVE  P(b) <= P(a)
  BY DEF OrderedTo
<1>. HIDE DEF P
<1>5. CASE b # j
  BY <1>1, <1>3, <1>5
<1>6. CASE b = j
  <2>1. j > 1 /\ j - 1 \in 1 .. Len(s) /\ a <= j - 1
    BY <1>1, <1>6
  <2>2. P(j) \in Int /\ P(j - 1) \in Int /\ P(a) \in Int
    BY <1>1, <1>2, <2>1
  <2>3. P(j) <= P(j - 1)
    BY <1>4, <2>1, <2>2
  <2>4. a # j - 1 => P(j - 1) <= P(a)
    BY <1>1, <1>3, <2>1
  <2>. QED
    BY <1>6, <2>2, <2>3, <2>4
<1>. QED
  BY <1>5, <1>6

-----------------------------------------------------------------------------
(* What the actions do to the indices.                                     *)

LEMMA AskSliceStarts ==
    ASSUME Types, NEW g \in Goroutines, AskSlice(g), pc'[g] = "sort"
    PROVE  /\ loop'[g].i = 2 /\ loop'[g].j = 2
           /\ Detector(g)' = Detector(g) /\ Detector(g) \in Slices /\ slice' = slice
           /\ loop'[g].detector = loop[g].detector
<1>. loop \in [Goroutines -> Loops]
  BY DEF Types, GoroutinesOK
<1>1. /\ loop' = [loop EXCEPT ![g].i = 2, ![g].j = 2] /\ detectors' = detectors
      /\ slice' = slice /\ Detector(g) \in Slices
  BY DEF AskSlice, NextDetector, registry, Types, GoroutinesOK
<1>. DEFINE a == 2
            b == 2
<1>2. a \in Nat /\ b \in Nat /\ loop' = [loop EXCEPT ![g].i = a, ![g].j = b]
  BY <1>1
<1>. HIDE DEF a, b
<1>3. loop'[g].detector = loop[g].detector /\ loop'[g].i = a /\ loop'[g].j = b
  BY <1>2, SetBoth
<1>. QED
  BY <1>1, <1>3 DEF a, b, Detector

LEMMA SortEnds ==
    ASSUME Types, NEW g \in Goroutines, Sort(g), pc'[g] = "scan"
    PROVE  /\ loop[g].i > Len(slice[Detector(g)]) /\ loop[g].j = loop[g].i
           /\ loop'[g].i = 1 /\ slice' = slice
           /\ Detector(g)' = Detector(g) /\ Detector(g) \in Slices
           /\ loop'[g].detector = loop[g].detector
<1>. loop \in [Goroutines -> Loops]
  BY DEF Types, GoroutinesOK
<1>1. /\ loop[g].i > Len(slice[Detector(g)]) /\ pc[g] = "sort"
      /\ loop' = [loop EXCEPT ![g].i = 1, ![g].j = 0] /\ detectors' = detectors
      /\ slice' = slice
  BY DEF Sort, registry, Types, GoroutinesOK
<1>2. loop[g].j = loop[g].i /\ Detector(g) \in Slices
  BY <1>1 DEF Types, IndicesOK, IndexOK, SortingOK
<1>3. loop'[g].detector = loop[g].detector /\ loop'[g].i = 1
  BY <1>1, SetIndices
<1>. QED
  BY <1>1, <1>2, <1>3 DEF Detector

LEMMA SortNext ==
    ASSUME Types, NEW g \in Goroutines, Sort(g), pc'[g] = "sort"
    PROVE  LET d == Detector(g)
               s == slice[d]
               i == loop[g].i
               j == loop[g].j
           IN  /\ s \in Seq(ProfilesOf(d)) /\ i \in 2 .. Len(s) /\ j \in 1 .. i
               /\ ~ (j > 1 /\ Before(s[j], s[j - 1]))
               /\ loop'[g].i = i + 1 /\ loop'[g].j = i + 1 /\ slice' = slice
               /\ Detector(g)' = d /\ d \in Slices
               /\ loop'[g].detector = loop[g].detector
<1>. loop \in [Goroutines -> Loops]
  BY DEF Types, GoroutinesOK
<1>. DEFINE d == Detector(g)
            s == slice[d]
            i == loop[g].i
            j == loop[g].j
            a == i + 1
            b == i + 1
<1>1. /\ pc[g] = "sort" /\ ~ (i > Len(s)) /\ ~ (j > 1 /\ Before(s[j], s[j - 1]))
      /\ loop' = [loop EXCEPT ![g].i = i + 1, ![g].j = i + 1]
      /\ detectors' = detectors /\ slice' = slice
  BY DEF Sort, registry, Types, GoroutinesOK
<1>2. /\ d \in Slices /\ s \in Seq(ProfilesOf(d)) /\ Len(s) \in Nat
      /\ i >= 2 /\ i \in Nat /\ j \in 1 .. i
  <2>1. d \in Slices /\ SortingOK(g)
    BY <1>1 DEF Types, IndicesOK, IndexOK
  <2>2. s \in Seq(ProfilesOf(d)) /\ Len(s) \in Nat
    BY <2>1 DEF Types, RegistryOK
  <2>3. i \in Nat
    BY LoopFacts
  <2>. QED
    BY <2>1, <2>2, <2>3 DEF SortingOK
<1>3. a \in Nat /\ b \in Nat /\ loop' = [loop EXCEPT ![g].i = a, ![g].j = b]
  BY <1>1, <1>2
<1>4. i \in 2 .. Len(s)
  BY <1>1, <1>2
<1>. HIDE DEF a, b
<1>5. loop'[g].detector = loop[g].detector /\ loop'[g].i = a /\ loop'[g].j = b
  BY <1>3, SetBoth
<1>. QED
  BY <1>1, <1>2, <1>4, <1>5 DEF a, b, Detector

LEMMA LowerMoves ==
    ASSUME Types, NEW g \in Goroutines, StoreLower(g)
    PROVE  /\ loop'[g].i = loop[g].i /\ loop'[g].j = loop[g].j - 1
           /\ Detector(g)' = Detector(g)
           /\ loop'[g].detector = loop[g].detector
<1>. loop \in [Goroutines -> Loops]
  BY DEF Types, GoroutinesOK
<1>1. /\ pc[g] = "store" /\ detectors' = detectors
      /\ loop' = [loop EXCEPT ![g].j = loop[g].j - 1]
  BY DEF StoreLower, registry
<1>. DEFINE a == loop[g].i
            b == loop[g].j - 1
<1>2. /\ a \in Nat /\ b \in Nat /\ a = loop[g].i
      /\ loop' = [loop EXCEPT ![g].j = b]
  BY <1>1, LoopFacts DEF Types, IndicesOK, IndexOK, StoringOK
<1>. HIDE DEF a, b
<1>3. loop'[g].i = a /\ loop'[g].j = b /\ loop'[g].detector = loop[g].detector
  BY <1>2, SetInner
<1>. QED
  BY <1>1, <1>3 DEF a, b, Detector

LEMMA ScanNext ==
    ASSUME Types, NEW g \in Goroutines, Scan(g), pc'[g] = "scan"
    PROVE  LET s == slice[Detector(g)]
               i == loop[g].i
           IN  /\ i \in 1 .. Len(s) /\ Len(s) \in Nat
               /\ ~ Matches(Detector(g), query[g], s[i])
               /\ loop'[g].i = i + 1 /\ slice' = slice /\ query' = query
               /\ Detector(g)' = Detector(g) /\ Detector(g) \in Slices
               /\ loop'[g].detector = loop[g].detector
<1>. loop \in [Goroutines -> Loops]
  BY DEF Types, GoroutinesOK
<1>. DEFINE s == slice[Detector(g)]
            i == loop[g].i
<1>1. /\ pc[g] = "scan" /\ ~ (i > Len(s)) /\ ~ Matches(Detector(g), query[g], s[i])
      /\ loop' = [loop EXCEPT ![g].i = i + 1]
      /\ detectors' = detectors /\ slice' = slice /\ query' = query
  BY DEF Scan, Return, NextDetector, registry, Types, GoroutinesOK
<1>2. /\ Detector(g) \in Slices /\ i # 0 /\ i \in Nat /\ loop[g].j \in Nat
  BY <1>1, LoopFacts DEF Types, IndicesOK, IndexOK
<1>3. Len(s) \in Nat
  BY <1>2 DEF Types, RegistryOK
<1>4. loop'[g].detector = loop[g].detector /\ loop'[g].i = i + 1
  <2>. i + 1 \in Nat
    BY <1>2
  <2>. QED
    BY <1>1, <1>2, SetIndices
<1>. QED
  BY <1>1, <1>2, <1>3, <1>4 DEF Detector

\* Which actions come to which loop.
LEMMA Comes ==
    ASSUME Types, NEW g \in Goroutines, Step(g)
    PROVE  /\ pc'[g] = "sort" => AskSlice(g) \/ Sort(g) \/ StoreLower(g)
           /\ pc'[g] = "store" => Sort(g) \/ StoreUpper(g)
           /\ pc'[g] = "scan" => Sort(g) \/ Scan(g)
<1>. GoroutinesOK
  BY DEF Types
<1>1. pc'[g] = "sort" => AskSlice(g) \/ Sort(g) \/ StoreLower(g)
  BY DEF GoroutinesOK, Step, Begin, AskNobody, AskPath, StoreUpper, Scan, End,
         Return, NextDetector
<1>2. pc'[g] = "store" => Sort(g) \/ StoreUpper(g)
  BY DEF GoroutinesOK, Step, Begin, AskNobody, AskPath, AskSlice, StoreLower, Scan,
         End, Return, NextDetector
<1>3. pc'[g] = "scan" => Sort(g) \/ Scan(g)
  BY DEF GoroutinesOK, Step, Begin, AskNobody, AskPath, AskSlice, StoreUpper,
         StoreLower, End, Return, NextDetector
<1>. QED
  BY <1>1, <1>2, <1>3

LEMMA PrioritiesAreNumbers ==
    ASSUME NEW d \in Slices PROVE \A p \in ProfilesOf(d) : p.priority \in Int
BY DetectionAssumption DEF ProfilesOf

LEMMA OrderedStep == ASSUME Types, Apart, Ordered, [Next]_vars PROVE Ordered'
<1>. RegistryOK /\ GoroutinesOK /\ IndicesOK
  BY DEF Types
<1>1. CASE Registration
  BY <1>1, RegistrationIsQuiet DEF Ordered, Quiet
<1>2. ASSUME NEW g \in Goroutines, Step(g), ~ overlapped'
      PROVE  \A h \in Goroutines : OrderedAt(h)'
  <2>0. ~ overlapped /\ OrderedAt(g)
    BY <1>2, Others, OrderedAll
  <2>1. ASSUME NEW h \in Goroutines, h # g PROVE OrderedAt(h)'
    <3>1. /\ pc'[h] = pc[h] /\ loop'[h] = loop[h] /\ query'[h] = query[h]
          /\ Detector(h)' = Detector(h)
      BY <1>2, <2>1, Others
    <3>2. CASE pc[h] = "idle"
      BY <3>1, <3>2 DEF OrderedAt
    <3>3. CASE pc[h] # "idle"
      <4>1. ~ overlapped /\ slice' = slice /\ Completed(h)' = Completed(h)
        BY <1>2, <2>1, <3>3, Beside
      <4>2. OrderedAt(h)
        BY <4>1, OrderedAll
      <4>. QED
        BY <3>1, <4>1, <4>2 DEF OrderedAt
    <3>. QED
      BY <3>2, <3>3
  <2>2. ASSUME pc'[g] = "sort" PROVE OrderedAt(g)'
    <3>. SUFFICES OrderedTo(slice'[Detector(g)'], loop'[g].i, loop'[g].j)
      BY <2>2 DEF OrderedAt
    <3>1. CASE AskSlice(g)
      <4>1. /\ loop'[g].i = 2 /\ loop'[g].j = 2 /\ slice' = slice
            /\ Detector(g)' \in Slices
        BY <2>2, <3>1, AskSliceStarts
      <4>2. DOMAIN slice[Detector(g)'] \subseteq Nat \ {0}
        BY <4>1 DEF RegistryOK
      <4>. QED
        BY <4>1, <4>2 DEF OrderedTo
    <3>2. CASE Sort(g)
      <4>. DEFINE d == Detector(g)
                  S == ProfilesOf(d)
                  s == slice[d]
                  i == loop[g].i
                  j == loop[g].j
      <4>1. /\ s \in Seq(S) /\ i \in 2 .. Len(s) /\ j \in 1 .. i
            /\ ~ (j > 1 /\ Before(s[j], s[j - 1]))
            /\ loop'[g].i = i + 1 /\ loop'[g].j = i + 1 /\ slice' = slice
            /\ Detector(g)' = d /\ d \in Slices
        BY <2>2, <3>2, SortNext
      <4>2. OrderedTo(s, i, j)
        BY <2>0, <3>2 DEF OrderedAt, Sort
      <4>3. \A p \in S : p.priority \in Int
        BY <4>1, PrioritiesAreNumbers
      <4>. HIDE DEF d, S, s, i, j
      <4>4. OrderedTo(s, i + 1, i + 1)
        BY <4>1, <4>2, <4>3, NextOrders
      <4>. QED
        BY <4>1, <4>4 DEF s
    <3>3. CASE StoreLower(g)
      <4>1. OrderedTo(Completed(g)[Detector(g)], loop[g].i, loop[g].j - 1)
        BY <2>0, <3>3 DEF OrderedAt, StoreLower
      <4>. QED
        BY <3>3, <4>1, CompletedLower, LowerMoves
    <3>. QED
      BY <1>2, <2>2, <3>1, <3>2, <3>3, Comes
  <2>3. ASSUME pc'[g] = "store" PROVE OrderedAt(g)'
    <3>. SUFFICES OrderedTo(Completed(g)'[Detector(g)'], loop'[g].i, loop'[g].j - 1)
      BY <2>3 DEF OrderedAt
    <3>1. CASE Sort(g)
      <4>. DEFINE d == Detector(g)
                  S == ProfilesOf(d)
                  s == slice[d]
                  i == loop[g].i
                  j == loop[g].j
                  t == [s EXCEPT ![j] = s[j - 1], ![j - 1] = s[j]]
      <4>1. /\ d \in Slices /\ s \in Seq(S) /\ j \in 2 .. Len(s)
            /\ Before(s[j], s[j - 1]) /\ Detector(g)' = d /\ loop' = loop
            /\ Completed(g)'[d] = t
        BY <2>3, <3>1, CompletedSort
      <4>2. OrderedTo(s, i, j)
        BY <2>0, <3>1 DEF OrderedAt, Sort
      <4>3. \A p \in S : p.priority \in Int
        BY <4>1, PrioritiesAreNumbers
      <4>4. i \in 2 .. Len(s) /\ j \in 2 .. i
        <5>1. IndexOK(g)'
          BY TypesStep DEF Types, IndicesOK
        <5>2. StoringOK(g)'
          BY <2>3, <5>1 DEF IndexOK
        <5>3. slice' = slice
          BY <3>1 DEF Sort
        <5>. QED
          BY <4>1, <5>2, <5>3 DEF StoringOK
      <4>. HIDE DEF d, S, s, i, j
      <4>5. OrderedTo(t, i, j - 1)
        BY <4>1, <4>2, <4>3, <4>4, SwapOrders
      <4>. QED
        BY <4>1, <4>5 DEF i, j
    <3>2. CASE StoreUpper(g)
      <4>1. /\ OrderedTo(Completed(g)[Detector(g)], loop[g].i, loop[g].j - 1)
            /\ loop' = loop /\ detectors' = detectors
        BY <2>0, <3>2 DEF OrderedAt, StoreUpper, registry
      <4>2. Completed(g)' = Completed(g)
        BY <3>2, CompletedUpper
      <4>. QED
        BY <4>1, <4>2 DEF Detector
    <3>. QED
      BY <1>2, <2>3, <3>1, <3>2, Comes
  <2>4. ASSUME pc'[g] = "scan" PROVE OrderedAt(g)'
    <3>1. CASE Sort(g)
      <4>. DEFINE d == Detector(g)
                  s == slice[d]
      <4>1. /\ loop[g].i > Len(s) /\ loop[g].j = loop[g].i /\ loop'[g].i = 1
            /\ slice' = slice /\ Detector(g)' = d /\ d \in Slices
        BY <2>4, <3>1, SortEnds
      <4>2. OrderedTo(s, loop[g].i, loop[g].j)
        BY <2>0, <3>1 DEF OrderedAt, Sort
      <4>3. /\ s \in Seq(ProfilesOf(d)) /\ Len(s) \in Nat /\ loop[g].i \in Nat
        BY <4>1, LoopFacts DEF RegistryOK, GoroutinesOK
      <4>4. OrderedTo(s, Len(s), 0)
        BY <4>1, <4>2, <4>3 DEF OrderedTo
      <4>5. OrderedTo(slice'[Detector(g)'], Len(slice'[Detector(g)']), 0)
        BY <4>1, <4>4
      <4>. QED
        BY <2>4, <4>1, <4>5 DEF OrderedAt
    <3>2. CASE Scan(g)
      <4>. DEFINE d == Detector(g)
                  s == slice[d]
                  i == loop[g].i
      <4>1. /\ i \in 1 .. Len(s) /\ Len(s) \in Nat /\ ~ Matches(d, query[g], s[i])
            /\ loop'[g].i = i + 1 /\ slice' = slice /\ query' = query
            /\ Detector(g)' = d
        BY <2>4, <3>2, ScanNext
      <4>2. /\ OrderedTo(s, Len(s), 0)
            /\ \A k \in 1 .. i - 1 : k \in DOMAIN s => ~ Matches(d, query[g], s[k])
        BY <2>0, <3>2 DEF OrderedAt, Scan
      <4>3. \A k \in 1 .. (i + 1) - 1 :
              k \in DOMAIN s => ~ Matches(d, query[g], s[k])
        <5>. TAKE k \in 1 .. (i + 1) - 1
        <5>1. k \in 1 .. i - 1 \/ k = i
          BY <4>1
        <5>. QED
          BY <4>1, <4>2, <5>1
      <4>. HIDE DEF d, i
      <4>. QED
        BY <2>4, <4>1, <4>2, <4>3 DEF OrderedAt
    <3>. QED
      BY <1>2, <2>4, <3>1, <3>2, Comes
  <2>5. ASSUME pc'[g] \notin {"sort", "store", "scan"} PROVE OrderedAt(g)'
    BY <2>5 DEF OrderedAt
  <2>6. OrderedAt(g)'
    BY <2>2, <2>3, <2>4, <2>5
  <2>. QED
    BY <2>1, <2>6
<1>3. CASE UNCHANGED vars
  BY <1>3 DEF vars, registry, Ordered, Completed, Detector
<1>4. Ordered' <=> (~ overlapped' => \A g \in Goroutines : OrderedAt(g)')
  BY DEF Ordered, OrderedAt
<1>. QED
  BY <1>1, <1>2, <1>3, <1>4, StepOf

-----------------------------------------------------------------------------
(* What was searched.                                                      *)

SearchedAt(g) ==
    pc[g] \in {"ask", "sort", "store", "scan"} =>
        \A n \in DOMAIN detectors : n < loop[g].detector =>
            Found(Completed(g), detectors[n], query[g]) = {}

LEMMA SearchedAll ==
    Searched <=> (~ overlapped => \A g \in Goroutines : SearchedAt(g))
BY DEF Searched, SearchedAt

\* A goroutine keeps the profiles that it sorts.
LEMMA RangesKept ==
    ASSUME Types, NEW g \in Goroutines, Step(g), NEW e \in Slices
    PROVE  Range(Completed(g)'[e]) = Range(Completed(g)[e])
<1>1. CASE pc[g] = "store"
  BY <1>1, StoreSteps, CompletedUpper, CompletedLower
<1>2. CASE pc[g] # "store" /\ pc'[g] # "store"
  BY <1>2, NoSwap
<1>3. CASE pc[g] # "store" /\ pc'[g] = "store"
  <2>. DEFINE d == Detector(g)
              S == ProfilesOf(d)
              s == slice[d]
              j == loop[g].j
              t == [s EXCEPT ![j] = s[j - 1], ![j - 1] = s[j]]
  <2>1. Sort(g)
    BY <1>3, StoreSteps
  <2>2. /\ s \in Seq(S) /\ j \in 2 .. Len(s)
        /\ Completed(g)'[e] = IF e = d THEN t ELSE slice[e]
    BY <1>3, <2>1, CompletedSort
  <2>3. Completed(g) = slice
    BY <1>3, CompletedElsewhere
  <2>4. Range(t) = Range(s)
    <3>. HIDE DEF s, j, S
    <3>. QED
      BY <2>2, SwapFacts
  <2>. HIDE DEF t
  <2>. QED
    BY <2>2, <2>3, <2>4
<1>. QED
  BY <1>1, <1>2, <1>3

\* On its way through the detectors a goroutine goes from one to the next.
LEMMA Advances ==
    ASSUME Types, NEW g \in Goroutines, Step(g),
           pc'[g] \in {"ask", "sort", "store", "scan"}
    PROVE  \/ pc[g] = "idle" /\ pc'[g] = "ask" /\ loop' = loop
           \/ /\ pc[g] \in {"ask", "sort", "store", "scan"} /\ query' = query
              /\ \/ loop'[g].detector = loop[g].detector
                 \/ NextDetector(g) /\ (AskPath(g) \/ AskSlice(g) \/ Scan(g))
<1>. GoroutinesOK
  BY DEF Types
<1>1. CASE \E q \in Queries : Begin(g, q)
  BY <1>1 DEF Begin, GoroutinesOK
<1>2. CASE AskNobody(g)
  BY <1>2 DEF AskNobody, Return, GoroutinesOK
<1>3. CASE AskPath(g)
  BY <1>3 DEF AskPath, Return, GoroutinesOK
<1>4. CASE AskSlice(g)
  <2>1. pc[g] = "ask" /\ query' = query
    BY <1>4 DEF AskSlice
  <2>2. CASE NextDetector(g)
    BY <1>4, <2>1, <2>2
  <2>3. CASE ~ NextDetector(g)
    <3>1. pc'[g] = "sort"
      BY <1>4, <2>3 DEF AskSlice, GoroutinesOK
    <3>. QED
      BY <1>4, <2>1, <3>1, AskSliceStarts
  <2>. QED
    BY <2>2, <2>3
<1>5. CASE Sort(g)
  <2>1. pc[g] = "sort" /\ query' = query /\ pc'[g] \in {"sort", "store", "scan"}
    BY <1>5 DEF Sort, GoroutinesOK
  <2>. QED
    BY <1>5, <2>1, SortNext, SortEnds, CompletedSort
<1>6. CASE StoreUpper(g)
  BY <1>6 DEF StoreUpper
<1>7. CASE StoreLower(g)
  <2>1. pc[g] = "store" /\ query' = query
    BY <1>7 DEF StoreLower
  <2>. QED
    BY <1>7, <2>1, LowerMoves
<1>8. CASE Scan(g)
  <2>1. pc[g] = "scan" /\ query' = query
    BY <1>8 DEF Scan
  <2>2. CASE NextDetector(g)
    BY <1>8, <2>1, <2>2
  <2>3. CASE ~ NextDetector(g)
    <3>1. pc'[g] = "scan"
      BY <1>8, <2>3 DEF Scan, Return, GoroutinesOK
    <3>. QED
      BY <1>8, <2>1, <3>1, ScanNext
  <2>. QED
    BY <2>2, <2>3
<1>9. CASE End(g)
  BY <1>9 DEF End, GoroutinesOK
<1>. QED
  BY <1>1, <1>2, <1>3, <1>4, <1>5, <1>6, <1>7, <1>8, <1>9 DEF Step

\* A detector that is left has found nothing.
LEMMA LeavesNothing ==
    ASSUME Types, NEW g \in Goroutines, OrderedAt(g), NextDetector(g),
           AskPath(g) \/ AskSlice(g) \/ Scan(g)
    PROVE  Found(slice, detectors[loop[g].detector], query[g]) = {}
<1>. DEFINE d == Detector(g)
            q == query[g]
<1>. RegistryOK /\ GoroutinesOK /\ IndicesOK
  BY DEF Types
<1>0. pc'[g] = "ask" /\ d = detectors[loop[g].detector]
  BY DEF NextDetector, GoroutinesOK, Detector
<1>1. CASE AskPath(g)
  <2>1. d = "path" /\ ~ (\E t \in DOMAIN patterns : MatchesPattern(q.path, t))
    <3>1. ASSUME NEW t, Return(g, patterns[t]) PROVE FALSE
      BY <1>0, <3>1 DEF Return, GoroutinesOK
    <3>2. ~ (q.path \in DOMAIN patterns)
          /\ {t \in DOMAIN patterns : MatchesPattern(q.path, t)} = {}
      BY <1>1, <3>1 DEF AskPath
    <3>. QED
      BY <1>1, <3>2 DEF AskPath
  <2>2. \A p \in Range(patterns) : ~ Matches("path", q, p)
    <3>. TAKE p \in Range(patterns)
    <3>1. PICK t \in DOMAIN patterns : p = patterns[t]
      BY DEF Range
    <3>2. p.pattern = t
      BY <3>1 DEF RegistryOK
    <3>. QED
      BY <2>1, <3>2 DEF Matches
  <2>. QED
    BY <1>0, <2>1, <2>2 DEF Found
<1>2. CASE AskSlice(g)
  <2>1. d = "payload" /\ q.body = "empty"
    BY <1>0, <1>2 DEF AskSlice, GoroutinesOK
  <2>. QED
    BY <1>0, <2>1 DEF Found, Matches
<1>3. CASE Scan(g)
  <2>. DEFINE s == slice[d]
              i == loop[g].i
  <2>1. pc[g] = "scan" /\ d \in Slices /\ i # 0 /\ i \in Nat
    BY <1>3, LoopFacts DEF Scan, IndicesOK, IndexOK, GoroutinesOK
  <2>2. i > Len(s)
    BY <1>0, <1>3 DEF Scan, Return, GoroutinesOK
  <2>3. DOMAIN s = 1 .. Len(s) /\ Len(s) \in Nat
    BY <2>1 DEF RegistryOK
  <2>4. \A k \in DOMAIN s : ~ Matches(d, q, s[k])
    <3>1. \A k \in 1 .. i - 1 : k \in DOMAIN s => ~ Matches(d, q, s[k])
      BY <2>1 DEF OrderedAt
    <3>. QED
      BY <2>1, <2>2, <2>3, <3>1
  <2>5. d # "path"
    BY <2>1 DEF Slices
  <2>. HIDE DEF d
  <2>. QED
    BY <1>0, <2>4, <2>5 DEF Found, Range
<1>. QED
  BY <1>1, <1>2, <1>3

LEMMA SearchedStep ==
    ASSUME Types, Apart, Ordered, Searched, [Next]_vars PROVE Searched'
<1>. RegistryOK /\ GoroutinesOK /\ IndicesOK
  BY DEF Types
<1>1. CASE Registration
  BY <1>1, RegistrationIsQuiet DEF Searched, Quiet
<1>2. ASSUME NEW g \in Goroutines, Step(g), ~ overlapped'
      PROVE  \A h \in Goroutines : SearchedAt(h)'
  <2>1. /\ ~ overlapped /\ UNCHANGED <<detectors, default, patterns>>
        /\ OrderedAt(g) /\ SearchedAt(g)
    BY <1>2, Others, OrderedAll, SearchedAll
  <2>2. ASSUME NEW h \in Goroutines, h # g PROVE SearchedAt(h)'
    <3>1. /\ pc'[h] = pc[h] /\ loop'[h] = loop[h] /\ query'[h] = query[h]
      BY <1>2, <2>2, Others
    <3>2. CASE pc[h] = "idle"
      BY <3>1, <3>2 DEF SearchedAt
    <3>3. CASE pc[h] # "idle"
      <4>1. Completed(h)' = Completed(h)
        BY <1>2, <2>2, <3>3, Beside
      <4>2. SearchedAt(h)
        BY <2>1, SearchedAll
      <4>. QED
        BY <2>1, <3>1, <4>1, <4>2 DEF SearchedAt, Found
    <3>. QED
      BY <3>2, <3>3
  <2>3. SearchedAt(g)'
    <3>. SUFFICES ASSUME pc'[g] \in {"ask", "sort", "store", "scan"},
                         NEW n \in DOMAIN detectors, n < loop'[g].detector
                  PROVE  Found(Completed(g), detectors[n], query[g])' = {}
      BY <2>1 DEF SearchedAt
    <3>1. n \in Nat /\ n # 0 /\ detectors[n] \in Detectors
      BY DEF RegistryOK
    <3>2. ASSUME query' = query, pc[g] \in {"ask", "sort", "store", "scan"}
          PROVE  Found(Completed(g), detectors[n], query[g])' =
                   Found(Completed(g), detectors[n], query[g])
      <4>1. CASE detectors[n] = "path"
        BY <2>1, <3>2, <4>1 DEF Found
      <4>2. CASE detectors[n] \in Slices
        <5>1. Range(Completed(g)'[detectors[n]]) = Range(Completed(g)[detectors[n]])
          BY <1>2, <4>2, RangesKept
        <5>. QED
          BY <2>1, <3>2, <4>2, <5>1 DEF Found, Slices
      <4>. QED
        BY <3>1, <4>1, <4>2 DEF Detectors
    <3>3. CASE pc[g] = "idle" /\ loop' = loop
      BY <3>1, <3>3 DEF IndicesOK, IndexOK
    <3>4. CASE /\ pc[g] \in {"ask", "sort", "store", "scan"} /\ query' = query
               /\ loop'[g].detector = loop[g].detector
      BY <2>1, <3>2, <3>4 DEF SearchedAt
    <3>5. CASE /\ pc[g] \in {"ask", "sort", "store", "scan"} /\ query' = query
               /\ NextDetector(g) /\ (AskPath(g) \/ AskSlice(g) \/ Scan(g))
      <4>1. loop'[g].detector = loop[g].detector + 1 /\ loop[g].detector \in Nat
        BY <3>5, SetDetector, LoopFacts DEF NextDetector, GoroutinesOK
      <4>2. CASE n < loop[g].detector
        BY <2>1, <3>2, <3>5, <4>2 DEF SearchedAt
      <4>3. CASE n = loop[g].detector
        <5>1. Found(slice, detectors[n], query[g]) = {}
          BY <2>1, <3>5, <4>3, LeavesNothing
        <5>2. pc[g] # "store"
          BY <3>5 DEF AskPath, AskSlice, Scan
        <5>. QED
          BY <3>2, <3>5, <5>1, <5>2, CompletedElsewhere
      <4>. QED
        BY <3>1, <4>1, <4>2, <4>3
    <3>. QED
      BY <1>2, <3>3, <3>4, <3>5, Advances
  <2>. QED
    BY <2>2, <2>3
<1>3. CASE UNCHANGED vars
  BY <1>3 DEF vars, registry, Searched, Completed, Detector, Found
<1>4. Searched' <=> (~ overlapped' => \A g \in Goroutines : SearchedAt(g)')
  BY DEF Searched, SearchedAt
<1>. QED
  BY <1>1, <1>2, <1>3, <1>4, StepOf

-----------------------------------------------------------------------------
(* The best profile.                                                       *)

BestAt(g) ==
    LET p == result[g]
        q == query[g]
        C(n) == Candidates(detectors[n], q)
    IN  \/ /\ p = default
           /\ \A n \in DOMAIN detectors : C(n) = {}
        \/ \E n \in DOMAIN detectors :
             /\ \A k \in 1 .. n - 1 : C(k) = {}
             /\ p \in C(n)
             /\ IF detectors[n] = "path"
                THEN q.path \in DOMAIN patterns => p = patterns[q.path]
                ELSE \A r \in C(n) : r.priority <= p.priority

LEMMA BestAll ==
    BestOfFirstDetector <=>
        \A g \in Goroutines : pc[g] = "done" /\ ~ overlapped => BestAt(g)
BY DEF BestOfFirstDetector, BestAt

LEMMA BestStep ==
    ASSUME Types, Apart, Ordered, Searched, BestOfFirstDetector, [Next]_vars
    PROVE  BestOfFirstDetector'
<1>. RegistryOK /\ GoroutinesOK /\ IndicesOK
  BY DEF Types
<1>1. CASE Registration
  BY <1>1, RegistrationIsQuiet DEF BestOfFirstDetector, Quiet
<1>2. ASSUME NEW g \in Goroutines, Step(g), ~ overlapped'
      PROVE  \A h \in Goroutines : pc'[h] = "done" => BestAt(h)'
  <2>1. /\ ~ overlapped /\ UNCHANGED <<detectors, default, patterns>>
        /\ OrderedAt(g) /\ SearchedAt(g)
    BY <1>2, Others, OrderedAll, SearchedAll
  <2>2. ASSUME NEW h \in Goroutines, h # g, pc'[h] = "done" PROVE BestAt(h)'
    <3>1. /\ pc[h] = "done" /\ query'[h] = query[h] /\ result'[h] = result[h]
      BY <1>2, <2>2, Others
    <3>2. slice' = slice
      BY <1>2, <2>2, <3>1, Beside
    <3>3. BestAt(h)
      BY <2>1, <3>1, BestAll
    <3>. QED
      BY <2>1, <3>1, <3>2, <3>3 DEF BestAt, Candidates
  <2>3. ASSUME pc'[g] = "done" PROVE BestAt(g)'
    <3>. DEFINE q == query[g]
                m == loop[g].detector
                C(n) == Candidates(detectors[n], q)
    <3>0. AskNobody(g) \/ (AskPath(g) /\ ~ NextDetector(g)) \/ Scan(g)
      BY <1>2, <2>3, Returns
    <3>1. /\ pc[g] \in {"ask", "scan"} /\ slice' = slice /\ query' = query
      BY <3>0 DEF AskNobody, AskPath, Scan
    <3>2. \A n \in DOMAIN detectors : n < m => C(n) = {}
      <4>1. Completed(g) = slice
        BY <3>1, CompletedElsewhere
      <4>2. \A n : C(n) = Found(slice, detectors[n], q)
        BY DEF Candidates, Found
      <4>. QED
        BY <2>1, <3>1, <4>1, <4>2 DEF SearchedAt
    <3>3. DOMAIN detectors = 1 .. Len(detectors) /\ Len(detectors) \in Nat /\ m \in Nat
      BY LoopFacts DEF RegistryOK, GoroutinesOK
    <3>4. \A n : C(n)' = C(n)
      BY <2>1, <3>1 DEF Candidates
    <3>5. CASE AskNobody(g)
      <4>1. m > Len(detectors)
        BY <3>5 DEF AskNobody
      <4>2. \A n \in DOMAIN detectors : C(n) = {}
        BY <3>2, <3>3, <4>1
      <4>3. result'[g] = default
        BY <3>5, NobodyReturns
      <4>. QED
        BY <2>1, <3>1, <3>4, <4>2, <4>3 DEF BestAt
    <3>6. ASSUME m \in DOMAIN detectors, result'[g] \in C(m),
                 IF detectors[m] = "path"
                 THEN q.path \in DOMAIN patterns => result'[g] = patterns[q.path]
                 ELSE \A r \in C(m) : r.priority <= result'[g].priority
          PROVE  BestAt(g)'
      <4>1. \A k \in 1 .. m - 1 : C(k) = {}
        BY <3>2, <3>3, <3>6
      <4>. HIDE DEF m
      <4>. QED
        BY <2>1, <3>1, <3>4, <3>6, <4>1 DEF BestAt
    <3>7. CASE AskPath(g) /\ ~ NextDetector(g)
      <4>1. PICK t \in DOMAIN patterns :
              /\ Return(g, patterns[t]) /\ Matches("path", q, patterns[t])
              /\ q.path \in DOMAIN patterns => t = q.path
        BY <3>7, PathReturns
      <4>2. detectors[m] = "path" /\ m \in DOMAIN detectors
        BY <3>7, PathReturns
      <4>3. result'[g] = patterns[t]
        BY <4>1 DEF Return, GoroutinesOK
      <4>4. patterns[t] \in C(m)
        BY <4>1, <4>2 DEF Candidates, Range
      <4>. QED
        BY <3>6, <4>1, <4>2, <4>3, <4>4
    <3>8. CASE Scan(g)
      <4>. DEFINE d == Detector(g)
                  s == slice[d]
                  i == loop[g].i
      <4>1. /\ i \in 1 .. Len(s) /\ Len(s) \in Nat /\ d \in Slices
            /\ m \in DOMAIN detectors /\ Return(g, s[i]) /\ Matches(d, q, s[i])
        BY <2>3, <3>8, ScanReturns
      <4>2. d = detectors[m] /\ d # "path" /\ DOMAIN s = 1 .. Len(s)
        <5>1. d = detectors[m] /\ d # "path"
          BY <4>1 DEF Detector, Slices
        <5>2. s \in Seq(ProfilesOf(d))
          BY <4>1 DEF RegistryOK
        <5>. HIDE DEF s
        <5>. QED
          BY <5>1, <5>2
      <4>3. result'[g] = s[i]
        BY <4>1 DEF Return, GoroutinesOK
      <4>4. C(m) = {r \in Range(s) : Matches(d, q, r)}
        BY <4>2 DEF Candidates
      <4>5. /\ OrderedTo(s, Len(s), 0)
            /\ \A k \in 1 .. i - 1 : k \in DOMAIN s => ~ Matches(d, q, s[k])
        BY <2>1, <3>8 DEF OrderedAt, Scan
      <4>6. ASSUME NEW k \in 1 .. Len(s), Matches(d, q, s[k])
            PROVE  s[k].priority <= s[i].priority
        <5>1. s[k].priority \in Int /\ s[i].priority \in Int
          BY <4>1, At
        <5>2. i <= k
          <6>1. k \in DOMAIN s /\ k \in Nat /\ k >= 1 /\ i \in Nat
            BY <4>1, <4>2
          <6>2. Matches(d, q, s[k])
            BY <4>6
          <6>. HIDE DEF s, i, d, q
          <6>. QED
            BY <4>5, <6>1, <6>2
        <5>3. CASE i = k
          BY <5>1, <5>3
        <5>4. CASE i < k
          <6>1. i \in DOMAIN s /\ k \in DOMAIN s /\ k <= Len(s) /\ k # 0
            BY <4>1, <4>2
          <6>. HIDE DEF s, i, d
          <6>. QED
            BY <4>5, <5>4, <6>1 DEF OrderedTo
        <5>. QED
          BY <4>1, <5>2, <5>3, <5>4
      <4>7. s[i] \in C(m) /\ \A r \in C(m) : r.priority <= s[i].priority
        <5>. HIDE DEF C, d, s, i
        <5>. QED
          BY <4>1, <4>2, <4>4, <4>6 DEF Range
      <4>. QED
        BY <3>6, <4>1, <4>2, <4>3, <4>7
    <3>. QED
      BY <3>0, <3>5, <3>7, <3>8
  <2>. QED
    BY <2>2, <2>3
<1>3. CASE UNCHANGED vars
  BY <1>3 DEF vars, registry, BestOfFirstDetector, Candidates
<1>4. BestOfFirstDetector' <=>
        \A g \in Goroutines : pc'[g] = "done" /\ ~ overlapped' => BestAt(g)'
  BY DEF BestOfFirstDetector, BestAt
<1>. QED
  BY <1>1, <1>2, <1>3, <1>4, StepOf

-----------------------------------------------------------------------------
(* The theorems.                                                           *)

LEMMA InitIInv == ASSUME Init PROVE IInv
<1>1. RegistryOK
  BY DEF Init, RegistryOK
<1>2. GoroutinesOK
  <2>1. Idle \in Loops
    BY DEF Idle, Loops
  <2>2. <<>> \in Seq(Profiles)
    OBVIOUS
  <2>. QED
    BY <2>1, <2>2 DEF Init, GoroutinesOK, Labels
<1>3. IndicesOK
  BY DEF Init, IndicesOK, IndexOK, Idle
<1>4. AnswersMatch /\ Apart /\ Ordered /\ Searched /\ BestOfFirstDetector
  BY DEF Init, AnswersMatch, Apart, Ordered, Searched, BestOfFirstDetector
<1>. QED
  BY <1>1, <1>2, <1>3, <1>4 DEF IInv, Types

LEMMA NextIInv == ASSUME IInv, [Next]_vars PROVE IInv'
<1>. /\ Types /\ AnswersMatch /\ Apart /\ Ordered /\ Searched
     /\ BestOfFirstDetector
  BY DEF IInv
<1>. QED
  BY TypesStep, AnswersMatchStep, ApartStep, OrderedStep, SearchedStep,
     BestStep DEF IInv

\* The inductive invariant holds in every state.
THEOREM DetectionInvariance == Spec => []IInv
BY InitIInv, NextIInv, PTL DEF Spec

\* Whatever the detections beside it write to the shared slices meanwhile, a
\* detection gives a profile that its request matches, or the default.
THEOREM AnswersAreMatches == Spec => []AnswersMatch
<1>1. IInv => AnswersMatch
  BY DEF IInv
<1>. QED
  BY <1>1, DetectionInvariance, PTL

\* Detections that do not meet over a slice out of order give the profile of
\* the highest priority of the first detector that has one.
THEOREM TheBestIsFound == Spec => []BestOfFirstDetector
<1>1. IInv => BestOfFirstDetector
  BY DEF IInv
<1>. QED
  BY <1>1, DetectionInvariance, PTL

\* Of a body the payload detector has accepted the generic parser takes every
\* part of the device whose name is also its key.
THEOREM SelfNamedPartsAreParsed == Spec => []SelfNamedPartsAreFound
<1>1. ASSUME AnswersMatch PROVE SelfNamedPartsAreFound
  <2>. SUFFICES ASSUME NEW g \in Goroutines, pc[g] = "done", result[g] # default,
                       result[g].method = "payload", result[g].make # "chirpstack",
                       NEW name \in DOMAIN result[g].fields
                                     \cap {"device_id", "device_name"},
                       result[g].fields[name] = name
                PROVE  /\ name \in DOMAIN query[g].fields
                       /\ Parse(query[g], result[g])[name] = query[g].fields[name]
    BY DEF SelfNamedPartsAreFound
  <2>. DEFINE q == query[g]
              p == result[g]
  <2>1. MatchesPayload(q, p)
    BY <1>1 DEF AnswersMatch, Matches
  <2>2. q.body = "object" /\ name \in DOMAIN q.fields
    BY <2>1 DEF MatchesPayload
  <2>3. Parse(q, p)[name] = ExtractField(q, p.fields[name])
    <3>1. CASE name = "device_id"
      BY <2>2, <3>1 DEF Parse
    <3>2. CASE name = "device_name"
      BY <2>2, <3>2 DEF Parse
    <3>. QED
      BY <3>1, <3>2
  <2>4. ExtractField(q, name) = q.fields[name]
    BY <2>2 DEF ExtractField
  <2>. QED
    BY <2>2, <2>3, <2>4
<1>2. IInv => SelfNamedPartsAreFound
  BY <1>1 DEF IInv
<1>. QED
  BY <1>2, DetectionInvariance, PTL

\* Once the slices are sorted no detection writes to one or sets out to.
THEOREM SortedSlicesStay == Spec => SortedStays
<1>1. IInv /\ [Next]_vars => [Sorted /\ ~ Quiet => UNCHANGED <<slice, held>>]_vars
  BY SortedStep DEF IInv
<1>. QED
  BY <1>1, DetectionInvariance, PTL DEF Spec, SortedStays
=============================================================================
