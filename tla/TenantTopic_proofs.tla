------------------------- MODULE TenantTopic_proofs -------------------------
(***************************************************************************)
(* Proofs about the tenants of hosts: for any characters, any number of    *)
(* them and any bound on the length of a tenant's name.                    *)
(***************************************************************************)
EXTENDS MCTenantTopic, FiniteSetTheorems, WellFoundedInduction, TLAPS

-----------------------------------------------------------------------------
(* Cutting a string.                                                       *)

\* A set of natural numbers has a least element: what stands in the proofs
\* below for induction.
LEMMA LeastOf ==
    ASSUME NEW T \in SUBSET Nat, T # {}
    PROVE  \E n \in T : \A m \in T : n <= m
<1>1. PICK n \in T : \A m \in T : <<m, n>> \notin OpToRel(<, Nat)
  BY NatLessThanWellFounded, WFMin
<1>2. \A m \in T : ~ (m < n)
  BY <1>1 DEF OpToRel
<1>. QED
  BY <1>2

\* The first c of s is at i; an i behind its end when s holds no c.
FirstAt(s, c, i) ==
    /\ i \in DOMAIN s => s[i] = c
    /\ \A j \in 1 .. i - 1 : s[j] # c

LEMMA FirstExists ==
    ASSUME NEW S, NEW s \in Seq(S), NEW c
    PROVE  \E i \in 1 .. Len(s) + 1 : FirstAt(s, c, i)
<1>. DEFINE T == {i \in 1 .. Len(s) + 1 : i \in DOMAIN s => s[i] = c}
<1>1. Len(s) + 1 \in T /\ T \in SUBSET Nat
  OBVIOUS
<1>2. PICK i \in T : \A m \in T : i <= m
  BY <1>1, LeastOf
<1>3. ASSUME NEW j \in 1 .. i - 1 PROVE s[j] # c
  <2>1. j \in 1 .. Len(s) /\ j < i /\ j \in Int /\ i \in Int
    BY <1>2
  <2>2. ~ (j \in T)
    BY <1>2, <2>1
  <2>. QED
    BY <2>1, <2>2
<1>. QED
  BY <1>2, <1>3 DEF FirstAt

LEMMA FirstIsUnique ==
    ASSUME NEW S, NEW s \in Seq(S), NEW c,
           NEW i \in 1 .. Len(s) + 1, NEW k \in 1 .. Len(s) + 1,
           FirstAt(s, c, i), FirstAt(s, c, k)
    PROVE  i = k
<1>1. ASSUME NEW a \in 1 .. Len(s) + 1, NEW b \in 1 .. Len(s) + 1,
             FirstAt(s, c, a), FirstAt(s, c, b), a < b
      PROVE  FALSE
  <2>1. a \in DOMAIN s /\ a \in 1 .. b - 1
    BY <1>1
  <2>. QED
    BY <1>1, <2>1 DEF FirstAt
<1>2. i \in Int /\ k \in Int
  OBVIOUS
<1>. QED
  BY <1>1, <1>2

LEMMA CutAtFirst ==
    ASSUME NEW S, NEW s \in Seq(S), NEW c,
           NEW i \in 1 .. Len(s) + 1, FirstAt(s, c, i)
    PROVE  CutAt(s, c) = SubSeq(s, 1, i - 1)
<1>. DEFINE k == CHOOSE n \in 1 .. Len(s) + 1 : FirstAt(s, c, n)
<1>1. k \in 1 .. Len(s) + 1 /\ FirstAt(s, c, k)
  BY FirstExists
<1>2. CutAt(s, c) = SubSeq(s, 1, k - 1)
  BY DEF CutAt, FirstAt
<1>. HIDE DEF k
<1>. QED
  BY <1>1, <1>2, FirstIsUnique

\* What is cut off a string holds no c, and is a string again.
LEMMA CutAtType ==
    ASSUME NEW S, NEW s \in Seq(S), NEW c
    PROVE  CutAt(s, c) \in Seq(S)
<1>1. PICK i \in 1 .. Len(s) + 1 : FirstAt(s, c, i)
  BY FirstExists
<1>2. CutAt(s, c) = SubSeq(s, 1, i - 1)
  BY <1>1, CutAtFirst
<1>. QED
  BY <1>2

LEMMA CutAtNothing ==
    ASSUME NEW S, NEW s \in Seq(S), NEW c, c \notin Range(s)
    PROVE  CutAt(s, c) = s
<1>1. FirstAt(s, c, Len(s) + 1) /\ Len(s) + 1 \in 1 .. Len(s) + 1
  BY DEF FirstAt, Range
<1>2. SubSeq(s, 1, Len(s)) = s /\ (Len(s) + 1) - 1 = Len(s)
  OBVIOUS
<1>. QED
  BY <1>1, <1>2, CutAtFirst

\* A character more behind a c changes nothing before it.
LEMMA CutAtAppend ==
    ASSUME NEW S, NEW s \in Seq(S), NEW x \in S, NEW c, c \in Range(s)
    PROVE  CutAt(Append(s, x), c) = CutAt(s, c)
<1>. DEFINE t == Append(s, x)
<1>1. PICK i \in 1 .. Len(s) + 1 : FirstAt(s, c, i)
  BY FirstExists
<1>2. i \in 1 .. Len(s)
  BY <1>1 DEF FirstAt, Range
<1>3. /\ t \in Seq(S) /\ Len(t) = Len(s) + 1
      /\ \A n \in 1 .. Len(s) : t[n] = s[n]
  OBVIOUS
<1>4. SubSeq(t, 1, i - 1) = SubSeq(s, 1, i - 1)
  BY <1>2
<1>. HIDE DEF t
<1>5. FirstAt(t, c, i) /\ i \in 1 .. Len(t) + 1
  BY <1>1, <1>2, <1>3 DEF FirstAt
<1>. QED
  BY <1>1, <1>3, <1>4, <1>5, CutAtFirst DEF t

LEMMA CutAtEnd ==
    ASSUME NEW S, NEW s \in Seq(S), NEW c \in S, c \notin Range(s)
    PROVE  CutAt(Append(s, c), c) = s
<1>. DEFINE t == Append(s, c)
<1>1. /\ t \in Seq(S) /\ Len(t) = Len(s) + 1 /\ t[Len(s) + 1] = c
      /\ \A n \in 1 .. Len(s) : t[n] = s[n]
  OBVIOUS
<1>2. FirstAt(t, c, Len(s) + 1) /\ Len(s) + 1 \in 1 .. Len(t) + 1
  BY <1>1 DEF FirstAt, Range
<1>3. SubSeq(t, 1, (Len(s) + 1) - 1) = s
  OBVIOUS
<1>. HIDE DEF t
<1>. QED
  BY <1>1, <1>2, <1>3, CutAtFirst DEF t

LEMMA RangeAppend ==
    ASSUME NEW S, NEW s \in Seq(S), NEW x \in S
    PROVE  Range(Append(s, x)) = Range(s) \cup {x}
<1>. DEFINE t == Append(s, x)
<1>1. /\ DOMAIN t = 1 .. Len(s) + 1 /\ DOMAIN s = 1 .. Len(s) /\ Len(s) \in Nat
      /\ t[Len(s) + 1] = x /\ \A n \in 1 .. Len(s) : t[n] = s[n]
  OBVIOUS
<1>2. \A n \in 1 .. Len(s) + 1 : n \in 1 .. Len(s) \/ n = Len(s) + 1
  BY <1>1
<1>3. 1 .. Len(s) \subseteq 1 .. Len(s) + 1 /\ Len(s) + 1 \in 1 .. Len(s) + 1
  BY <1>1
<1>. HIDE DEF t
<1>. QED
  BY <1>1, <1>2, <1>3 DEF Range, t

-----------------------------------------------------------------------------
(* Stripping.                                                              *)

\* What the recursive function of SanitizeTenantID is, for the first length
\* characters.
IsKept(kept, t, length) ==
    kept = [n \in 0 .. length |->
              IF n = 0 THEN <<>>
              ELSE IF t[n] \in Stripped THEN kept[n - 1]
              ELSE Append(kept[n - 1], t[n])]

LEMMA KeptExists ==
    ASSUME NEW t, NEW length \in Nat
    PROVE  \E kept : IsKept(kept, t, length)
<1>. DEFINE T == {n \in Nat : ~ \E kept : IsKept(kept, t, n)}
            Step(previous, n) == IF t[n] \in Stripped THEN previous
                                 ELSE Append(previous, t[n])
<1>. SUFFICES ASSUME T # {} PROVE FALSE
  OBVIOUS
<1>1. PICK n \in T : \A m \in T : n <= m
  BY LeastOf
<1>2. n # 0
  <2>1. IsKept([k \in 0 .. 0 |-> <<>>], t, 0)
    BY DEF IsKept
  <2>. QED
    BY <1>1, <2>1
<1>3. n - 1 \in Nat /\ ~ (n <= n - 1)
  BY <1>2
<1>4. PICK f : IsKept(f, t, n - 1)
  BY <1>1, <1>3
<1>. DEFINE g == [k \in 0 .. n |-> IF k = n THEN Step(f[n - 1], n) ELSE f[k]]
<1>5. ASSUME NEW k \in 0 .. n
      PROVE  g[k] = IF k = 0 THEN <<>> ELSE Step(g[k - 1], k)
  <2>. HIDE DEF Step
  <2>1. CASE k \in 0 .. n - 1
    <3>1. g[k] = f[k] /\ (k # 0 => g[k - 1] = f[k - 1])
      BY <1>3, <2>1
    <3>2. f[k] = IF k = 0 THEN <<>> ELSE Step(f[k - 1], k)
      BY <1>3, <1>4, <2>1 DEF IsKept, Step
    <3>. QED
      BY <3>1, <3>2
  <2>2. CASE k = n
    BY <1>2, <1>3, <2>2
  <2>3. k \in 0 .. n - 1 \/ k = n
    OBVIOUS
  <2>. QED
    BY <2>1, <2>2, <2>3
<1>6. g = [k \in 0 .. n |-> g[k]]
  OBVIOUS
<1>. HIDE DEF g
<1>7. IsKept(g, t, n)
  BY <1>5, <1>6 DEF IsKept
<1>. QED
  BY <1>1, <1>7

\* A name of word characters only is left as it is.
LEMMA WordsAreKept ==
    ASSUME NEW t \in Seq(Word)
    PROVE  SanitizeTenantID(t) = IF ValidFormat(t) THEN t ELSE NoTenant
<1>. DEFINE kept == CHOOSE kept : IsKept(kept, t, Len(t))
<1>. Len(t) \in Nat
  OBVIOUS
<1>1. IsKept(kept, t, Len(t))
  BY KeptExists
<1>2. SanitizeTenantID(t) =
        IF ValidFormat(kept[Len(t)]) THEN kept[Len(t)] ELSE NoTenant
  BY DEF SanitizeTenantID, IsKept
<1>. HIDE DEF kept
<1>. DEFINE T == {n \in 0 .. Len(t) : kept[n] # SubSeq(t, 1, n)}
<1>3. ASSUME T # {} PROVE FALSE
  <2>. T \in SUBSET Nat
    OBVIOUS
  <2>1. PICK n \in T : \A m \in T : n <= m
    BY <1>3, LeastOf
  <2>2. n # 0
    BY <1>1, <2>1 DEF IsKept
  <2>3. n - 1 \in 0 .. Len(t) /\ ~ (n <= n - 1) /\ n \in 1 .. Len(t)
    BY <2>2
  <2>4. kept[n - 1] = SubSeq(t, 1, n - 1)
    BY <2>1, <2>3
  <2>5. t[n] \notin Stripped
    BY <2>3, CharsAssumption
  <2>6. kept[n] = Append(kept[n - 1], t[n])
    BY <1>1, <2>2, <2>5 DEF IsKept
  <2>7. Append(SubSeq(t, 1, n - 1), t[n]) = SubSeq(t, 1, n)
    BY <2>3
  <2>. QED
    BY <2>1, <2>4, <2>6, <2>7
<1>4. kept[Len(t)] = SubSeq(t, 1, Len(t)) /\ SubSeq(t, 1, Len(t)) = t
  BY <1>3
<1>. QED
  BY <1>2, <1>4

\* What is left of a string is a string.
LEMMA SanitizeType ==
    ASSUME NEW S, NEW t \in Seq(S)
    PROVE  SanitizeTenantID(t) \in Seq(S)
<1>. DEFINE kept == CHOOSE kept : IsKept(kept, t, Len(t))
<1>. Len(t) \in Nat
  OBVIOUS
<1>1. IsKept(kept, t, Len(t))
  BY KeptExists
<1>2. SanitizeTenantID(t) =
        IF ValidFormat(kept[Len(t)]) THEN kept[Len(t)] ELSE NoTenant
  BY DEF SanitizeTenantID, IsKept
<1>. HIDE DEF kept
<1>. DEFINE T == {n \in 0 .. Len(t) : kept[n] \notin Seq(S)}
<1>3. ASSUME T # {} PROVE FALSE
  <2>. T \in SUBSET Nat
    OBVIOUS
  <2>1. PICK n \in T : \A m \in T : n <= m
    BY <1>3, LeastOf
  <2>2. n # 0
    BY <1>1, <2>1 DEF IsKept
  <2>3. n - 1 \in 0 .. Len(t) /\ ~ (n <= n - 1) /\ n \in 1 .. Len(t)
    BY <2>2
  <2>4. kept[n - 1] \in Seq(S) /\ t[n] \in S
    BY <2>1, <2>3
  <2>5. kept[n] = kept[n - 1] \/ kept[n] = Append(kept[n - 1], t[n])
    BY <1>1, <2>2, <2>3 DEF IsKept
  <2>6. Append(kept[n - 1], t[n]) \in Seq(S)
    BY <2>4
  <2>. QED
    BY <2>1, <2>4, <2>5, <2>6
<1>4. kept[Len(t)] \in Seq(S)
  BY <1>3
<1>. QED
  BY <1>2, <1>4 DEF NoTenant

\* A tenant that an endpoint accepts is a word.
LEMMA AcceptedIsWord ==
    ASSUME NEW S, NEW h \in Seq(S),
           NEW t \in {LoRaWANTenant(h), HttpTenant(h), ApiTenant(h)} \ {NoTenant}
    PROVE  t \in Seq(Word)
<1>1. ExtractTenantFromSubdomain(h) \in Seq(S)
  BY CutAtType DEF ExtractTenantFromSubdomain, NoTenant
<1>2. t \in Seq(S)
  BY <1>1, SanitizeType DEF LoRaWANTenant, HttpTenant, ApiTenant, NoTenant
<1>3. ValidFormat(t)
  BY DEF LoRaWANTenant, HttpTenant, ApiTenant, SanitizeTenantID
<1>. QED
  BY <1>2, <1>3 DEF ValidFormat, Range

-----------------------------------------------------------------------------
(* Topics.                                                                 *)

\* The characters of a tenant's topic, by position.
LEMMA TopicParts ==
    ASSUME NEW t \in Seq(Word)
    PROVE  LET n == Len(t)
               topic == TenantTopic(t)
           IN  /\ topic \in Seq(Word \cup {"tenant", "/", "device", "data"})
               /\ n \in Nat /\ Len(topic) = n + 6
               /\ topic[1] = "tenant" /\ topic[2] = "/"
               /\ \A i \in 3 .. n + 2 : topic[i] \in Word
               /\ topic[n + 3] = "/" /\ topic[n + 4] = "device"
               /\ topic[n + 5] = "/" /\ topic[n + 6] = "data"
BY DEF TenantTopic

LEMMA CardinalityOfThree ==
    ASSUME NEW x, NEW y, NEW z, x # y, x # z, y # z
    PROVE  Cardinality(({x} \cup {y}) \cup {z}) = 3
<1>1. IsFiniteSet({x}) /\ Cardinality({x}) = 1
  BY FS_Singleton
<1>2. IsFiniteSet({x} \cup {y}) /\ Cardinality({x} \cup {y}) = 1 + 1
  BY <1>1, FS_AddElement
<1>. QED
  BY <1>2, FS_AddElement

LEMMA SeparatorsOf ==
    ASSUME NEW t \in Seq(Word)
    PROVE  Cardinality({i \in DOMAIN TenantTopic(t) : TenantTopic(t)[i] = "/"}) = 3
<1>. DEFINE n == Len(t)
            topic == TenantTopic(t)
<1>1. /\ n \in Nat /\ DOMAIN topic = 1 .. n + 6
      /\ topic[1] # "/" /\ topic[2] = "/" /\ topic[n + 3] = "/"
      /\ topic[n + 4] # "/" /\ topic[n + 5] = "/" /\ topic[n + 6] # "/"
      /\ \A i \in 3 .. n + 2 : topic[i] # "/"
  BY TopicParts, CharsAssumption
<1>. HIDE DEF n, topic
<1>2. {i \in DOMAIN topic : topic[i] = "/"} = ({2} \cup {n + 3}) \cup {n + 5}
  BY <1>1
<1>. DEFINE x == 2
            y == n + 3
            z == n + 5
<1>3. x # y /\ x # z /\ y # z
  BY <1>1
<1>. HIDE DEF x, y, z
<1>4. Cardinality(({x} \cup {y}) \cup {z}) = 3
  BY <1>3, CardinalityOfThree
<1>. QED
  BY <1>2, <1>4 DEF topic, x, y, z

LEMMA FirstTwo ==
    ASSUME NEW S, NEW s \in Seq(S), Len(s) >= 2
    PROVE  IsPrefix(<<s[1], s[2]>>, s)
<1>. DEFINE p == <<s[1], s[2]>>
            two == Len(p)
<1>1. two = 2 /\ p \in Seq(S) /\ two <= Len(s)
  OBVIOUS
<1>2. SubSeq(s, 1, two) = p
  <2>1. SubSeq(s, 1, two) = [k \in 1 .. two |-> s[k]]
    BY <1>1
  <2>2. [k \in 1 .. two |-> s[k]] = p
    BY <1>1
  <2>. QED
    BY <2>1, <2>2
<1>. HIDE DEF p
<1>3. SubSeq(p, 1, two) = p
  BY <1>1
<1>. QED
  BY <1>1, <1>2, <1>3 DEF IsPrefix, p

LEMMA ReversedPair == \A a, b : Reverse(<<a, b>>) = <<b, a>>
<1>. TAKE a, b
<1>. DEFINE p == <<a, b>>
<1>1. Len(p) = 2 /\ p[1] = a /\ p[2] = b
  OBVIOUS
<1>2. Reverse(p) = [i \in 1 .. 2 |-> p[(2 - i) + 1]]
  BY <1>1 DEF Reverse
<1>. HIDE DEF p
<1>3. /\ Reverse(p) \in Seq({a, b}) /\ Len(Reverse(p)) = 2
      /\ Reverse(p)[1] = b /\ Reverse(p)[2] = a
  BY <1>1, <1>2
<1>. QED
  BY <1>3 DEF p

\* The client takes the topic of a word, whatever its length, for a tenant's.
LEMMA WordTopicIsValid ==
    ASSUME NEW t \in Seq(Word)
    PROVE  ValidateTopic(TenantTopic(t))
<1>. DEFINE n == Len(t)
            topic == TenantTopic(t)
            C == Word \cup {"tenant", "/", "device", "data"}
<1>1. /\ topic \in Seq(C) /\ n \in Nat /\ Len(topic) = n + 6
      /\ topic[1] = "tenant" /\ topic[2] = "/"
      /\ topic[n + 3] = "/" /\ topic[n + 4] = "device"
      /\ topic[n + 5] = "/" /\ topic[n + 6] = "data"
  BY TopicParts
<1>2. Cardinality({i \in DOMAIN topic : topic[i] = "/"}) = 3
  BY SeparatorsOf
<1>. HIDE DEF n, topic, C
<1>3. topic # NoTopic
  BY <1>1 DEF NoTopic
<1>4. \E i \in 2 .. Len(topic) - 1 :
        topic[i - 1] = "/" /\ topic[i] = "device" /\ topic[i + 1] = "/"
  <2>1. n + 4 \in 2 .. Len(topic) - 1 /\ (n + 4) - 1 = n + 3 /\ (n + 4) + 1 = n + 5
    BY <1>1
  <2>. QED
    BY <1>1, <2>1
<1>5. IsSuffix(<<"/", "data">>, topic)
  <2>. DEFINE back == Reverse(topic)
  <2>1. /\ back \in Seq(C) /\ Len(back) = n + 6
        /\ back[1] = "data" /\ back[2] = "/"
    BY <1>1 DEF Reverse
  <2>. HIDE DEF back
  <2>2. Len(back) >= 2
    BY <1>1, <2>1
  <2>3. IsPrefix(<<back[1], back[2]>>, back)
    BY <2>1, <2>2, FirstTwo
  <2>. QED
    BY <2>1, <2>3, ReversedPair DEF IsSuffix, back
<1>6. IsPrefix(<<"tenant", "/">>, topic)
  <2>1. IsPrefix(<<topic[1], topic[2]>>, topic)
    BY <1>1, FirstTwo
  <2>. QED
    BY <1>1, <2>1
<1>. QED
  BY <1>2, <1>3, <1>4, <1>5, <1>6 DEF ValidateTopic, topic

\* No character of it is a wildcard.
LEMMA WordTopicIsPlain ==
    ASSUME NEW t \in Seq(Word)
    PROVE  {"+", "#"} \cap Range(TenantTopic(t)) = {}
<1>. DEFINE n == Len(t)
            topic == TenantTopic(t)
<1>1. topic \in Seq(Word \cup {"tenant", "/", "device", "data"})
  BY TopicParts
<1>. HIDE DEF topic
<1>2. \A i \in DOMAIN topic : topic[i] \in Word \cup {"tenant", "/", "device", "data"}
  BY <1>1
<1>. QED
  BY <1>2, CharsAssumption DEF Range, topic

-----------------------------------------------------------------------------
(* The theorems.                                                           *)

HostSpec == HostInit /\ [][HostNext]_host

LEMMA HostIsString == HostSpec => [](host \in Seq(Alphabet))
<1>1. HostInit => host \in Seq(Alphabet)
  BY DEF HostInit
<1>2. host \in Seq(Alphabet) /\ [HostNext]_host => (host \in Seq(Alphabet))'
  BY DEF HostNext, WriteHost
<1>. QED
  BY <1>1, <1>2, PTL DEF HostSpec

\* Whatever the characters are: a host that the endpoint for other devices
\* accepts gives the others the same tenant.
LEMMA AcceptedAgree ==
    ASSUME NEW S, host \in Seq(S) PROVE EndpointsAgree
<1>. DEFINE t == ExtractTenantFromSubdomain(host)
<1>1. t \in Seq(S)
  BY CutAtType DEF ExtractTenantFromSubdomain, NoTenant
<1>. SUFFICES ASSUME ApiTenant(host) # NoTenant
              PROVE  SanitizeTenantID(t) = ApiTenant(host)
  BY DEF EndpointsAgree, LoRaWANTenant, HttpTenant
<1>2. ValidFormat(t) /\ ApiTenant(host) = t
  BY DEF ApiTenant
<1>. HIDE DEF t
<1>3. t \in Seq(Word)
  BY <1>1, <1>2 DEF ValidFormat, Range
<1>. QED
  BY <1>2, <1>3, WordsAreKept

LEMMA LaterIsIgnored ==
    ASSUME NEW S, NEW h \in Seq(S), NEW c \in S, {".", ":"} \cap Range(h) # {}
    PROVE  ExtractTenantFromSubdomain(Append(h, c)) = ExtractTenantFromSubdomain(h)
<1>1. CASE ":" \in Range(h)
  BY <1>1, CutAtAppend DEF ExtractTenantFromSubdomain
<1>2. CASE ":" \notin Range(h)
  <2>1. "." \in Range(h) /\ CutAt(h, ":") = h
    BY <1>2, CutAtNothing
  <2>2. CASE c = ":"
    BY <1>2, <2>1, <2>2, CutAtEnd DEF ExtractTenantFromSubdomain
  <2>3. CASE c # ":"
    <3>1. ":" \notin Range(Append(h, c)) /\ "." \in Range(Append(h, c))
      BY <1>2, <2>1, <2>3, RangeAppend
    <3>2. CutAt(Append(h, c), ":") = Append(h, c)
      <4>. Append(h, c) \in Seq(S)
        OBVIOUS
      <4>. QED
        BY <3>1, CutAtNothing
    <3>3. CutAt(Append(h, c), ".") = CutAt(h, ".")
      BY <2>1, CutAtAppend
    <3>. QED
      BY <2>1, <3>1, <3>2, <3>3 DEF ExtractTenantFromSubdomain
  <2>. QED
    BY <2>2, <2>3
<1>. QED
  BY <1>1, <1>2

\* The endpoints, each with tenant code of its own, take a host for one tenant.
THEOREM EndpointsNameOneTenant == HostSpec => []EndpointsAgree
<1>1. host \in Seq(Alphabet) => EndpointsAgree
  BY AcceptedAgree
<1>. QED
  BY <1>1, HostIsString, PTL

\* No host makes an endpoint accept a tenant whose topic the client refuses.
THEOREM AcceptedArePublishable == HostSpec => []AcceptedTenantIsPublishable
<1>1. host \in Seq(Alphabet) => AcceptedTenantIsPublishable
  BY AcceptedIsWord, WordTopicIsValid, WordTopicIsPlain DEF AcceptedTenantIsPublishable
<1>. QED
  BY <1>1, HostIsString, PTL

\* No endpoint looks behind the first dot, or at a port.
THEOREM TenantIsFirstLabel == HostSpec => OnlyTheFirstLabelCounts
<1>. DEFINE A == {".", ":"} \cap Range(host) # {} =>
                   /\ LoRaWANTenant(host') = LoRaWANTenant(host)
                   /\ ApiTenant(host') = ApiTenant(host)
<1>1. host \in Seq(Alphabet) /\ [HostNext]_host => [A]_host
  <2>. SUFFICES ASSUME host \in Seq(Alphabet), HostNext,
                       {".", ":"} \cap Range(host) # {}
                PROVE  ExtractTenantFromSubdomain(host') =
                         ExtractTenantFromSubdomain(host)
    BY DEF LoRaWANTenant, ApiTenant
  <2>. QED
    BY LaterIsIgnored DEF HostNext, WriteHost
<1>. QED
  BY <1>1, HostIsString, PTL DEF HostSpec, OnlyTheFirstLabelCounts

=============================================================================
