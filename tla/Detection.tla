----------------------------- MODULE Detection -----------------------------
(***************************************************************************)
(* Which device profile a request gets: the four detectors, the registry   *)
(* that tries them, and the generic parser that a detected message goes    *)
(* to.                                                                     *)
(*                                                                         *)
(* Profiles and detectors are registered while no request is looked at.    *)
(* Every request has a goroutine of its own, and three of the detectors    *)
(* sort the slice they share, in place and without a lock, at each call.   *)
(* sort.Slice sorts up to twelve elements by insertion, with swaps; a swap *)
(* loads two elements and stores them one after the other.                 *)
(***************************************************************************)
EXTENDS Integers, SequencesExt, TLC

CONSTANTS
    Profiles,       \* the profiles that may be registered
    Queries,        \* the HTTP requests
    Goroutines,     \* that look at one request each
    Orders,         \* orders in which detectors may be registered
    MaxProfiles     \* of each detector that sorts

Slices    == {"header", "payload", "rules"}
Detectors == Slices \cup {"path"}
NoProfile == [method |-> "none"]
NoQuery   == [path |-> <<>>]

ASSUME DetectionAssumption ==
    /\ Orders \subseteq Seq(Detectors)
    /\ NoProfile \notin Profiles /\ NoQuery \notin Queries
    /\ \A q \in Queries : q.path \in Seq(Range(q.path))
    /\ \A p \in Profiles : p.method \in Slices => p.priority \in Int
    /\ MaxProfiles \in [Slices -> 0 .. 12]

VARIABLES
    detectors,      \* in the order of their registration
    default,        \* the default profile, or NoProfile
    slice,          \* the profiles of the three detectors that sort
    patterns,       \* the path detector's, by pattern
    query,          \* of a goroutine: its request
    pc,             \* where it is
    loop,           \* the detector it asks, and the indices of its loops
    held,           \* the two elements it swaps
    result,         \* the profile it returns, or NoProfile
    overlapped      \* two detections have met over a slice out of order

registry == <<detectors, default, patterns>>
vars     == <<registry, slice, query, pc, loop, held, result, overlapped>>

-----------------------------------------------------------------------------
(* Does a profile match a request?                                         *)

\* The lengths of the prefixes of the path that a pattern can match, and with
\* it and one character more; "*" stands for any characters.
Extend(path, ends, c) ==
    IF c = "*" THEN {e \in 0 .. Len(path) : \E b \in ends : b <= e}
    ELSE {e \in 1 .. Len(path) : e - 1 \in ends /\ path[e] = c}

MatchesPattern(path, pattern) ==
    LET ends[n \in 0 .. Len(pattern)] ==
            IF n = 0 THEN {0} ELSE Extend(path, ends[n - 1], pattern[n])
    IN  Len(path) \in ends[Len(pattern)]

\* A header that the request does not have is the empty string.
Header(q, name) == IF name \in DOMAIN q.headers THEN q.headers[name] ELSE <<>>

\* A profile with one header is one with a map of one.
MatchesHeaders(q, p) ==
    \A name \in DOMAIN p.headers : Header(q, name) = p.headers[name]

\* Mutant: one of the fields is enough.
MatchesPayload_AnyField(q, p) ==
    /\ q.body = "object"
    /\ IF p.make = "chirpstack" THEN "event" \in DOMAIN q.fields
       ELSE DOMAIN p.fields \cap DOMAIN q.fields # {}

\* A profile's fields map the names of the message's parts to keys of the
\* body; the names are what the detector looks for there.
MatchesPayload(q, p) ==
    /\ q.body = "object"
    /\ IF p.make = "chirpstack" THEN "event" \in DOMAIN q.fields
       ELSE DOMAIN p.fields \subseteq DOMAIN q.fields

HasPart(s, part) ==
    \E n \in 0 .. Len(s) - Len(part) :
        SubSeq(s, n + 1, n + Len(part)) = part

\* A rule's regex is the set of the strings it matches.
MatchesText(s, rule) ==
    \/ rule.operator = "equals" /\ s = rule.value
    \/ rule.operator = "contains" /\ HasPart(s, rule.value)
    \/ rule.operator = "regex" /\ s \in rule.value

MatchesRule(q, rule) ==
    \/ /\ rule.type = "header"
       /\ \/ MatchesText(Header(q, rule.field), rule)
          \/ rule.operator = "exists" /\ Header(q, rule.field) # <<>>
    \/ rule.type = "path" /\ MatchesText(q.path, rule)
    \/ /\ rule.type = "payload"
       /\ q.body = "object" /\ rule.field \in DOMAIN q.fields
       /\ \/ rule.operator = "exists"
          \/ /\ rule.operator \in {"equals", "contains"}
             /\ MatchesText(q.fields[rule.field], rule)

\* Only the rules that are required count.
MatchesRules(q, p) == \A rule \in p.rules : rule.required => MatchesRule(q, rule)

Matches(d, q, p) ==
    CASE d = "path"    -> MatchesPattern(q.path, p.pattern)
      [] d = "header"  -> MatchesHeaders(q, p)
      [] d = "payload" -> q.body # "empty" /\ MatchesPayload(q, p)
      [] d = "rules"   -> MatchesRules(q, p)

-----------------------------------------------------------------------------
(* The generic parser.                                                     *)

\* A key the body does not have, and no key at all, give the empty string.
ExtractField(q, key) ==
    IF key # "" /\ key \in DOMAIN q.fields THEN q.fields[key] ELSE <<>>

ParseError == [error |-> "no JSON object"]

\* The message, its parts looked up by the keys that the profile maps them to.
Parse(q, p) ==
    LET Key(name)     == IF name \in DOMAIN p.fields THEN p.fields[name] ELSE ""
        Extract(name) == ExtractField(q, Key(name))
    IN  IF q.body # "object" THEN ParseError
        ELSE [device_id    |-> Extract("device_id"),
              device_name  |-> Extract("device_name"),
              message_type |-> IF Extract("message_type") = <<>> THEN <<"data">>
                               ELSE Extract("message_type")]

-----------------------------------------------------------------------------
(* Registration.                                                           *)

Idle == [detector |-> 1, i |-> 0, j |-> 0]

Init ==
    /\ detectors = <<>> /\ default = NoProfile
    /\ slice = [d \in Slices |-> <<>>] /\ patterns = <<>>
    /\ query = [g \in Goroutines |-> NoQuery]
    /\ pc = [g \in Goroutines |-> "idle"]
    /\ loop = [g \in Goroutines |-> Idle]
    /\ held = [g \in Goroutines |-> <<>>]
    /\ result = [g \in Goroutines |-> NoProfile]
    /\ overlapped = FALSE

Quiet == \A g \in Goroutines : pc[g] = "idle"

RegisterDetector(d) ==
    /\ Quiet
    /\ detectors' = Append(detectors, d)
    /\ \E o \in Orders : IsPrefix(detectors', o)
    /\ UNCHANGED <<default, patterns, slice, query, pc, loop, held, result,
                   overlapped>>

SetDefaultProfile(p) ==
    /\ Quiet
    /\ default' = p
    /\ UNCHANGED <<detectors, patterns, slice, query, pc, loop, held, result,
                   overlapped>>

\* A profile is for the detector of its method; the later of two with one
\* pattern replaces the earlier.  MaxProfiles bounds the model, not the code.
RegisterProfile(p) ==
    /\ Quiet
    /\ \/ /\ p.method = "path"
          /\ patterns' = [t \in DOMAIN patterns \cup {p.pattern} |->
                            IF t = p.pattern THEN p ELSE patterns[t]]
          /\ UNCHANGED slice
       \/ /\ p.method \in Slices
          /\ Len(slice[p.method]) < MaxProfiles[p.method]
          /\ slice' = [slice EXCEPT ![p.method] = Append(@, p)]
          /\ UNCHANGED patterns
    /\ UNCHANGED <<detectors, default, query, pc, loop, held, result,
                   overlapped>>

-----------------------------------------------------------------------------
(* Detection.                                                              *)

\* Mutant: lower priorities first.
Before_Ascending(p, r) == p.priority < r.priority

\* Mutant: equal ones change places.
Before_OrEqual(p, r) == p.priority >= r.priority

\* The less function of the sort.
Before(p, r) == p.priority > r.priority

\* Every slice is in order and no swap is under way.
Sorted ==
    /\ \A d \in Slices : \A n \in 2 .. Len(slice[d]) :
         slice[d][n].priority <= slice[d][n - 1].priority
    /\ \A g \in Goroutines : held[g] = <<>>

Begin(g, q) ==
    /\ pc[g] = "idle"
    /\ query' = [query EXCEPT ![g] = q]
    /\ pc' = [pc EXCEPT ![g] = "ask"]
    /\ overlapped' = (overlapped \/ ~(Quiet \/ Sorted))
    /\ UNCHANGED <<registry, slice, loop, held, result>>

Detector(g) == detectors[loop[g].detector]

Return(g, p) ==
    /\ result' = [result EXCEPT ![g] = p]
    /\ pc' = [pc EXCEPT ![g] = "done"]
    /\ UNCHANGED loop

NextDetector(g) ==
    /\ loop' = [loop EXCEPT ![g].detector = @ + 1]
    /\ pc' = [pc EXCEPT ![g] = "ask"]
    /\ UNCHANGED result

\* No detector is left.
AskNobody(g) ==
    /\ pc[g] = "ask" /\ loop[g].detector > Len(detectors)
    /\ Return(g, default)
    /\ UNCHANGED <<registry, slice, query, held, overlapped>>

\* An exact pattern first, then any that matches: the map has no order.
AskPath(g) ==
    /\ pc[g] = "ask" /\ loop[g].detector \in DOMAIN detectors
    /\ Detector(g) = "path"
    /\ LET path  == query[g].path
           wild  == {t \in DOMAIN patterns : MatchesPattern(path, t)}
           found == IF path \in DOMAIN patterns THEN {path} ELSE wild
       IN  \/ \E t \in found : Return(g, patterns[t])
           \/ found = {} /\ NextDetector(g)
    /\ UNCHANGED <<registry, slice, query, held, overlapped>>

AskSlice(g) ==
    /\ pc[g] = "ask" /\ loop[g].detector \in DOMAIN detectors
    /\ Detector(g) \in Slices
    /\ IF Detector(g) = "payload" /\ query[g].body = "empty"
       THEN NextDetector(g)
       ELSE /\ loop' = [loop EXCEPT ![g].i = 2, ![g].j = 2]
            /\ pc' = [pc EXCEPT ![g] = "sort"]
            /\ UNCHANGED result
    /\ UNCHANGED <<registry, slice, query, held, overlapped>>

Sort(g) ==
    /\ pc[g] = "sort"
    /\ LET s == slice[Detector(g)]
           i == loop[g].i
           j == loop[g].j
       IN  IF i > Len(s)
           THEN /\ loop' = [loop EXCEPT ![g].i = 1, ![g].j = 0]
                /\ pc' = [pc EXCEPT ![g] = "scan"]
                /\ UNCHANGED held
           ELSE IF j > 1 /\ Before(s[j], s[j - 1])
           THEN /\ held' = [held EXCEPT ![g] = <<s[j - 1], s[j]>>]
                /\ pc' = [pc EXCEPT ![g] = "store"]
                /\ UNCHANGED loop
           ELSE /\ loop' = [loop EXCEPT ![g].i = i + 1, ![g].j = i + 1]
                /\ UNCHANGED <<pc, held>>
    /\ UNCHANGED <<registry, slice, query, result, overlapped>>

\* The two stores of a swap.
StoreUpper(g) ==
    /\ pc[g] = "store" /\ Len(held[g]) = 2
    /\ slice' = [slice EXCEPT ![Detector(g)][loop[g].j] = held[g][1]]
    /\ held' = [held EXCEPT ![g] = Tail(@)]
    /\ UNCHANGED <<registry, query, pc, loop, result, overlapped>>

StoreLower(g) ==
    /\ pc[g] = "store" /\ Len(held[g]) = 1
    /\ slice' = [slice EXCEPT ![Detector(g)][loop[g].j - 1] = held[g][1]]
    /\ held' = [held EXCEPT ![g] = <<>>]
    /\ loop' = [loop EXCEPT ![g].j = @ - 1]
    /\ pc' = [pc EXCEPT ![g] = "sort"]
    /\ UNCHANGED <<registry, query, result, overlapped>>

\* Mutant: the profile is read again after it was found to match.
Scan_ReadsTwice(g) ==
    /\ pc[g] = "scan"
    /\ LET s == slice[Detector(g)]
           i == loop[g].i
       IN  IF loop[g].j = 1 THEN Return(g, s[i])
           ELSE IF i > Len(s) THEN NextDetector(g)
           ELSE /\ loop' = IF Matches(Detector(g), query[g], s[i])
                           THEN [loop EXCEPT ![g].j = 1]
                           ELSE [loop EXCEPT ![g].i = i + 1]
                /\ UNCHANGED <<pc, result>>
    /\ UNCHANGED <<registry, slice, query, held, overlapped>>

Scan(g) ==
    /\ pc[g] = "scan"
    /\ LET s == slice[Detector(g)]
           i == loop[g].i
       IN  IF i > Len(s) THEN NextDetector(g)
           ELSE IF Matches(Detector(g), query[g], s[i]) THEN Return(g, s[i])
           ELSE loop' = [loop EXCEPT ![g].i = i + 1] /\ UNCHANGED <<pc, result>>
    /\ UNCHANGED <<registry, slice, query, held, overlapped>>

\* The request is answered.
End(g) ==
    /\ pc[g] = "done"
    /\ query' = [query EXCEPT ![g] = NoQuery]
    /\ pc' = [pc EXCEPT ![g] = "idle"]
    /\ loop' = [loop EXCEPT ![g] = Idle]
    /\ result' = [result EXCEPT ![g] = NoProfile]
    /\ UNCHANGED <<registry, slice, held, overlapped>>

-----------------------------------------------------------------------------
Next ==
    \/ \E d \in Detectors : RegisterDetector(d)
    \/ \E p \in Profiles : RegisterProfile(p) \/ SetDefaultProfile(p)
    \/ \E g \in Goroutines :
         \/ \E q \in Queries : Begin(g, q)
         \/ AskNobody(g) \/ AskPath(g) \/ AskSlice(g)
         \/ Sort(g) \/ StoreUpper(g) \/ StoreLower(g)
         \/ Scan(g) \/ End(g)

Spec == Init /\ [][Next]_vars

-----------------------------------------------------------------------------
(* Properties.                                                             *)

Candidates(d, q) ==
    {p \in IF d = "path" THEN Range(patterns) ELSE Range(slice[d]) :
        Matches(d, q, p)}

\* A detection gives the best profile of the first registered detector that
\* has one: an exact path before a wildcard, otherwise the highest priority;
\* and the default when no detector has any.  It does so with other
\* detections beside it, unless two have met over a slice that was still out
\* of order (device.go:28, "Higher priority checked first").
BestOfFirstDetector ==
    \A g \in Goroutines : pc[g] = "done" /\ ~overlapped =>
        LET p == result[g]
            q == query[g]
            C(n) == Candidates(detectors[n], q)
        IN  \/ /\ p = default
               /\ \A n \in DOMAIN detectors : C(n) = {}
            \/ \E n \in DOMAIN detectors :
                 /\ \A k \in 1 .. n - 1 : C(k) = {}
                 /\ p \in C(n)
                 /\ IF detectors[n] = "path"
                    THEN q.path \in DOMAIN patterns => p = patterns[q.path]
                    ELSE \A r \in C(n) : r.priority <= p.priority

\* Whatever the detections beside it write to the slice meanwhile, a detection
\* gives a profile that its request matches, or the default.
AnswersMatch ==
    \A g \in Goroutines : pc[g] = "done" =>
        \/ result[g] = default
        \/ Matches(result[g].method, query[g], result[g])

\* Once every slice is sorted no detection writes to one or sets out to, so
\* that detections may overlap from then on (the less function is strict).
SortedStays ==
    [][Sorted /\ ~Quiet => UNCHANGED <<slice, held>>]_vars

\* The payload detector and the generic parser read a profile's fields in ways
\* of their own, the one the names and the other the keys (detector.go:196,
\* parser.go:124).  They agree on a part whose name is its key: of a body the
\* detector has accepted the parser takes that part.  A part under any other
\* key may be missing from the message.
SelfNamedPartsAreFound ==
    \A g \in Goroutines :
        /\ pc[g] = "done" /\ result[g] # default
        /\ result[g].method = "payload" /\ result[g].make # "chirpstack"
        => LET q == query[g]
               p == result[g]
           IN  \A name \in DOMAIN p.fields \cap {"device_id", "device_name"} :
                 p.fields[name] = name =>
                    /\ name \in DOMAIN q.fields
                    /\ Parse(q, p)[name] = q.fields[name]

=============================================================================
