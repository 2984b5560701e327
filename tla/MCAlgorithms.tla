---------------------------- MODULE MCAlgorithms ----------------------------
(* What the service makes of a request: its tenant from its host, and its   *)
(* device profile from the rest.  The two share nothing: a behaviour is     *)
(* either about a host or about detection.                                  *)
EXTENDS MCTenantTopic, Detection

CONSTANTS g1, g2

VARIABLE part

A == <<"a">>

HeaderProfile(priority, headers) ==
    [method |-> "header", priority |-> priority, headers |-> headers]
PathProfile(pattern) == [method |-> "path", pattern |-> pattern]

\* Two header profiles of one priority, which no request matches both, and one
\* of a higher; an exact pattern and a wildcard; a payload with a part under its
\* own name and one under another; a required rule and an optional one.
MCProfiles ==
    {HeaderProfile(1, "X" :> A),
     HeaderProfile(1, "X" :> <<>>),
     HeaderProfile(2, "X" :> A @@ "Y" :> <<>>),
     PathProfile(A), PathProfile(<<"*">>),
     [method |-> "payload", priority |-> 1, make |-> "any",
      fields |-> "device_id" :> "device_id" @@ "device_name" :> "name"],
     [method |-> "rules", priority |-> 1, rules |->
        {[type |-> "header", operator |-> "exists", field |-> "X",
          required |-> TRUE],
         [type |-> "path", operator |-> "equals", value |-> <<>>,
          required |-> FALSE]}]}

MCQueries ==
    {[path |-> A, headers |-> "X" :> A, body |-> "object",
      fields |-> "device_id" :> A @@ "device_name" :> A],
     [path |-> <<"b">>, headers |-> <<>>, body |-> "object",
      fields |-> "device_name" :> A]}

MCGoroutines == {g1, g2}
MCMaxProfiles == [d \in Slices |-> IF d = "header" THEN 3 ELSE 1]
MCOrders == {<<"path", "header">>, <<"payload", "rules", "path">>}

Symmetry == Permutations(MCGoroutines)

MCInit == HostInit /\ Init /\ part \in {"host", "detection"}
MCNext == /\ \/ part = "host" /\ HostNext /\ UNCHANGED vars
             \/ part = "detection" /\ Next /\ UNCHANGED host
          /\ UNCHANGED part
MCSpec == MCInit /\ [][MCNext]_<<host, part, vars>>

=============================================================================
