---------------------------- MODULE TenantTopic ----------------------------
(***************************************************************************)
(* From the Host header of a request to the MQTT topic its message is      *)
(* published under, and the check the MQTT client makes of a topic before  *)
(* it publishes.                                                           *)
(*                                                                         *)
(* Host names, tenants and topics are sequences of characters, a fixed     *)
(* word of a topic ("tenant", "device", "data") one of them.  They matter  *)
(* only by what the code does with them: a word character is kept, a       *)
(* stripped one is removed, any other is refused; "/" parts a topic.       *)
(***************************************************************************)
EXTENDS Naturals, Sequences, SequencesExt, FiniteSets

CONSTANTS
    Word,           \* letters, digits, "-" and "_"
    Stripped,       \* wildcards, separators and blanks that sanitizing removes
    MaxTenantLen    \* 64 in the code

ASSUME CharsAssumption ==
    /\ {".", ":"} \cap (Word \cup Stripped) = {}
    /\ Word \cap Stripped = {}
    /\ {"/", "+", "#"} \cap Word = {}

ASSUME MaxTenantLenAssumption == MaxTenantLen \in Nat \ {0}

NoTenant == <<>>

-----------------------------------------------------------------------------
(* The tenant a host names.                                                *)

\* s up to the first c, the whole of s when it holds no c.
CutAt(s, c) ==
    SubSeq(s, 1, (CHOOSE i \in 1 .. Len(s) + 1 :
                    /\ i \in DOMAIN s => s[i] = c
                    /\ \A j \in 1 .. i - 1 : s[j] # c) - 1)

\* Mutant: the dot is looked for before the port is cut off.
ExtractTenantFromSubdomain_PortLast(host) ==
    IF "." \in Range(host) THEN CutAt(CutAt(host, ":"), ".") ELSE NoTenant

ExtractTenantFromSubdomain(host) ==
    LET name == CutAt(host, ":")
    IN  IF "." \in Range(name) THEN CutAt(name, ".") ELSE NoTenant

ValidFormat(t) == Len(t) \in 1 .. MaxTenantLen /\ Range(t) \subseteq Word

\* The label holds no dot, so the two rules that remove ".." and "../" find
\* nothing that the rule for "/" does not.
SanitizeTenantID(t) ==
    LET kept[n \in 0 .. Len(t)] ==
            IF n = 0 THEN <<>>
            ELSE IF t[n] \in Stripped THEN kept[n - 1]
            ELSE Append(kept[n - 1], t[n])
        all == kept[Len(t)]
    IN  IF ValidFormat(all) THEN all ELSE NoTenant

\* The webhook endpoints strip, then validate.
LoRaWANTenant(host) == SanitizeTenantID(ExtractTenantFromSubdomain(host))

\* The generic handler has code of its own to the same effect.
HttpTenant(host) == SanitizeTenantID(ExtractTenantFromSubdomain(host))

\* Mutant: the pattern is not anchored.
ApiTenant_Unanchored(host) ==
    LET t == ExtractTenantFromSubdomain(host)
    IN  IF Range(t) \cap Word # {} THEN t ELSE NoTenant

\* The endpoint for other devices only validates.  A Host header holds no
\* blank by the time a handler sees it, so trimming removes nothing.
ApiTenant(host) ==
    LET t == ExtractTenantFromSubdomain(host)
    IN  IF ValidFormat(t) THEN t ELSE NoTenant

-----------------------------------------------------------------------------
(* The topic of a tenant.                                                  *)

\* Mutant: the form a comment at device_service.go:169 gives.
TenantTopic_ThreeParts(t) == t \o <<"/", "device", "/", "data">>

TenantTopic(t) == <<"tenant", "/">> \o t \o <<"/", "device", "/", "data">>

NoTopic == <<>>

\* Four parts are three separators.
ValidateTopic(topic) ==
    /\ topic # NoTopic
    /\ \E i \in 2 .. Len(topic) - 1 :
            topic[i - 1] = "/" /\ topic[i] = "device" /\ topic[i + 1] = "/"
    /\ IsSuffix(<<"/", "data">>, topic)
    /\ IsPrefix(<<"tenant", "/">>, topic)
    /\ Cardinality({i \in DOMAIN topic : topic[i] = "/"}) = 3

=============================================================================
