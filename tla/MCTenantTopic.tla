--------------------------- MODULE MCTenantTopic ---------------------------
(***************************************************************************)
(* The tenants and topics of every host name up to MaxHostLen characters:  *)
(* a host is written from left to right, one character a step.             *)
(***************************************************************************)
EXTENDS TenantTopic

CONSTANT MaxHostLen     \* bound

VARIABLE host

MCWord     == {"a", "b", "-"}
MCStripped == {"+"}
Alphabet   == MCWord \cup MCStripped \cup {"!", ".", ":"}

WriteHost(c) == Len(host) < MaxHostLen /\ host' = Append(host, c)

HostInit == host = <<>>
HostNext == \E c \in Alphabet : WriteHost(c)

-----------------------------------------------------------------------------
\* Whatever a handler accepts, the MQTT client agrees to publish, under a topic
\* with no wildcard in it: the tenant check of one component (base/handler.go:170,
\* non-lorawan/handler.go:140) and the topic check of another (client.go:143)
\* never leave a message accepted and unpublishable.
AcceptedTenantIsPublishable ==
    \A t \in {LoRaWANTenant(host), HttpTenant(host), ApiTenant(host)} \ {NoTenant} :
        /\ ValidateTopic(TenantTopic(t))
        /\ {"+", "#"} \cap Range(TenantTopic(t)) = {}

\* The endpoints have tenant code of their own; a host all accept names one
\* tenant, so that a tenant's devices of either kind share its topic.
EndpointsAgree ==
    ApiTenant(host) # NoTenant =>
        ApiTenant(host) = LoRaWANTenant(host) /\ ApiTenant(host) = HttpTenant(host)

\* The tenant is the first label: nothing that follows the first dot, and
\* nothing that follows the colon of a port, changes what it is.
OnlyTheFirstLabelCounts ==
    [][{".", ":"} \cap Range(host) # {} =>
         /\ LoRaWANTenant(host') = LoRaWANTenant(host)
         /\ ApiTenant(host') = ApiTenant(host)]_host

=============================================================================
