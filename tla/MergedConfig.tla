---------------------------- MODULE MergedConfig ----------------------------
(***************************************************************************)
(* The config that the panel renders for one node from all chains that     *)
(* pass through it (chain/merged_config.go, chain/awg_tun_overlay.go,      *)
(* chain/awg_deploy.go), and what sing-box does with a connection under    *)
(* it.                                                                     *)
(*                                                                         *)
(* A chain is a record                                                     *)
(*   name, proto     "vless" or "awg" (a kernel interface awg0)            *)
(*   transport       "xhttp" (Reality is built alike) or "awg"             *)
(*   port            of the inbound that is placed on its entries          *)
(*   levels          the nodes of every level, level 1 the entries         *)
(*   key             node -> generations of its transit key, of its AWG    *)
(*                   server key and of its AWG client key, 0 for none      *)
(* with every node on one level.  Of a config, what decides where a        *)
(* connection goes is kept: the tags and credentials of the inbounds, the  *)
(* outbounds in their order, the AWG endpoints, the chain whose users are  *)
(* the peers of awg0, and the route rules.  Outbounds "direct" and         *)
(* "direct-out" are one.  Presets, TLS, DNS, MTProxy, manual rules, exit   *)
(* balancers, AWG 3.0 entries and standalone inbounds other than AWG are   *)
(* left out.                                                               *)
(***************************************************************************)
EXTENDS Naturals, Sequences, SequencesExt

CONSTANTS
    Nodes,
    Users,
    AWGNodes,       \* nodes on which a kernel AWG inbound is placed
    TransitPort,    \* defaultTransportPort
    NoNode, NoChain \* model values

-----------------------------------------------------------------------------
(* Positions in a chain.                                                   *)

AllNodes(c) == FlattenSeq(c.levels)

ChainNodes(c) == ToSet(AllNodes(c))

LevelIndexOf(c, n) == CHOOSE l \in DOMAIN c.levels : n \in ToSet(c.levels[l])

NodeIndex(c, n) == CHOOSE i \in DOMAIN AllNodes(c) : AllNodes(c)[i] = n

LastLevel(c) == ToSet(c.levels[Len(c.levels)])

IsEntry(c, n) == LevelIndexOf(c, n) = 1

HasOutbound(c, n) == LevelIndexOf(c, n) < Len(c.levels)

NextNodes(c, n) == c.levels[LevelIndexOf(c, n) + 1]

IsAWG(c) == c.proto = "awg"

\* The elements of s that are in S, in their order.
InOrder(s, S) == FlattenSeq([i \in DOMAIN s |-> IF s[i] \in S THEN << s[i] >> ELSE <<>>])

GetChainsForNode(cs, n) == InOrder(cs, {c \in ToSet(cs) : n \in ChainNodes(c)})

-----------------------------------------------------------------------------
(* Tags.                                                                   *)

Direct == <<"direct">>
TunIn == <<"tun-in">>
UserIn(c) == <<"user-in", c.name>>
TransportIn(c) == <<"transport-in", c.name>>

TransportOut(c, n, m) ==
    IF Len(NextNodes(c, n)) > 1 \/ c.transport = "awg"
    THEN <<"out", c.name, m>>
    ELSE <<"out", c.name>>

InterNodeOutboundTag(c, n) ==
    IF Len(NextNodes(c, n)) > 1
    THEN <<"group", c.name, LevelIndexOf(c, n) + 1>>
    ELSE TransportOut(c, n, NextNodes(c, n)[1])

-----------------------------------------------------------------------------
(* What one role, node n in chain c, adds to the config.                   *)

\* The credential of the link from n to m.
LinkCred(c, n, m) ==
    IF c.transport = "awg" THEN <<"awg", c.key[m].srv, c.key[n].cli>> ELSE <<"xhttp", c.key[m].tr>>

\* A node without transit keys listens with random ones, here 0.
RoleInbounds(c, n) ==
    IF IsEntry(c, n)
    THEN IF IsAWG(c) THEN {} ELSE {[tag |-> UserIn(c), cred |-> <<>>]}
    ELSE {[tag |-> TransportIn(c), cred |-> LinkCred(c, AllNodes(c)[NodeIndex(c, n) - 1], n)]}

\* No XHTTP outbound can be built to a node without a key; it is left out.
RoleHops(c, n) ==
    LET targets == InOrder(NextNodes(c, n), {m \in Nodes : c.transport = "awg" \/ c.key[m].tr # 0})
    IN  IF ~HasOutbound(c, n) THEN <<>>
        ELSE [i \in DOMAIN targets |->
                 [tag |-> TransportOut(c, n, targets[i]), to |-> targets[i],
                  cred |-> LinkCred(c, n, targets[i]), members |-> {}]]

RoleGroup(c, n) ==
    LET hops == RoleHops(c, n)
    IN  IF Len(hops) <= 1 THEN <<>>
        ELSE << [tag |-> InterNodeOutboundTag(c, n), to |-> NoNode, cred |-> <<>>,
                 members |-> {h.tag : h \in ToSet(hops)}] >>

RoleOutbounds(c, n) ==
    IF c.transport = "awg" THEN <<>> ELSE RoleHops(c, n) \o RoleGroup(c, n)

RoleEndpoints(c, n) ==
    IF c.transport = "awg" THEN ToSet(RoleHops(c, n)) ELSE {}

RolePort(c, n) == IF IsEntry(c, n) THEN c.port ELSE TransitPort

PortConflict(cs, n) ==
    \E i, j \in DOMAIN cs : i < j /\ RolePort(cs[i], n) = RolePort(cs[j], n)

-----------------------------------------------------------------------------
(* The route section.                                                      *)

\* What the pins of a user are matched by, and on which inbound.
PinInbound(c, n) ==
    IF ~IsEntry(c, n) THEN TransportIn(c) ELSE IF IsAWG(c) THEN TunIn ELSE UserIn(c)

PinRules(c, n, pins) ==
    LET rule(us, out) ==
            IF us = {} THEN <<>>
            ELSE << [in |-> PinInbound(c, n), by |-> IF IsAWG(c) THEN "source" ELSE "auth",
                     users |-> us, out |-> out] >>
        below ==
            IF ~HasOutbound(c, n) THEN {}
            ELSE IF IsAWG(c) THEN {m \in ChainNodes(c) : NodeIndex(c, m) > NodeIndex(c, n)}
            ELSE {AllNodes(c)[NodeIndex(c, n) + 1]}
    IN  rule({u \in Users : pins[u][c.name] = n}, Direct)
        \o rule({u \in Users : pins[u][c.name] \in below}, InterNodeOutboundTag(c, n))

\* AWG entries are left to the catch-all of the overlay.
GenericRule(c, n) ==
    IF IsEntry(c, n) /\ IsAWG(c) THEN <<>>
    ELSE << [in |-> IF IsEntry(c, n) THEN UserIn(c) ELSE TransportIn(c), by |-> "any", users |-> Users,
             out |-> IF HasOutbound(c, n) THEN InterNodeOutboundTag(c, n) ELSE Direct] >>

MergedRoute(cs, n, pins) ==
    FlattenSeq([i \in DOMAIN cs |-> PinRules(cs[i], n, pins)])
        \o FlattenSeq([i \in DOMAIN cs |-> GenericRule(cs[i], n)])

AWGEntries(cs, n) == InOrder(cs, {c \in ToSet(cs) : IsEntry(c, n) /\ IsAWG(c)})

TUNOverlayNeeded(cs, n) ==
    n \in AWGNodes \/ AWGEntries(cs, n) # <<>>

ForwardOutbound(cs, n) ==
    LET es == AWGEntries(cs, n)
    IN  IF es # <<>> /\ HasOutbound(es[1], n) THEN InterNodeOutboundTag(es[1], n) ELSE Direct

CatchAll(cs, n) ==
    << [in |-> TunIn, by |-> "any", users |-> Users, out |-> ForwardOutbound(cs, n)] >>

-----------------------------------------------------------------------------
(* The config.                                                             *)

DirectOut == [tag |-> Direct, to |-> NoNode, cred |-> <<>>, members |-> {}]

MinimalConfig ==
    [ins |-> {}, outs |-> <<DirectOut>>, eps |-> {}, awg0 |-> NoChain, routed |-> FALSE, rules |-> <<>>]

\* The chain that the peers in awg0.conf are users of.
AWG0Chain(cs, n) ==
    LET es == AWGEntries(cs, n) IN IF es = <<>> THEN NoChain ELSE es[1].name

\* Defect variant: the catch-all of the overlay comes before the other rules.
MergedNodeConfigCatchAllFirst(cs, n, pins, routeDNS) ==
    [ins    |-> UNION {RoleInbounds(c, n) : c \in ToSet(cs)},
     outs   |-> FlattenSeq([i \in DOMAIN cs |-> RoleOutbounds(cs[i], n)]) \o <<DirectOut>>,
     eps    |-> UNION {RoleEndpoints(c, n) : c \in ToSet(cs)},
     awg0   |-> AWG0Chain(cs, n),
     routed |-> (routeDNS /\ cs # <<>>) \/ TUNOverlayNeeded(cs, n),
     rules  |-> (IF TUNOverlayNeeded(cs, n) THEN CatchAll(cs, n) ELSE <<>>)
                    \o (IF routeDNS /\ cs # <<>> THEN MergedRoute(cs, n, pins) ELSE <<>>)]

\* cs are the chains of node n in the order of the store.
MergedNodeConfig(cs, n, pins, routeDNS) ==
    LET structural == routeDNS /\ cs # <<>>
        overlay == TUNOverlayNeeded(cs, n)
    IN  [ins    |-> UNION {RoleInbounds(c, n) : c \in ToSet(cs)},
         outs   |-> FlattenSeq([i \in DOMAIN cs |-> RoleOutbounds(cs[i], n)]) \o <<DirectOut>>,
         eps    |-> UNION {RoleEndpoints(c, n) : c \in ToSet(cs)},
         awg0   |-> AWG0Chain(cs, n),
         routed |-> structural \/ overlay,
         rules  |-> (IF structural THEN MergedRoute(cs, n, pins) ELSE <<>>)
                        \o (IF overlay THEN CatchAll(cs, n) ELSE <<>>)]

-----------------------------------------------------------------------------
(* sing-box: what it accepts, and where a connection goes.                 *)

Outbounds(cfg) == ToSet(cfg.outs) \cup cfg.eps

\* A rule may not name a missing outbound, an AWG endpoint needs its keys.
Accepted(cfg) ==
    /\ \A r \in ToSet(cfg.rules) : \E o \in Outbounds(cfg) : o.tag = r.out
    /\ \A x \in cfg.eps \cup cfg.ins :
          x.cred # <<>> /\ x.cred[1] = "awg" => x.cred[2] # 0 /\ x.cred[3] # 0

\* The kinds of inbound on which a connection of an AWG user still has the
\* address of the user's peer.  The sources disagree: by merged_config.go it
\* is preserved end to end, by clientconfig.go no hop passes on who the user
\* is, by awg_tun_overlay.go the NAT of the TUN changes it at once.
Survivals == { {"tun-in", "transport-in"}, {"tun-in"}, {} }

\* A rule by source address matches where that address is kept; the identity
\* that auth_user matches is known only on the inbound the user logs in to.
Matches(r, in, u, c, kept) ==
    /\ r.in = in
    /\ \/ r.by = "any"
       \/ r.by = "source" /\ u \in r.users /\ IsAWG(c) /\ in[1] \in kept
       \/ r.by = "auth" /\ u \in r.users /\ in = UserIn(c)

\* The outbound for a connection of user u of chain c: the first rule that
\* matches, then "direct" of a route section, then the first outbound.
Routed(cfg, in, u, c, kept) ==
    LET hit == SelectInSeq(cfg.rules, LAMBDA r : Matches(r, in, u, c, kept))
        tag == IF hit # 0 THEN cfg.rules[hit].out ELSE IF cfg.routed THEN Direct ELSE cfg.outs[1].tag
    IN  CHOOSE o \in Outbounds(cfg) : o.tag = tag

\* A group may pick any of its members.
Targets(cfg, o) ==
    IF o.members = {} THEN {o} ELSE {m \in Outbounds(cfg) : m.tag \in o.members}
=============================================================================
