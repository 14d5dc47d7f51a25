---------------------------- MODULE NodeNetwork ----------------------------
(***************************************************************************)
(* What Ensure builds for a node of type pod, srl, srsim or vm: the        *)
(* networks of the Pod or of the VirtualMachineInstance, its volumes, and  *)
(* the network configuration that a VM starts up with.                     *)
(*                                                                         *)
(* The spec of a Lab is a record: kind (node name to node type), init      *)
(* (InitMethod of the VMs), home (the Lab is in the operator's namespace)  *)
(* and links, a sequence in the order of their names.  A link is a         *)
(* sequence of connectors [node, port, mac, addr]; port 0 is no PortId,    *)
(* addr 0 is no Addrs.  Objects are named <<node, what, slot, number>>.    *)
(***************************************************************************)
EXTENDS Naturals, Sequences, FiniteSets

CONSTANT CPMSlots   \* the CPM slots of an srsim chassis

\* SpokeConnectorMap: the k-th connector of the l-th link has the spoke <<l, k>>.
Connector(spec, s) == spec.links[s[1]][s[2]]

\* SpokeMap: the spokes of a node.
Spokes(spec, n) ==
  {s \in UNION {{l} \X DOMAIN spec.links[l] : l \in DOMAIN spec.links} :
     Connector(spec, s).node = n}

HasAddrs(spec, s) == Connector(spec, s).addr # 0

\* Mutant: i counts within a link.
Number_PerLink(spec, n, s) ==
  Cardinality({r \in Spokes(spec, n) : r[1] = s[1] /\ r[2] <= s[2]})

\* The counter i when the loop over the links, by name, and their spokes is
\* at s.
Number(spec, n, s) ==
  Cardinality({r \in Spokes(spec, n) : r[1] < s[1] \/ (r[1] = s[1] /\ r[2] <= s[2])})

-----------------------------------------------------------------------------
(* Pods: the objects a Pod refers to, and its entries in the Multus        *)
(* annotation, a NAD and an interface name each.  The NADs without         *)
(* addresses are k8slan's ("lan"); a Pod without PortId leaves the name of *)
(* an interface to Multus (0).                                             *)

AddrNad(spec, n, s) == <<n, "nad", "", Number(spec, n, s)>>

PodVolumes(n) == {<<n, "root", "", 0>>}

PodNets(spec, n) ==
  {[nad |-> IF HasAddrs(spec, s) THEN AddrNad(spec, n, s) ELSE <<n, "lan", "", Number(spec, n, s)>>,
    port |-> Connector(spec, s).port] : s \in Spokes(spec, n)}

SrlVolumes(n) == {<<n, "topo", "", 0>>, <<n, "etc", "", 0>>}

\* e1-i without a PortId.
SrlNets(spec, n) ==
  {[nad |-> <<n, "lan", "", Number(spec, n, s)>>,
    port |-> IF Connector(spec, s).port # 0 THEN Connector(spec, s).port ELSE Number(spec, n, s)] :
     s \in Spokes(spec, n)}

SrsimVolumes(n) == {<<n, "cf", c, i>> : c \in CPMSlots, i \in 1..3}

\* e<slot>-1-i without a PortId, on the first line card.
SrsimNets(spec, n) ==
  {[nad |-> <<n, "lan", "", Number(spec, n, s)>>,
    port |-> IF Connector(spec, s).port # 0 THEN Connector(spec, s).port ELSE Number(spec, n, s)] :
     s \in Spokes(spec, n)}

-----------------------------------------------------------------------------
(* Virtual machines *)

VMBaseMAC == 0

\* The pod network and one interface per spoke, with the connector's MAC.
Interfaces(spec, n) ==
  {[spoke |-> <<>>, mac |-> VMBaseMAC]} \cup
  {[spoke |-> s, mac |-> Connector(spec, s).mac] : s \in Spokes(spec, n)}

\* The first connector of the node on a link.
getLinkandConnector(spec, n, l) ==
  CHOOSE s \in Spokes(spec, n) : s[1] = l /\ \A r \in Spokes(spec, n) : r[1] = l => s[2] <= r[2]

\* firstnic, which has its address by DHCP.
getDefCloudinitNetworkCfg == {[mac |-> VMBaseMAC, addr |-> 0]}

AddConnector(c) == [mac |-> c.mac, addr |-> c.addr]

\* For every link of the VM the addresses of its first connector there,
\* matched by MAC.
Nics(spec, n) ==
  LET first == {getLinkandConnector(spec, n, s[1]) : s \in Spokes(spec, n)}
  IN {AddConnector(Connector(spec, s)) : s \in {r \in first : HasAddrs(spec, r)}}

\* MustParseAddr is given the prefixes that Link.Validate asks for.
IgnitionPanics(spec, n) == spec.init = "ignition" /\ Nics(spec, n) # {}

\* Ignition has no default NIC: NetworkManager configures it by itself.
getVMI(spec, n) ==
  [volumes    |-> {<<n, "dv", "", 0>>},
   interfaces |-> Interfaces(spec, n),
   network    |-> IF spec.init = "ignition" THEN Nics(spec, n)
                  ELSE getDefCloudinitNetworkCfg \cup Nics(spec, n)]

-----------------------------------------------------------------------------
\* The objects a workload needs to start, as its spec refers to them.
References(spec, n) ==
  CASE spec.kind[n] = "pod"   -> PodVolumes(n) \cup {a.nad : a \in PodNets(spec, n)}
    [] spec.kind[n] = "srl"   -> SrlVolumes(n) \cup {a.nad : a \in SrlNets(spec, n)}
    [] spec.kind[n] = "srsim" -> SrsimVolumes(n) \cup {a.nad : a \in SrsimNets(spec, n)}
    [] spec.kind[n] = "vm"    -> getVMI(spec, n).volumes

=============================================================================
