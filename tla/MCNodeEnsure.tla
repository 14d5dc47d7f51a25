---------------------------- MODULE MCNodeEnsure ----------------------------
(* Small instances of NodeEnsure. *)
EXTENDS NodeEnsure

On(n)       == [node |-> n, port |-> 0, mac |-> 1, addr |-> 0]
At(n, m, a) == [node |-> n, port |-> 0, mac |-> m, addr |-> a]

Lab(kinds, links) ==
  [kind |-> kinds, init |-> "cloud-init", home |-> TRUE, links |-> links]

\* An SR Linux on two links, on one of them twice.
Srl == Lab([srl |-> "srl"], << <<On("srl"), On("srl")>>, <<On("srl"), On("x")>> >>)

\* A Pod with an address on one of two links.
Pod == Lab([pod |-> "pod"], << <<At("pod", 1, 1), On("x")>>, <<On("pod"), On("x")>> >>)

\* An SR-SIM on two links.
Srsim == Lab([srsim |-> "srsim"], << <<On("srsim"), On("x")>>, <<On("srsim"), On("x")>> >>)

\* A VM with addresses on two of three links.
Vm ==
  Lab([vm |-> "vm"],
      << <<At("vm", 1, 1), At("x", 2, 0)>>, <<At("vm", 3, 0), At("x", 4, 0)>>,
         <<At("x", 5, 0), At("vm", 6, 2)>> >>)

\* A VM and a Pod, of no addresses.
VmPod == Lab([vm |-> "vm", pod |-> "pod"], << <<On("vm"), On("pod")>> >>)

\* A VM that is initialised by ignition; a Lab outside the operator's namespace.
Ignition(spec) == [spec EXCEPT !.init = "ignition"]
Abroad(spec)   == [spec EXCEPT !.home = FALSE]

\* Every type, created again as it was, with a node more, and with what the
\* operator cannot build before or after.
AllTypes ==
  {<<Srl, Srl>>, <<Srsim, Srsim>>, <<Vm, Vm>>, <<Pod, Abroad(Pod)>>, <<Abroad(Pod), Pod>>,
   <<Ignition(Vm), VmPod>>}

=============================================================================
