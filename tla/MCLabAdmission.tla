--------------------------- MODULE MCLabAdmission ---------------------------
(* Small instances of LabAdmission. *)
EXTENDS LabAdmission, TLC

CONSTANTS la, lb

Listing(nodes) == [NoSpec EXCEPT !.nodes = nodes]
Untyped        == Node("nil")

\* A configuration with the images that Labs need and a MAC for every vSIM's
\* chassis, and one that gives an optional field as well.
Images   == [t \in Types |-> [DefKNLConfig[t] EXCEPT !.req = Ref("a"),
                                !.mac = IF t = "vsim" THEN Ref(0) ELSE Nil]]
Optional == [t \in Types |-> [Images[t] EXCEPT !.opt = Ref("a")]]

ImageConfig     == {Images}
OptionalConfigs == {Images, Optional}

\* A Pod and a vSIM on two links; a vSIM named the old way, by its line card,
\* a VSR-I and a name without a type are there for manifests to list.
NodeNames == <<"foo", "pod-1", "vsim-2-1", "vsim-2-a", "vsri-1">>
TypesOf   == ("foo" :> "unknown") @@ ("pod-1" :> "pod") @@ ("vsri-1" :> "vsri")
               @@ ("vsim-2-1" :> "vsim") @@ ("vsim-2-a" :> "vsim")
CPMNames  == ("vsim-2-1" :> "vsim-2-a") @@ [n \in DOMAIN TypesOf |-> n]
TwoLinks  == [k \in {"x", "y"} |-> <<"vsim-2-a", "pod-1">>]

\* Nothing but links; another chassis, or two with images and a connector's
\* MAC of their own.
Bare      == Listing(<<>>)
SR12      == Listing("vsim-2-a" :> [Untyped EXCEPT !.model = Ref("SR-12")])
OwnImages ==
  [Listing("vsim-2-a" :> [Untyped EXCEPT !.model = Ref("SR-12"), !.req = Ref("b")]
             @@ "vsri-1" :> [Untyped EXCEPT !.req = Ref("b")]
             @@ "pod-1" :> [Untyped EXCEPT !.req = Ref("a")])
     EXCEPT !.mac = [NoSpec.mac EXCEPT ![<<"y", 2>>] = Ref(1)]]

\* Some that are refused (no type to be found, the wrong type, no line card
\* for the port, no CPM, a port that is not there) and some that are not (a
\* line card's node, an integrated vSIM whose port may be on either card,
\* SysInfo of one's own).
Vsim(info) == Listing("vsim-2-a" :> [Untyped EXCEPT !.info = Ref(info)])
Odd ==
  {Listing("foo" :> Untyped),
   Listing("vsri-1" :> Node("pod")),
   Vsim([s \in {"A"} |-> Nil]),
   Vsim([s \in {"1"} |-> Nil]),
   Vsim([s \in {"A", "2"} |-> IF s = "A" THEN Ref("user") ELSE Nil]),
   Listing("vsim-2-1" :> [Untyped EXCEPT !.info = Ref([s \in {"A"} |-> Nil])]),
   Listing("vsim-2-a" :> [Untyped EXCEPT !.model = Ref("VSR-I"),
                                         !.info = Ref([s \in {"A", "1"} |-> Nil])]),
   [Bare EXCEPT !.port = [c \in Conns |-> IF c[1] = "x" THEN Ref("2") ELSE Nil]]}

OddAndPlain == (la :> (Odd \cup {OwnImages})) @@ (lb :> {Bare})
Plain       == (la :> {Bare, SR12, OwnImages}) @@ (lb :> {Bare, SR12})
=============================================================================
