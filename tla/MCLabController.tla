-------------------------- MODULE MCLabController --------------------------
(* Small instances of LabController. *)
EXTENDS LabControllerInv

\* One Lab, of one link or of two.
OneLab        == {<<"a">>}
OneLink       == {<<"x">>}
OneLinkOfOne  == [l \in OneLab |-> << <<"x">> >>]
TwoLinks      == {<<"x">>, <<"y">>}
TwoLinksOfOne == [l \in OneLab |-> << <<"x">>, <<"y">> >>]

\* Two Labs with one link each, of the same name.
TwoLabs       == {<<"a">>, <<"b">>}
OneLinkEach   == [l \in TwoLabs |-> << <<"x">> >>]

\* Lab "a" with links "a" and "b-c", and Lab "a-b" with link "c": the LANs of
\* "b-c" and of "c" are both named "a-b-c", that of "a" is not shared.
NestedLabs    == {<<"a">>, <<"a", "b">>}
NestedLinks   == {<<"a">>, <<"b", "c">>, <<"c">>}
NestedList    == [l \in NestedLabs |->
                    IF l = <<"a">> THEN << <<"a">>, <<"b", "c">> >> ELSE << <<"c">> >>]

=============================================================================
