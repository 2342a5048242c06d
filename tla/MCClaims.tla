------------------------------ MODULE MCClaims ------------------------------
(* Twelve layers, so that indices of one and of two digits meet; every fourth *)
(* layer has full attention.  Files: all the writers, the sparse middle of a   *)
(* first ablation, the two layers around ten, and one with a layer too many.   *)
EXTENDS Claims

MCFull == {3, 7, 11}
WritersOf(layers) == {<<i, "mlp.down_proj">> : i \in layers}
                     \cup {<<i, AttnSub(i)>> : i \in layers}
MCFiles == {WritersOf(0 .. 11), WritersOf(3 .. 8), WritersOf({9, 10}), WritersOf(1 .. 11),
            WritersOf(0 .. 12), {<<0, "self_attn.o_proj">>}, {<<5, "mlp.down_proj">>}}

\* The two schemes of the documented engine, and what another release may make of them
Multimodal == <<"model", "language_model", "model">>
TextOnly == <<"model">>
Turned == <<"language_model", "model">>
MCStems == {Multimodal, TextOnly, Turned, <<"model", "draft">>, <<"dspark", "model">>,
            <<"mtp", "model">>}
MCDraftStems == {<<"mtp">>}
MCRanges == {<<0, 12>>, <<0, 6>>, <<6, 12>>}
=============================================================================
