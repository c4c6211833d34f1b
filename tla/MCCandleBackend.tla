-------------------------- MODULE MCCandleBackend ---------------------------
(* A handful of blocks of two tokens, three sequences (the smallest batch   *)
(* that is padded) and one architecture of each kind.                       *)
EXTENDS CandleBackend

Arch(model, layers, sparse, cuda, safe) ==
    [model |-> model, layers |-> layers, sparse |-> sparse, experts |-> 3, top_k |-> 2,
     conv_kernel |-> 3, sliding_window |-> 2, cuda |-> cuda, cuda_graphs |-> TRUE, graph_safe |-> safe]

llama == Arch("llama", <<"full", "full">>, {}, TRUE, TRUE)
laguna == Arch("laguna", <<"full", "sliding">>, {2}, FALSE, TRUE)
lfm2 == Arch("lfm2", <<"conv", "full">>, {}, TRUE, TRUE)
lfm2_bias == Arch("lfm2", <<"conv", "full">>, {}, TRUE, FALSE)
qwen == Arch("qwen", <<"full", "full">>, {}, TRUE, TRUE)

MCArchs == {llama, laguna, lfm2, lfm2_bias, qwen}
MCPrompts == {<<1, 2, 3>>, <<4>>}
MCSeqs == {1, 2, 3}
=============================================================================
