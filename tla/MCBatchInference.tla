-------------------------- MODULE MCBatchInference --------------------------
(***************************************************************************)
(* A small instance of BatchInference: start requests with at most one      *)
(* vector of the wrong length, a routing whose first provider does no       *)
(* batches, and output files with whole and bad lines.                      *)
(***************************************************************************)
EXTENDS BatchInference

CONSTANTS i1, i2, p1, p2, vPos, vZero, vDicl

NoVectors == [tools |-> Absent, schemas |-> Absent, params |-> Absent, episodes |-> Absent,
              validEpisodes |-> TRUE]

MCStartRequests ==
    {NoVectors} \cup {[NoVectors EXCEPT !.tools = 1], [NoVectors EXCEPT !.schemas = 1],
                      [NoVectors EXCEPT !.params = 3], [NoVectors EXCEPT !.episodes = 3],
                      [NoVectors EXCEPT !.episodes = 2, !.validEpisodes = FALSE]}

MCRouting == <<"anthropic", "openai", "gcp_vertex_gemini">>

MCOutputFiles ==
    {[i \in Inferences |-> IF i = i1 THEN l[1] ELSE l[2]] :
        l \in {<<"whole", "whole">>, <<"partial", "whole">>, <<"whole", "garbled">>,
               <<"absent", "garbled">>}}
=============================================================================
