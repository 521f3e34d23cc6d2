------------------------------ MODULE MCPipeline ------------------------------
(* A small instance of Pipeline for TLC. *)
EXTENDS Pipeline

CONSTANTS w1, m1

\* Once a message is on the topic, processes still die and lose their partition, updates are lost
\* and sends fail or are repeated; SIGTERM, a failed join, a breaker that comes due and a retry time
\* that passes (for rows nothing selects again) are only met before.
MCTroubleComesEarly ==
  topic # <<>> =>
    /\ \A w \in Workers : ~term[w] /\ ~breaker[w].due
    /\ \A e \in Events : status[e] = "failed" => waiting[e]
    /\ \A m \in Members : ~mterm[m] /\ mpc[m] # "wait"
=============================================================================
