------------------------------ MODULE MCPluginSdk ------------------------------
(***************************************************************************)
(* The parts of the SDK that keep state: every behaviour is a host that     *)
(* creates and deletes contexts, one root context that lives and makes      *)
(* outbound calls, or a plugin that counts.                                 *)
(***************************************************************************)
EXTENDS PluginHost, Callouts, Metrics

VARIABLE part   \* which of the three

MCFields == {<<"a">>, <<"b">>}

allVars == <<part, vars, calloutVars, metricVars>>

NoMetrics ==
  /\ metrics = <<>> /\ simple = {} /\ series = <<>>
  /\ value = NoIds /\ counted = NoIds /\ aborted = FALSE

MCInit ==
  /\ Init /\ CalloutsInit
  /\ \/ part \in {"contexts", "calls"} /\ NoMetrics
     \/ part = "metrics" /\ MetricsInit

MCNext ==
  /\ UNCHANGED part
  /\ \/ part = "contexts" /\ Next /\ UNCHANGED <<calloutVars, metricVars>>
     \/ part = "calls" /\ CalloutsNext /\ UNCHANGED <<vars, metricVars>>
     \/ part = "metrics" /\ MetricsNext /\ UNCHANGED <<vars, calloutVars>>

(* The fairness of Callouts.                                                *)
OfCalls(A) == part = "calls" /\ A /\ UNCHANGED <<part, vars, metricVars>>
MCFairness ==
  /\ WF_allVars(OfCalls(Returns))
  /\ \A t \in Tokens : SF_allVars(OfCalls(Answer(t)))

MCSpec == MCInit /\ [][MCNext]_allVars /\ MCFairness
=============================================================================
