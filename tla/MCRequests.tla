----------------------------- MODULE MCRequests -----------------------------
(***************************************************************************)
(* What the server answers in one step, for TLC: queries, messages taken   *)
(* apart and put together, a JMAP request's calls, and the accounts API's  *)
(* gate.  A behaviour is about one of them; the others rest in one of      *)
(* their initial states.                                                   *)
(***************************************************************************)
EXTENDS ListQueries, MCMailFormat, MCEngine, Gate

VARIABLE part

requestVars == <<part, queryVars, formatVars, eng, gateVars>>

QueriesRest == topic = "snippet" /\ QueriesInit
FormatRest  == subject = "header" /\ ask = [name |-> 3, segments |-> <<<<1>>>>] /\ said = <<>>
EngineRest  == eng = Request("using", "ok", Supported, 0, FALSE, <<>>)
GateRest    == matter = "result" /\ question = <<>> /\ verdict = <<>>

MCInit ==
  \/ part = "queries" /\ (QueriesInit \/ ListInit) /\ FormatRest /\ EngineRest /\ GateRest
  \/ part = "format"  /\ FormatInit /\ QueriesRest /\ EngineRest /\ GateRest
  \/ part = "engine"  /\ EngineInit /\ QueriesRest /\ FormatRest /\ GateRest
  \/ part = "gate"    /\ GateInit /\ QueriesRest /\ FormatRest /\ EngineRest

MCNext ==
  \/ /\ part = "queries" /\ (QueriesNext \/ ListNext)
     /\ UNCHANGED <<part, formatVars, eng, gateVars>>
  \/ part = "format" /\ FormatNext /\ UNCHANGED <<part, queryVars, eng, gateVars>>
  \/ part = "engine" /\ EngineNext /\ UNCHANGED <<part, queryVars, formatVars, gateVars>>
  \/ part = "gate"   /\ GateNext /\ UNCHANGED <<part, queryVars, formatVars, eng>>

MCSpec == MCInit /\ [][MCNext]_requestVars
=============================================================================
