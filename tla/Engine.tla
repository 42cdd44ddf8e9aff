--------------------------------- MODULE Engine ---------------------------------
(***************************************************************************)
(* hunter/llm_engine.py with models.py, mitre.py and config.py: from what   *)
(* came of one request to the model to one verdict.                         *)
(*                                                                          *)
(* A reply is a record.  Its kind says whether the request raised, came     *)
(* back without the tool call, or with it; the other fields are the tool's  *)
(* input, which the model chose and which need not keep to the schema;      *)
(* complete says whether the strings it requires are all there.             *)
(* Confidence is in hundredths, Top being the schema's 1.0.                 *)
(***************************************************************************)
EXTENDS Integers

CONSTANTS
    Techniques,   \* mitre.TECHNIQUES
    Floor,        \* settings.kill_confidence_floor
    Top           \* the greatest confidence

ASSUME EngineAssumption == Floor \in Int /\ Top \in Nat

Severities == {"benign", "low", "medium", "high", "critical"}
Actions == {"ignore", "monitor", "alert", "kill"}
NoTechnique == "NONE"

is_known_technique(t) == t \in Techniques \cup {NoTechnique}

_fallback_verdict ==
    [severity |-> "medium", action |-> "alert", technique |-> NoTechnique, confidence |-> 0]

\* Mutant: the tool's input is trusted.
TrustedInput(raw) == TRUE

\* Verdict.model_validate.  It refuses a confidence out of range before it would
\* clamp it, and an input that lacks a field, such as the rationale of a reply that
\* was cut at max_tokens.
ValidInput(raw) ==
    /\ raw.complete
    /\ raw.severity \in Severities
    /\ raw.action \in Actions
    /\ raw.confidence \in 0 .. Top

\* Mutant: either condition will do.
MayKillOnEither(v) == v.severity = "critical" \/ v.confidence >= Floor

\* Mutant: the floor itself is refused.
MayKillAbove(v) == v.severity = "critical" /\ v.confidence > Floor

\* The authority boundary.
MayKill(v) == v.severity = "critical" /\ v.confidence >= Floor

_parse_tool_input(raw) ==
    IF ValidInput(raw)
    THEN [severity   |-> raw.severity,
          action     |-> IF raw.action = "kill" /\ ~MayKill(raw) THEN "alert" ELSE raw.action,
          technique  |-> IF is_known_technique(raw.technique) THEN raw.technique ELSE NoTechnique,
          confidence |-> raw.confidence]
    ELSE _fallback_verdict

\* engine.evaluate, for a reply that did not make it raise.
evaluate(reply) ==
    IF reply.kind = "tool" THEN _parse_tool_input(reply) ELSE _fallback_verdict
===============================================================================
