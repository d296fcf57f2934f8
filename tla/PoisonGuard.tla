------------------------------ MODULE PoisonGuard ------------------------------
(***************************************************************************)
(* poison_guard.rs: the scan every text passes before it is written or     *)
(* shared. A text is told apart by the signs the pattern tables find in    *)
(* it: a sign is a category and the severity its row has.                  *)
(***************************************************************************)
EXTENDS FiniteSets

Severity == {"low", "medium", "high"}

\* The severities that occur in each table; a credential is always high.
InjectionSigns == {"prompt_injection"} \X Severity
SpoofSigns == {"identity_spoofing"} \X {"medium", "high"}
SensitiveSigns == {"sensitive_data"} \X {"high"}
CommandSigns == {"unauthorized_command"} \X {"medium", "high"}

Sign == InjectionSigns \cup SpoofSigns \cup SensitiveSigns \cup CommandSigns

SourceType == {"authoritative", "agent_inferred", "external_document",
               "tool_result", "business_event"}

is_untrusted(source) == source \in {"external_document", "tool_result"}

\* Mutant: severity does not count, only the source does.
ScanBySource(signs, source, strict) ==
    IF signs = {} THEN "safe"
    ELSE IF is_untrusted(source) /\ strict THEN "blocked" ELSE "suspicious"

\* scan: one high finding blocks, and in a strict guard any finding in a text of
\* an untrusted source does.
scan(signs, source, strict) ==
    IF signs = {} THEN "safe"
    ELSE IF \E s \in signs : s[2] = "high" THEN "blocked"
    ELSE IF is_untrusted(source) /\ strict THEN "blocked"
    ELSE "suspicious"
================================================================================
