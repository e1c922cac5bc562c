------------------------------ MODULE Superego ------------------------------
(***************************************************************************)
(* The safety check in front of every routed request: the word patterns of *)
(* crates/orion-core/src/superego.rs (layer 1) and the reading of a second *)
(* model's verdict in crates/orion-router/src/router.rs (layer 2).         *)
(*                                                                         *)
(* A text is the set of the word groups its normalised tokens hit; the     *)
(* lists of words behind a group are left out.  "empty" stands for a text  *)
(* without characters.                                                     *)
(***************************************************************************)
EXTENDS Sequences, FiniteSets, Naturals

\* The code of the first rule that holds, ALLOW when none does.
FirstHit(rules) ==
  LET hits == SelectSeq(rules, LAMBDA r: r.holds)
  IN  IF hits = << >> THEN "ALLOW" ELSE hits[1].code

CheckUserMessage(f) ==
  FirstHit(<<
    [code |-> "MALWARE_CREATION",
     holds |-> /\ {"action", "malware"} \subseteq f
               /\ "antivirus" \notin f
               /\ "offensive" \in f \/ f \cap {"defensive", "benign"} = {}],
    [code |-> "WEAPONS_EXPLOSIVES",
     holds |-> {"instruction", "weapon"} \subseteq f /\ "bomb cyclone" \notin f],
    [code |-> "ILLEGAL_DRUGS",
     holds |-> {"instruction", "synthesis", "illegal drug"} \subseteq f],
    [code |-> "PROMPT_INJECTION",
     holds |-> "jailbreak" \in f]>>)

\* Lookups of where a person lives or can be reached.
PersonLookup(f) ==
  \/ "where does" \in f /\ "live" \in f
  \/ "where do" \in f /\ "live" \in f /\ "person" \in f
  \/ "home address" \in f
  \/ "phone number" \in f /\ "company" \notin f

\* Numbers that identify a person, and the lifting of a pseudonym.
IdentityLookup(f) ==
  \/ f \cap {"social security", "account number", "dox"} # {}
  \/ "real name" \in f /\ "pseudonym" \in f

CheckSearchQuery(f) ==
  IF PersonLookup(f) \/ IdentityLookup(f) THEN "PII_DOXXING" ELSE "ALLOW"

Codes == {"MALWARE_CREATION", "WEAPONS_EXPLOSIVES", "ILLEGAL_DRUGS",
          "PII_DOXXING", "PROMPT_INJECTION"}

\* What the second model may answer: a verdict, a denial with a code the
\* router knows or not, something else, or nothing.
L2Replies == {"SAFE", "UNKNOWN_CODE", "NO_VERDICT", "NOT_JSON", "FAILED"} \cup Codes

\* Layer 2 is asked only when it is on, the message is not about the weather
\* and a second model is configured.
AsksL2(mode, hasModel, f) == mode # "Off" /\ "weather" \notin f /\ hasModel

\* Every answer but a denial with a known code lets the request through.
L2Verdict(mode, reply) ==
  IF reply \notin Codes THEN "ALLOW"
  ELSE CASE mode = "Advisory" -> "ADVISORY"
         [] mode = "Enforce" -> reply
         [] OTHER -> "ALLOW"
=============================================================================
