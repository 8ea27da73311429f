---------------------------- MODULE CheckKnowledge ----------------------------
(***************************************************************************)
(* tools/check_knowledge.py: a run over a bundle of Markdown documents,    *)
(* one document after another, that collects findings of three severities, *)
(* writes them and exits with a status that decides over a change.         *)
(*                                                                         *)
(* A document is what the checker can tell apart in it.  YAML, the file    *)
(* system and the regular expressions are outside: what they say of a      *)
(* document is a field of it.  Headings, sections, bullets and links are   *)
(* those that without_code_fences() keeps (module CodeFences).             *)
(*                                                                         *)
(* A definition Mutant_x is x with a fault, and is used by no other one.   *)
(***************************************************************************)
EXTENDS Naturals, SequencesExt

CONSTANTS
  Bundles,   \* the bundles to check: sequences of documents, as rglob sorts them
  Dates,     \* dates in log headings
  NoDate

-----------------------------------------------------------------------------
(* Documents.                                                              *)

\* No delimiter; an opening one only; a block that YAML rejects; a block that
\* is no mapping; a mapping (YAML's null counts as one without keys).
Frontmatter == {"none", "unterminated", "unparseable", "not_mapping", "mapping"}

\* "stable" and "draft" stand for a missing and a "deprecated" status too.  An
\* "impossible" date, like the 30th of February, stands for one under any key:
\* YAML takes it for a date and cannot make it one.  "human" is human:<id>, and
\* "process" is process:<id> or <id>/<version>; what follows no convention may
\* still begin with human:, or be empty.
Data == [type : BOOLEAN, okf_version : BOOLEAN, recommended : BOOLEAN,
         status : {"stable", "draft", "unknown"},
         stale_after : {"none", "future", "past", "malformed", "impossible"},
         generated : {"none", "human", "process", "unconventional", "human_unconventional",
                      "empty"},
         verified : SUBSET {"conventional", "unconventional"}]

Heading == [top : BOOLEAN, date : Dates \cup {NoDate}]

\* read_text() can read a document, or it is not UTF-8 or a directory; its links
\* lead somewhere, or one of them does not, or has a target that is too long for
\* a file name.
Links == {"good", "broken", "too_long"}
Concept == [name : {"concept"}, adr : BOOLEAN, named : BOOLEAN, sections : BOOLEAN,
            frontmatter : Frontmatter, data : Data, readable : BOOLEAN, links : Links]
Index   == [name : {"index"}, root : BOOLEAN, heading : BOOLEAN, bullet : BOOLEAN,
            frontmatter : Frontmatter, data : Data, readable : BOOLEAN, links : Links]
Log     == [name : {"log"}, headings : Seq(Heading), readable : BOOLEAN, links : Links]
Document == Concept \cup Index \cup Log

IsRoot(d) == d.name = "index" /\ d.root
HasRoot(documents) == \E i \in DOMAIN documents : IsRoot(documents[i])

ASSUME ConstantsAssumption ==
  /\ Dates \subseteq Nat
  /\ NoDate \notin Nat
  /\ Bundles \subseteq Seq(Document)
  /\ \A b \in Bundles : \A i, j \in DOMAIN b :
       IsRoot(b[i]) /\ IsRoot(b[j]) => i = j

-----------------------------------------------------------------------------
(* Rules, by severity.                                                     *)

OkfErrors == {"okf.frontmatter.missing", "okf.frontmatter.unparseable", "okf.type.missing",
              "okf.index.frontmatter", "okf.index.structure", "okf.log.structure",
              "okf.log.date"}
PolicyErrors == {"policy.adr.filename", "policy.adr.sections", "policy.index.missing",
                 "policy.okf_version"}
Warnings == {"warn.link.broken", "warn.metadata.recommended", "warn.status.unknown",
             "warn.stale", "warn.actor.convention", "warn.unverified", "warn.log.order"}

rule(name, violated) == IF violated THEN {name} ELSE {}

check_links(d) == rule("warn.link.broken", d.links = "broken")

parse_frontmatter(d) ==
  rule("okf.frontmatter.unparseable", d.frontmatter \in {"unparseable", "not_mapping"})
parsed(d) == d.frontmatter = "mapping"

check_metadata(data) ==
  UNION { rule("warn.metadata.recommended", ~data.recommended),
          rule("warn.status.unknown", data.status = "unknown"),
          rule("warn.stale", data.stale_after \in {"past", "malformed"}),
          rule("warn.actor.convention",
               \/ data.generated \in {"unconventional", "human_unconventional", "empty"}
               \/ "unconventional" \in data.verified),
          rule("warn.unverified", /\ data.generated \in {"process", "unconventional"}
                                  /\ data.verified = {}
                                  /\ data.status = "stable") }

check_adr(d) ==
  rule("policy.adr.filename", ~d.named) \cup rule("policy.adr.sections", ~d.sections)

\* Leaves for a missing frontmatter before it has looked at the ADR.
Mutant_check_concept(d) ==
  IF d.frontmatter \in {"none", "unterminated"} THEN {"okf.frontmatter.missing"}
  ELSE UNION { IF d.adr THEN check_adr(d) ELSE {},
               parse_frontmatter(d),
               IF parsed(d)
                 THEN rule("okf.type.missing", ~d.data.type) \cup check_metadata(d.data)
                 ELSE {} }

check_concept(d) ==
  UNION { IF d.adr THEN check_adr(d) ELSE {},
          rule("okf.frontmatter.missing", d.frontmatter \in {"none", "unterminated"}),
          parse_frontmatter(d),
          IF parsed(d) THEN rule("okf.type.missing", ~d.data.type) \cup check_metadata(d.data)
                       ELSE {} }

\* Without data it has nothing to say.
Mutant_check_okf_version(d) ==
  rule("policy.okf_version", parsed(d) /\ ~d.data.okf_version)

\* Only a root index has its frontmatter parsed, and must declare the version.
check_okf_version(d) ==
  rule("policy.okf_version", ~(parsed(d) /\ d.data.okf_version))

check_index(d) ==
  UNION { rule("okf.index.frontmatter",
               \/ d.frontmatter = "unterminated"
               \/ d.frontmatter # "none" /\ ~d.root),
          rule("okf.index.structure", ~(d.heading /\ d.bullet)),
          IF d.root THEN parse_frontmatter(d) \cup check_okf_version(d) ELSE {} }

\* A leading level-1 document title is not a date group.
groups(headings) ==
  IF headings # << >> /\ Head(headings).top /\ Head(headings).date = NoDate
    THEN Tail(headings) ELSE headings
Dated(h) == h.date # NoDate

\* Compares neighbours, undated ones included.
Mutant_newest_first(headings) ==
  \A i \in 1 .. Len(headings) - 1 :
    Dated(headings[i]) /\ Dated(headings[i + 1]) => headings[i].date >= headings[i + 1].date

\* parsed == sorted(parsed, reverse=True): of the headings whose date could be
\* parsed, none is older than the next one.
newest_first(headings) ==
  \A m, n \in DOMAIN headings :
    /\ m < n /\ Dated(headings[m]) /\ Dated(headings[n])
    /\ \A i \in m + 1 .. n - 1 : ~Dated(headings[i])
    => headings[m].date >= headings[n].date

check_log(d) ==
  LET found == groups(d.headings)
  IN  IF found = << >> THEN {"okf.log.structure"}
      ELSE rule("okf.log.date", \E i \in DOMAIN found : ~Dated(found[i]))
           \cup rule("warn.log.order", ~newest_first(found))

\* What no handler catches: read_text(), exists() of a target that is too long
\* (OSError), and yaml.safe_load() of an impossible date (ValueError, which is no
\* YAMLError), where the frontmatter is parsed.
raises(d) ==
  \/ ~d.readable
  \/ d.links = "too_long"
  \/ /\ d.name = "concept" \/ IsRoot(d)
     /\ parsed(d) /\ d.data.stale_after = "impossible"

check(d) ==
  check_links(d) \cup CASE d.name = "index" -> check_index(d)
                        [] d.name = "log" -> check_log(d)
                        [] d.name = "concept" -> check_concept(d)

-----------------------------------------------------------------------------
(* The run.                                                                *)

VARIABLES
  environment,  \* what main() finds: PyYAML installed, the argument a directory
  bundle,       \* the documents
  next,         \* the document that is checked next; 0 before the root index
  findings,     \* what report.add() was called with: document (0: none), rule
  concepts,     \* report.concepts
  status,       \* "running" or the exit status
  written       \* has report.write() printed the findings?

vars == <<environment, bundle, next, findings, concepts, status, written>>

Init ==
  /\ environment \in [yaml : BOOLEAN, directory : BOOLEAN]
  /\ bundle \in Bundles
  /\ next = 0
  /\ findings = {}
  /\ concepts = 0
  /\ status = "running"
  /\ written = FALSE

\* A usage or environment failure.
Refuse ==
  /\ status = "running" /\ next = 0
  /\ ~(environment.yaml /\ environment.directory)
  /\ status' = "2"
  /\ UNCHANGED <<environment, bundle, next, findings, concepts, written>>

CheckRoot ==
  /\ status = "running" /\ next = 0
  /\ environment.yaml /\ environment.directory
  /\ next' = 1
  /\ findings' = {<<0, r>> : r \in rule("policy.index.missing", ~HasRoot(bundle))}
  /\ UNCHANGED <<environment, bundle, concepts, status, written>>

\* Counts logs and indexes.
Mutant_counted(d) == 1
counted(d) == IF d.name = "concept" THEN 1 ELSE 0

\* One iteration of the loop of check_bundle().
CheckDocument ==
  /\ status = "running"
  /\ next \in DOMAIN bundle
  /\ ~raises(bundle[next])
  /\ findings' = findings \cup {<<next, r>> : r \in check(bundle[next])}
  /\ concepts' = concepts + counted(bundle[next])
  /\ next' = next + 1
  /\ UNCHANGED <<environment, bundle, status, written>>

\* An exception that nothing catches: the interpreter prints a traceback and
\* exits with 1.  report.write() is never reached, so that what was collected of
\* this document before is lost with the rest.
Raise ==
  /\ status = "running"
  /\ next \in DOMAIN bundle
  /\ raises(bundle[next])
  /\ status' = "1"
  /\ UNCHANGED <<environment, bundle, next, findings, concepts, written>>

errors == {f \in findings : f[2] \notin Warnings}

Finish ==
  /\ status = "running"
  /\ next = Len(bundle) + 1
  /\ written' = TRUE
  /\ status' = IF errors # {} THEN "1" ELSE "0"
  /\ UNCHANGED <<environment, bundle, next, findings, concepts>>

Exited == status # "running" /\ UNCHANGED vars

Next == Refuse \/ CheckRoot \/ CheckDocument \/ Raise \/ Finish \/ Exited
Spec == Init /\ [][Next]_vars

-----------------------------------------------------------------------------
(* Properties.                                                             *)

Rules == OkfErrors \cup PolicyErrors \cup Warnings
TypeOK ==
  /\ environment \in [yaml : BOOLEAN, directory : BOOLEAN]
  /\ next \in 0 .. Len(bundle) + 1
  /\ findings \subseteq (0 .. Len(bundle)) \X Rules
  /\ concepts \in 0 .. Cardinality({i \in DOMAIN bundle : bundle[i].name = "concept"})
  /\ status \in {"running", "0", "1", "2"}
  /\ written \in BOOLEAN

\* What the bundle format and the repository's policy require of a bundle, and
\* nothing of what they tolerate.
ConformingConcept(d) ==
  /\ d.frontmatter = "mapping" /\ d.data.type
  /\ d.adr => d.named /\ d.sections
ConformingIndex(d) ==
  /\ d.heading /\ d.bullet
  /\ ~d.root => d.frontmatter = "none"
  /\ d.root => d.frontmatter = "mapping" /\ d.data.okf_version
ConformingLog(d) ==
  \E first \in {1, 2} :
    /\ first <= Len(d.headings)
    /\ \A i \in first .. Len(d.headings) : d.headings[i].date # NoDate
    /\ first = 2 => d.headings[1].top /\ d.headings[1].date = NoDate
Conforming(d) == CASE d.name = "index" -> ConformingIndex(d)
                   [] d.name = "log" -> ConformingLog(d)
                   [] d.name = "concept" -> ConformingConcept(d)

Verdict == HasRoot(bundle) /\ \A i \in DOMAIN bundle : Conforming(bundle[i])

\* 2 is for the environment alone.  Of a bundle that is checked a report is written
\* unless a document raises, which leaves 1; and when it is written the exit status
\* is the verdict on the bundle, whatever order the checks and their early returns
\* come in, and however many warnings there are.
ExitIsVerdict ==
  status # "running" =>
    /\ status = "2" <=> ~(environment.yaml /\ environment.directory)
    /\ status # "2" => /\ written <=> \A i \in DOMAIN bundle : ~raises(bundle[i])
                       /\ status = "0" <=> written /\ Verdict

\* "1 if any error was reported, ... (warnings alone are not a failure)", and "broken
\* links never fail the check": of documents that can be read, the check fails only
\* such as do not conform.
WarningsNeverFail ==
  status = "1" => ~Verdict \/ \E i \in DOMAIN bundle : ~bundle[i].readable

\* An ADR that breaks the repository's policy is told so in the first report,
\* also when its frontmatter is missing or cannot be parsed.
AdrsAlwaysChecked ==
  written => \A i \in DOMAIN bundle :
    LET d == bundle[i]
    IN  d.name = "concept" /\ d.adr =>
          /\ <<i, "policy.adr.filename">> \in findings <=> ~d.named
          /\ <<i, "policy.adr.sections">> \in findings <=> ~d.sections

\* A log is reported as out of order exactly when an older entry stands above a
\* newer one, however far apart and whatever lies between them.
LogOrderReported ==
  written => \A i \in DOMAIN bundle :
    LET d == bundle[i]
    IN  d.name = "log" =>
          (<<i, "warn.log.order">> \in findings <=>
             \E m, n \in DOMAIN d.headings :
               /\ m < n
               /\ d.headings[m].date # NoDate /\ d.headings[n].date # NoDate
               /\ d.headings[m].date < d.headings[n].date)

=============================================================================
