---------------------------- MODULE KnowledgeProofs ----------------------------
(***************************************************************************)
(* The knowledge checker, for bundles of every size and logs of every      *)
(* length, and what its two scanners share with each other and with        *)
(* Markdown's reading, for markers of every length and documents of every  *)
(* size.                                                                   *)
(***************************************************************************)
EXTENDS CheckKnowledge, CodeFences, FiniteSetTheorems, WellFoundedInduction, TLAPS

-----------------------------------------------------------------------------
(* CheckKnowledge.  The findings are always the verdicts on the documents  *)
(* before the next one: then what is left is that the checks of a document *)
(* tell it an error exactly when it does not conform.                      *)

\* What the checker has to say of the documents before the next one.  Document
\* 0 stands for the bundle itself.
Verdicts(i) == IF i = 0 THEN rule("policy.index.missing", ~HasRoot(bundle))
               ELSE check(bundle[i])
Collected ==
  findings = {f \in (0 .. Len(bundle)) \X Rules : f[1] < next /\ f[2] \in Verdicts(f[1])}

ConceptsBefore(n) == {i \in 1 .. n - 1 : bundle[i].name = "concept"}
Counted == concepts = Cardinality(ConceptsBefore(next))

\* No document before the next one raises.  A run that has ended was refused, has
\* written its report, or stands at a document that raises.
Sound == environment.yaml /\ environment.directory
Passed == \A i \in 1 .. next - 1 : ~raises(bundle[i])
Exit ==
  /\ next > 0 => Sound
  /\ status = "running" => ~written
  /\ status = "2" => ~Sound
  /\ status \in {"0", "1"} /\ ~written =>
       status = "1" /\ next \in DOMAIN bundle /\ raises(bundle[next])
  /\ written => /\ next = Len(bundle) + 1
                /\ status = IF errors # {} THEN "1" ELSE "0"

IInv == TypeOK /\ bundle \in Bundles /\ Collected /\ Counted /\ Passed /\ Exit

-----------------------------------------------------------------------------
(* What a check says of one document.                                      *)

LEMMA DocumentIs ==
  ASSUME bundle \in Bundles
  PROVE  /\ Len(bundle) \in Nat
         /\ DOMAIN bundle = 1 .. Len(bundle)
         /\ \A i \in DOMAIN bundle : bundle[i] \in Document
<1>1. bundle \in Seq(Document)
  BY ConstantsAssumption
<1> QED
  BY <1>1

LEMMA CheckIs ==
  ASSUME NEW d \in Document
  PROVE  /\ d \in Concept => d.name = "concept" /\ check(d) = check_links(d) \cup check_concept(d)
         /\ d \in Index => d.name = "index" /\ check(d) = check_links(d) \cup check_index(d)
         /\ d \in Log => d.name = "log" /\ check(d) = check_links(d) \cup check_log(d)
<1>1. /\ d \in Concept => d.name = "concept"
      /\ d \in Index => d.name = "index"
      /\ d \in Log => d.name = "log"
  BY DEF Concept, Index, Log
<1>2. d.name = "concept" => check(d) = check_links(d) \cup check_concept(d)
  BY Zenon DEF check
<1>3. d.name = "index" => check(d) = check_links(d) \cup check_index(d)
  BY Zenon DEF check
<1>4. d.name = "log" => check(d) = check_links(d) \cup check_log(d)
  BY Zenon DEF check
<1> QED
  BY <1>1, <1>2, <1>3, <1>4

LEMMA ConformingIs ==
  ASSUME NEW d
  PROVE  /\ d.name = "concept" => (Conforming(d) <=> ConformingConcept(d))
         /\ d.name = "index" => (Conforming(d) <=> ConformingIndex(d))
         /\ d.name = "log" => (Conforming(d) <=> ConformingLog(d))
<1>1. d.name = "concept" => (Conforming(d) <=> ConformingConcept(d))
  BY Zenon DEF Conforming
<1>2. d.name = "index" => (Conforming(d) <=> ConformingIndex(d))
  BY Zenon DEF Conforming
<1>3. d.name = "log" => (Conforming(d) <=> ConformingLog(d))
  BY Zenon DEF Conforming
<1> QED
  BY <1>1, <1>2, <1>3

\* A rule is told of a document or is not.
LEMMA RuleIs ==
  ASSUME NEW name, NEW violated \in BOOLEAN, NEW r
  PROVE  r \in rule(name, violated) <=> r = name /\ violated
BY DEF rule

LEMMA LinksWarn == ASSUME NEW d PROVE check_links(d) \subseteq {"warn.link.broken"}
BY DEF check_links, rule

LEMMA MetadataWarns == ASSUME NEW data PROVE check_metadata(data) \subseteq Warnings
<1> DEFINE R == rule("warn.metadata.recommended", ~data.recommended)
           S == rule("warn.status.unknown", data.status = "unknown")
           T == rule("warn.stale", data.stale_after \in {"past", "malformed"})
           A == rule("warn.actor.convention",
                     \/ data.generated \in {"unconventional", "human_unconventional", "empty"}
                     \/ "unconventional" \in data.verified)
           U == rule("warn.unverified", /\ data.generated \in {"process", "unconventional"}
                                        /\ data.verified = {}
                                        /\ data.status = "stable")
<1>1. /\ R \subseteq Warnings /\ S \subseteq Warnings /\ T \subseteq Warnings
      /\ A \subseteq Warnings /\ U \subseteq Warnings
  BY DEF rule, Warnings
<1>2. check_metadata(data) = UNION {R, S, T, A, U}
  BY Zenon DEF check_metadata
<1> HIDE DEF R, S, T, A, U
<1> QED
  BY <1>1, <1>2

LEMMA Severities == /\ Warnings \subseteq Rules
                    /\ \A r \in OkfErrors \cup PolicyErrors : r \in Rules /\ r \notin Warnings
BY DEF Rules, Warnings, OkfErrors, PolicyErrors

\* Which rules a concept is told, the metadata's warnings aside.
LEMMA ConceptRules ==
  ASSUME NEW d \in Concept
  PROVE  /\ check(d) \subseteq Rules
         /\ "policy.adr.filename" \in check(d) <=> d.adr /\ ~d.named
         /\ "policy.adr.sections" \in check(d) <=> d.adr /\ ~d.sections
         /\ check(d) \subseteq Warnings <=> ConformingConcept(d)
<1> DEFINE A == IF d.adr THEN check_adr(d) ELSE {}
           M == rule("okf.frontmatter.missing", d.frontmatter \in {"none", "unterminated"})
           P == parse_frontmatter(d)
           T == rule("okf.type.missing", ~d.data.type)
           D == IF parsed(d) THEN T \cup check_metadata(d.data) ELSE {}
<1>0. check(d) = check_links(d) \cup A \cup M \cup P \cup D
  <2>1. check_concept(d) = A \cup M \cup P \cup D
    BY DEF check_concept
  <2>2. check(d) = check_links(d) \cup check_concept(d)
    BY CheckIs DEF Document
  <2> HIDE DEF A, M, P, D
  <2> QED
    BY <2>1, <2>2
<1>1. /\ d.adr \in BOOLEAN /\ d.named \in BOOLEAN /\ d.sections \in BOOLEAN
      /\ d.frontmatter \in Frontmatter /\ d.data.type \in BOOLEAN
  BY DEF Concept, Data
<1>2. \A r : r \in A <=> \/ r = "policy.adr.filename" /\ d.adr /\ ~d.named
                         \/ r = "policy.adr.sections" /\ d.adr /\ ~d.sections
  BY <1>1 DEF check_adr, rule
<1>3. \A r : r \in M \cup P <=>
        \/ r = "okf.frontmatter.missing" /\ d.frontmatter \in {"none", "unterminated"}
        \/ r = "okf.frontmatter.unparseable" /\ d.frontmatter \in {"unparseable", "not_mapping"}
  BY DEF parse_frontmatter, rule
<1>4. \A r : r \in T <=> r = "okf.type.missing" /\ ~d.data.type
  BY <1>1 DEF rule
<1>5. /\ D \subseteq T \cup Warnings
      /\ parsed(d) => T \subseteq D
      /\ ~parsed(d) => D = {}
  BY MetadataWarns
<1>6. parsed(d) <=> d.frontmatter = "mapping"
  BY DEF parsed
<1>7. check_links(d) \subseteq Warnings
  BY LinksWarn DEF Warnings
<1>8. /\ \A r \in A \cup M \cup P \cup T : r \in OkfErrors \cup PolicyErrors
      /\ "policy.adr.filename" \notin Warnings \cup M \cup P \cup T
      /\ "policy.adr.sections" \notin Warnings \cup M \cup P \cup T
  <2> HIDE DEF A, M, P, T
  <2> QED
    BY <1>2, <1>3, <1>4 DEF OkfErrors, PolicyErrors, Warnings
<1> HIDE DEF A, M, P, T, D
<1>9. check(d) \subseteq Rules
  BY <1>0, <1>5, <1>7, <1>8, Severities
<1>10. /\ "policy.adr.filename" \in check(d) <=> "policy.adr.filename" \in A
       /\ "policy.adr.sections" \in check(d) <=> "policy.adr.sections" \in A
  BY <1>0, <1>5, <1>7, <1>8
<1>11. check(d) \subseteq Warnings <=> A = {} /\ M \cup P = {} /\ (parsed(d) => T = {})
  BY <1>0, <1>5, <1>7, <1>8, Severities
<1>12. A = {} <=> (d.adr => d.named /\ d.sections)
  BY <1>1, <1>2
<1>13. M \cup P = {} <=> d.frontmatter = "mapping"
  BY <1>1, <1>3 DEF Frontmatter
<1>14. T = {} <=> d.data.type
  BY <1>1, <1>4
<1>15. check(d) \subseteq Warnings <=> ConformingConcept(d)
  BY <1>6, <1>11, <1>12, <1>13, <1>14 DEF ConformingConcept
<1> QED
  BY <1>2, <1>9, <1>10, <1>15

\* The same of an index.
LEMMA IndexRules ==
  ASSUME NEW d \in Index
  PROVE  /\ check(d) \subseteq Rules
         /\ check(d) \subseteq Warnings <=> ConformingIndex(d)
<1> DEFINE F == rule("okf.index.frontmatter", \/ d.frontmatter = "unterminated"
                                              \/ d.frontmatter # "none" /\ ~d.root)
           S == rule("okf.index.structure", ~(d.heading /\ d.bullet))
           P == parse_frontmatter(d)
           V == check_okf_version(d)
<1>0. check(d) = check_links(d) \cup F \cup S \cup (IF d.root THEN P \cup V ELSE {})
  <2>1. check_index(d) = UNION {F, S, IF d.root THEN P \cup V ELSE {}}
    BY Zenon DEF check_index
  <2>2. check(d) = check_links(d) \cup check_index(d)
    BY CheckIs DEF Document
  <2> HIDE DEF F, S, P, V
  <2> QED
    BY <2>1, <2>2
<1>1. /\ d.root \in BOOLEAN /\ d.heading \in BOOLEAN /\ d.bullet \in BOOLEAN
      /\ d.frontmatter \in Frontmatter /\ d.data.okf_version \in BOOLEAN
  BY DEF Index, Data
<1>2. /\ \A r \in F : r = "okf.index.frontmatter"
      /\ F = {} <=> /\ d.frontmatter # "unterminated"
                    /\ d.root \/ d.frontmatter = "none"
  BY <1>1 DEF rule
<1>3. /\ \A r \in S : r = "okf.index.structure"
      /\ S = {} <=> d.heading /\ d.bullet
  BY <1>1 DEF rule
<1>4. /\ \A r \in P : r = "okf.frontmatter.unparseable"
      /\ P = {} <=> d.frontmatter \notin {"unparseable", "not_mapping"}
  BY <1>1 DEF parse_frontmatter, rule
<1>5. /\ \A r \in V : r = "policy.okf_version"
      /\ V = {} <=> d.frontmatter = "mapping" /\ d.data.okf_version
  BY <1>1 DEF check_okf_version, parsed, rule
<1>6. check_links(d) \subseteq Warnings
  BY LinksWarn DEF Warnings
<1> HIDE DEF F, S, P, V
<1>7. \A r \in F \cup S \cup P \cup V : r \in Rules /\ r \notin Warnings
  BY <1>2, <1>3, <1>4, <1>5, Severities DEF OkfErrors, PolicyErrors
<1>8. check(d) \subseteq Rules
  BY <1>0, <1>6, <1>7, Severities
<1>9. check(d) \subseteq Warnings <=> F = {} /\ S = {} /\ (d.root => P = {} /\ V = {})
  BY <1>0, <1>6, <1>7
<1>10. check(d) \subseteq Warnings <=> ConformingIndex(d)
  BY <1>1, <1>2, <1>3, <1>4, <1>5, <1>9 DEF ConformingIndex, Frontmatter
<1> QED
  BY <1>8, <1>10

-----------------------------------------------------------------------------
(* Logs.                                                                   *)

\* A heading of a log carries a date or the mark of none.
LEMMA HeadingsAre ==
  ASSUME NEW h \in Seq(Heading)
  PROVE  /\ Len(h) \in Nat
         /\ DOMAIN h = 1 .. Len(h)
         /\ \A i \in DOMAIN h : h[i] \in Heading /\ (Dated(h[i]) => h[i].date \in Nat)
<1>1. \A i \in DOMAIN h : h[i] \in Heading
  OBVIOUS
<1>2. \A heading \in Heading : Dated(heading) => heading.date \in Nat
  BY ConstantsAssumption DEF Heading, Dated
<1> QED
  BY <1>1, <1>2

\* groups() drops at most the first heading, which is undated then.
LEMMA GroupsAre ==
  ASSUME NEW h \in Seq(Heading)
  PROVE  \E k \in {0, 1} :
           /\ k <= Len(h)
           /\ k = 1 <=> h # << >> /\ h[1].top /\ ~Dated(h[1])
           /\ groups(h) \in Seq(Heading)
           /\ Len(groups(h)) = Len(h) - k
           /\ \A i \in DOMAIN groups(h) : i + k \in DOMAIN h /\ groups(h)[i] = h[i + k]
<1> DEFINE Titled == h # << >> /\ h[1].top /\ ~Dated(h[1])
           Dropped(k) ==
             /\ k <= Len(h)
             /\ k = 1 <=> Titled
             /\ groups(h) \in Seq(Heading)
             /\ Len(groups(h)) = Len(h) - k
             /\ \A i \in DOMAIN groups(h) : i + k \in DOMAIN h /\ groups(h)[i] = h[i + k]
<1>1. Len(h) \in Nat /\ DOMAIN h = 1 .. Len(h)
  OBVIOUS
<1>2. CASE Titled
  <2>1. groups(h) = Tail(h) /\ 1 <= Len(h)
    BY <1>2 DEF groups, Dated
  <2>2. Tail(h) \in Seq(Heading) /\ Len(Tail(h)) = Len(h) - 1
    BY <1>2
  <2>3. \A i \in DOMAIN Tail(h) : i + 1 \in DOMAIN h /\ Tail(h)[i] = h[i + 1]
    BY <1>2, <1>1
  <2>4. Dropped(1)
    BY <1>2, <2>1, <2>2, <2>3
  <2> QED
    BY <2>4
<1>3. CASE ~Titled
  <2>1. groups(h) = h
    BY <1>3 DEF groups, Dated
  <2>2. /\ 0 <= Len(h) /\ Len(h) = Len(h) - 0
        /\ \A i \in DOMAIN h : i + 0 \in DOMAIN h /\ h[i] = h[i + 0]
    BY <1>1
  <2> HIDE DEF Titled
  <2>3. Dropped(0)
    BY <1>3, <2>1, <2>2
  <2> QED
    BY <2>3 DEF Titled
<1> QED
  BY <1>2, <1>3

\* There is a least element of a set of natural numbers that has one.
Less == {p \in Nat \X Nat : p[1] < p[2]}
LEMMA LessWellFounded == IsWellFoundedOn(Less, Nat)
<1>1. OpToRel(<, Nat) = Less
  BY DEF OpToRel, Less
<1> QED
  BY <1>1, NatLessThanWellFounded
LEMMA LeastOf ==
  ASSUME NEW S \in SUBSET Nat, S # {}
  PROVE  \E m \in S : \A n \in S : m <= n
<1>1. PICK m \in S : \A n \in S : <<n, m>> \notin Less
  BY LessWellFounded, WFMin
<1>2. \A x, y \in Nat : x < y => <<x, y>> \in Less
  BY DEF Less
<1>3. ASSUME NEW n \in S PROVE m <= n
  <2>1. m \in Nat /\ n \in Nat
    OBVIOUS
  <2>2. ~(n < m)
    BY <1>1, <1>2, <2>1
  <2> QED
    BY <2>1, <2>2
<1> QED
  BY <1>3

\* Comparing each date with the next one compares it with all that follow: a
\* misplaced pair with the fewest headings between has no dated one there.
LEMMA NeighboursDecide ==
  ASSUME NEW h \in Seq(Heading)
  PROVE  newest_first(h) <=>
           \A m, n \in DOMAIN h :
             m < n /\ Dated(h[m]) /\ Dated(h[n]) => h[m].date >= h[n].date
<1> DEFINE Misplaced(m, n) ==
             m < n /\ Dated(h[m]) /\ Dated(h[n]) /\ h[m].date < h[n].date
<1>1. /\ Len(h) \in Nat /\ DOMAIN h = 1 .. Len(h)
      /\ \A i \in DOMAIN h : Dated(h[i]) => h[i].date \in Nat
  BY HeadingsAre
<1>2. ASSUME NEW m \in DOMAIN h, NEW n \in DOMAIN h, Misplaced(m, n)
      PROVE  ~newest_first(h)
  <2> DEFINE Gaps == {g \in Nat : \E i, j \in DOMAIN h : g = j - i /\ Misplaced(i, j)}
  <2>1. n - m \in Gaps
    BY <1>1, <1>2
  <2> HIDE DEF Gaps
  <2>2. Gaps \in SUBSET Nat /\ Gaps # {}
    BY <2>1 DEF Gaps
  <2>3. PICK least \in Gaps : \A g \in Gaps : least <= g
    BY <2>2, LeastOf
  <2>4. PICK i \in DOMAIN h, j \in DOMAIN h : least = j - i /\ Misplaced(i, j)
    BY <2>3 DEF Gaps
  <2>5. ASSUME NEW k \in i + 1 .. j - 1, Dated(h[k]) PROVE FALSE
    <3>1. k \in DOMAIN h /\ i < k /\ k < j /\ i \in Nat /\ j \in Nat /\ k \in Nat
      BY <1>1
    <3>2. Misplaced(i, k) \/ Misplaced(k, j)
      BY <1>1, <2>4, <2>5, <3>1
    <3> HIDE DEF Misplaced
    <3>3. k - i \in Gaps \/ j - k \in Gaps
      BY <3>1, <3>2 DEF Gaps
    <3> QED
      BY <2>3, <2>4, <3>1, <3>3
  <2> QED
    BY <1>1, <2>4, <2>5 DEF newest_first
<1>3. (\A m, n \in DOMAIN h : ~Misplaced(m, n)) => newest_first(h)
  BY <1>1 DEF newest_first
<1> QED
  BY <1>1, <1>2, <1>3

\* The same of a log.
LEMMA LogRules ==
  ASSUME NEW d \in Log
  PROVE  /\ check(d) \subseteq Rules
         /\ check(d) \subseteq Warnings <=> ConformingLog(d)
         /\ "warn.log.order" \in check(d) <=>
              \E m, n \in DOMAIN d.headings :
                /\ m < n
                /\ d.headings[m].date # NoDate /\ d.headings[n].date # NoDate
                /\ d.headings[m].date < d.headings[n].date
<1> DEFINE h == d.headings
           found == groups(h)
           Undated == \E i \in DOMAIN found : ~Dated(found[i])
           U == rule("okf.log.date", Undated)
           O == rule("warn.log.order", ~newest_first(found))
<1>0. h \in Seq(Heading)
  BY DEF Log
<1> HIDE DEF h
<1>1. PICK k \in {0, 1} :
        /\ k <= Len(h)
        /\ k = 1 <=> h # << >> /\ h[1].top /\ ~Dated(h[1])
        /\ found \in Seq(Heading)
        /\ Len(found) = Len(h) - k
        /\ \A i \in DOMAIN found : i + k \in DOMAIN h /\ found[i] = h[i + k]
  BY <1>0, GroupsAre
<1>2. /\ Len(h) \in Nat /\ DOMAIN h = 1 .. Len(h)
      /\ Len(found) \in Nat /\ DOMAIN found = 1 .. Len(found)
      /\ \A i \in DOMAIN h : h[i] \in Heading /\ (Dated(h[i]) => h[i].date \in Nat)
  BY <1>0, <1>1, HeadingsAre
<1> HIDE DEF found
<1>3. check(d) = check_links(d) \cup (IF found = << >> THEN {"okf.log.structure"} ELSE U \cup O)
  <2>1. check(d) = check_links(d) \cup check_log(d)
    BY CheckIs DEF Document
  <2>2. check_log(d) = IF found = << >> THEN {"okf.log.structure"} ELSE U \cup O
    BY Zenon DEF check_log, found, h
  <2> QED
    BY <2>1, <2>2
<1>4. check_links(d) \subseteq {"warn.link.broken"}
  BY LinksWarn
<1>5. /\ \A r \in U : r = "okf.log.date"
      /\ U = {} <=> ~Undated
      /\ \A r \in O : r = "warn.log.order"
      /\ "warn.log.order" \in O <=> ~newest_first(found)
  <2> HIDE DEF Undated
  <2>1. /\ \A r \in U : r = "okf.log.date"
        /\ U = {} <=> ~Undated
    BY DEF rule
  <2>2. /\ \A r \in O : r = "warn.log.order"
        /\ "warn.log.order" \in O <=> ~newest_first(found)
    BY DEF rule
  <2> QED
    BY <2>1, <2>2
<1>6. check(d) \subseteq Rules
  <2> HIDE DEF U, O
  <2> QED
    BY <1>3, <1>4, <1>5 DEF Rules, OkfErrors, Warnings
<1>7. check(d) \subseteq Warnings <=> found # << >> /\ ~Undated
  <2> HIDE DEF U, O, Undated
  <2>1. {"okf.log.structure", "okf.log.date"} \cap Warnings = {}
        /\ {"warn.link.broken", "warn.log.order"} \subseteq Warnings
    BY DEF Warnings
  <2> QED
    BY <1>3, <1>4, <1>5, <2>1
<1>8. found # << >> /\ ~Undated <=> ConformingLog(d)
  <2>1. found # << >> <=> 1 <= Len(found)
    BY <1>1, <1>2
  <2>2. ConformingLog(d) <=>
          \E first \in {1, 2} :
            /\ first <= Len(h)
            /\ \A i \in first .. Len(h) : Dated(h[i])
            /\ first = 2 => h[1].top /\ ~Dated(h[1])
    BY DEF ConformingLog, Dated, h
  <2>3. ASSUME found # << >>, ~Undated PROVE ConformingLog(d)
    <3>1. k + 1 \in {1, 2} /\ k + 1 <= Len(h)
      BY <1>1, <1>2, <2>1, <2>3
    <3>2. ASSUME NEW i \in k + 1 .. Len(h) PROVE Dated(h[i])
      <4>1. i - k \in DOMAIN found /\ (i - k) + k = i
        BY <1>1, <1>2
      <4> QED
        BY <1>1, <2>3, <4>1
    <3>3. k + 1 = 2 => h[1].top /\ ~Dated(h[1])
      BY <1>1
    <3> QED
      BY <2>2, <3>1, <3>2, <3>3
  <2>4. ASSUME ConformingLog(d) PROVE found # << >> /\ ~Undated
    <3>1. PICK first \in {1, 2} : /\ first <= Len(h)
                                  /\ \A i \in first .. Len(h) : Dated(h[i])
                                  /\ first = 2 => h[1].top /\ ~Dated(h[1])
      BY <2>2, <2>4
    <3>2. first = k + 1
      <4>1. h # << >> /\ (first = 1 => Dated(h[1]))
        BY <1>0, <1>2, <3>1
      <4> QED
        BY <1>1, <3>1, <4>1
    <3> QED
      BY <1>1, <1>2, <2>1, <3>1, <3>2
  <2> QED
    BY <2>3, <2>4
<1>9. "warn.log.order" \in check(d) <=> found # << >> /\ ~newest_first(found)
  <2> HIDE DEF U, O
  <2> QED
    BY <1>3, <1>4, <1>5
<1>10. found # << >> /\ ~newest_first(found) <=>
         \E m, n \in DOMAIN h : m < n /\ Dated(h[m]) /\ Dated(h[n]) /\ h[m].date < h[n].date
  <2>1. newest_first(found) <=>
          \A m, n \in DOMAIN found :
            m < n /\ Dated(found[m]) /\ Dated(found[n]) => found[m].date >= found[n].date
    BY <1>1, NeighboursDecide
  <2>2. ASSUME ~newest_first(found)
        PROVE  \E m, n \in DOMAIN h :
                 m < n /\ Dated(h[m]) /\ Dated(h[n]) /\ h[m].date < h[n].date
    <3>1. PICK m \in DOMAIN found, n \in DOMAIN found :
            m < n /\ Dated(found[m]) /\ Dated(found[n]) /\ ~(found[m].date >= found[n].date)
      BY <2>1, <2>2
    <3>2. m + k \in DOMAIN h /\ n + k \in DOMAIN h /\ m + k < n + k
          /\ found[m] = h[m + k] /\ found[n] = h[n + k]
      BY <1>1, <1>2, <3>1
    <3>3. h[m + k].date \in Nat /\ h[n + k].date \in Nat
      BY <1>2, <3>1, <3>2
    <3>4. Dated(h[m + k]) /\ Dated(h[n + k]) /\ h[m + k].date < h[n + k].date
      BY <3>1, <3>2, <3>3
    <3> QED
      BY <3>2, <3>4
  <2>3. ASSUME NEW m \in DOMAIN h, NEW n \in DOMAIN h,
               m < n, Dated(h[m]), Dated(h[n]), h[m].date < h[n].date
        PROVE  found # << >> /\ ~newest_first(found)
    <3>1. k < m
      BY <1>1, <1>2, <2>3
    <3>2. /\ m - k \in DOMAIN found /\ n - k \in DOMAIN found /\ m - k < n - k
          /\ (m - k) + k = m /\ (n - k) + k = n
      BY <1>1, <1>2, <2>3, <3>1
    <3>3. found[m - k] = h[m] /\ found[n - k] = h[n]
      BY <1>1, <3>2
    <3>4. h[m].date \in Nat /\ h[n].date \in Nat
      BY <1>2, <2>3
    <3>5. ~(found[m - k].date >= found[n - k].date)
      BY <2>3, <3>3, <3>4
    <3>6. found # << >>
      BY <1>1, <1>2, <3>2
    <3> QED
      BY <2>1, <2>3, <3>2, <3>3, <3>5, <3>6
  <2> QED
    BY <2>2, <2>3
<1>11. "warn.log.order" \in check(d) <=>
         \E m, n \in DOMAIN h : m < n /\ Dated(h[m]) /\ Dated(h[n]) /\ h[m].date < h[n].date
  BY <1>9, <1>10
<1> QED
  BY <1>6, <1>7, <1>8, <1>11 DEF Dated, h

\* A document is told an error exactly when it does not conform.
LEMMA VerdictIs ==
  ASSUME NEW d \in Document
  PROVE  /\ check(d) \subseteq Rules
         /\ check(d) \subseteq Warnings <=> Conforming(d)
<1>1. CASE d \in Concept
  BY <1>1, ConceptRules, ConformingIs DEF Concept
<1>2. CASE d \in Index
  BY <1>2, IndexRules, ConformingIs DEF Index
<1>3. CASE d \in Log
  BY <1>3, LogRules, ConformingIs DEF Log
<1> QED
  BY <1>1, <1>2, <1>3 DEF Document

-----------------------------------------------------------------------------
(* The run.                                                                *)

LEMMA VerdictsAreRules ==
  ASSUME bundle \in Bundles, NEW i \in 0 .. Len(bundle) PROVE Verdicts(i) \subseteq Rules
<1>1. CASE i = 0
  BY <1>1 DEF Verdicts, rule, Rules, PolicyErrors
<1>2. CASE i # 0
  <2>1. bundle[i] \in Document
    BY <1>2, DocumentIs
  <2> QED
    BY <1>2, <2>1, VerdictIs DEF Verdicts
<1> QED
  BY <1>1, <1>2

\* The findings about one document complete those about the ones before it.
LEMMA Collects ==
  ASSUME bundle \in Bundles, bundle' = bundle, Collected, NEW i \in 0 .. Len(bundle), next = i,
         findings' = findings \cup {<<i, r>> : r \in Verdicts(i)}, next' = i + 1
  PROVE  Collected' /\ findings' \subseteq (0 .. Len(bundle)) \X Rules
<1> DEFINE All == (0 .. Len(bundle)) \X Rules
           Upto(n) == {f \in All : f[1] < n /\ f[2] \in Verdicts(f[1])}
           New == {<<i, r>> : r \in Verdicts(i)}
<1>1. findings = Upto(i)
  BY DEF Collected
<1>2. Len(bundle) \in Nat /\ Verdicts(i) \subseteq Rules
  BY DocumentIs, VerdictsAreRules
<1>3. New \subseteq Upto(i + 1)
  BY <1>2
<1>4. Upto(i) \subseteq Upto(i + 1)
  BY <1>2
<1>5. ASSUME NEW f \in Upto(i + 1) PROVE f \in Upto(i) \cup New
  <2>1. f = <<f[1], f[2]>> /\ f[1] \in 0 .. Len(bundle) /\ f[2] \in Rules
    OBVIOUS
  <2>2. CASE f[1] < i
    BY <2>2, <1>5
  <2>3. CASE ~(f[1] < i)
    <3>1. f[1] = i
      BY <1>2, <2>1, <2>3, <1>5
    <3> QED
      BY <1>5, <2>1, <3>1
  <2> QED
    BY <2>2, <2>3
<1>6. findings' = Upto(i + 1)
  <2> HIDE DEF Upto, New
  <2>1. findings' = findings \cup New
    BY DEF New
  <2> QED
    BY <1>1, <1>3, <1>4, <1>5, <2>1
<1>7. \A f : Verdicts(f)' = Verdicts(f)
  BY DEF Verdicts, HasRoot
<1>8. Collected' <=> findings' = {f \in All : f[1] < next' /\ f[2] \in Verdicts(f[1])'}
  BY DEF Collected
<1>9. Collected' <=> findings' = Upto(i + 1)
  BY <1>7, <1>8
<1> QED
  BY <1>6, <1>9

\* There are no more concepts before a document than there are concepts.
LEMMA ConceptsAreFinite ==
  ASSUME bundle \in Bundles, NEW n \in 0 .. Len(bundle) + 1
  PROVE  /\ IsFiniteSet(ConceptsBefore(n)) /\ Cardinality(ConceptsBefore(n)) \in Nat
         /\ Cardinality(ConceptsBefore(n)) \in
              0 .. Cardinality({i \in DOMAIN bundle : bundle[i].name = "concept"})
<1> DEFINE C == {i \in DOMAIN bundle : bundle[i].name = "concept"}
<1>1. Len(bundle) \in Nat /\ DOMAIN bundle = 1 .. Len(bundle)
  BY DocumentIs
<1>2. IsFiniteSet(1 .. Len(bundle))
  BY <1>1, FS_Interval
<1>3. C \subseteq 1 .. Len(bundle) /\ ConceptsBefore(n) \subseteq C
  BY <1>1 DEF ConceptsBefore
<1> HIDE DEF C
<1>4. IsFiniteSet(C)
  BY <1>2, <1>3, FS_Subset
<1>5. IsFiniteSet(ConceptsBefore(n)) /\ Cardinality(ConceptsBefore(n)) <= Cardinality(C)
  BY <1>3, <1>4, FS_Subset
<1>6. Cardinality(C) \in Nat /\ Cardinality(ConceptsBefore(n)) \in Nat
  BY <1>4, <1>5, FS_CardinalityType
<1>7. Cardinality(ConceptsBefore(n)) \in 0 .. Cardinality(C)
  BY <1>5, <1>6
<1> QED
  BY <1>5, <1>6, <1>7 DEF C

LEMMA Initially == Init => IInv
<1> SUFFICES ASSUME Init PROVE IInv
  OBVIOUS
<1>1. bundle \in Bundles /\ Len(bundle) \in Nat
  BY DocumentIs DEF Init
<1>2. Collected
  <2>1. {f \in (0 .. Len(bundle)) \X Rules : f[1] < 0 /\ f[2] \in Verdicts(f[1])} = {}
    BY <1>1
  <2> QED
    BY <2>1 DEF Init, Collected
<1>3. Counted
  <2>1. ConceptsBefore(next) = {}
    BY DEF ConceptsBefore, Init
  <2> QED
    BY <2>1, FS_EmptySet DEF Counted, Init
<1>4. TypeOK
  <2>1. 0 \in 0 .. Cardinality({i \in DOMAIN bundle : bundle[i].name = "concept"})
    <3>1. 0 \in 0 .. Len(bundle) + 1 /\ ConceptsBefore(0) = {}
      BY <1>1 DEF ConceptsBefore
    <3> QED
      BY <1>1, <3>1, ConceptsAreFinite, FS_EmptySet
  <2>2. next \in 0 .. Len(bundle) + 1
    BY <1>1 DEF Init
  <2> QED
    BY <2>1, <2>2 DEF Init, TypeOK
<1>5. Passed /\ Exit
  BY DEF Init, Passed, Exit
<1> QED
  BY <1>1, <1>2, <1>3, <1>4, <1>5 DEF IInv

LEMMA RootKeeps == ASSUME IInv, CheckRoot PROVE IInv'
<1>1. /\ TypeOK /\ bundle \in Bundles /\ Collected /\ Counted /\ next = 0 /\ next' = 1
      /\ bundle' = bundle /\ concepts' = concepts /\ status' = status /\ written' = written
      /\ Len(bundle) \in Nat
  BY DocumentIs DEF IInv, CheckRoot
<1>2. findings = {}
  <2>1. {f \in (0 .. Len(bundle)) \X Rules : f[1] < 0 /\ f[2] \in Verdicts(f[1])} = {}
    BY <1>1
  <2> QED
    BY <1>1, <2>1 DEF Collected
<1>3. findings' = findings \cup {<<0, r>> : r \in Verdicts(0)}
  BY <1>2 DEF CheckRoot, Verdicts
<1>4. Collected' /\ findings' \subseteq (0 .. Len(bundle)) \X Rules
  <2>1. 0 \in 0 .. Len(bundle) /\ next' = 0 + 1
    BY <1>1
  <2> QED
    BY <1>1, <1>3, <2>1, Collects
<1>5. Counted'
  <2>1. ConceptsBefore(0) = {} /\ ConceptsBefore(1)' = {}
    BY DEF ConceptsBefore
  <2> QED
    BY <1>1, <2>1 DEF Counted
<1>6. TypeOK'
  <2>1. next' \in 0 .. Len(bundle) + 1
    BY <1>1
  <2> QED
    BY <1>1, <1>4, <2>1 DEF TypeOK, CheckRoot
<1>7. Passed' /\ Exit'
  <2>1. status = "running" /\ ~written /\ Sound /\ environment' = environment
    BY DEF IInv, Exit, CheckRoot, Sound
  <2>2. Sound'
    BY <2>1 DEF Sound
  <2> QED
    BY <1>1, <2>1, <2>2 DEF Passed, Exit
<1> QED
  BY <1>1, <1>4, <1>5, <1>6, <1>7 DEF IInv

LEMMA DocumentKeeps == ASSUME IInv, CheckDocument PROVE IInv'
<1> DEFINE d == bundle[next]
<1>1. /\ TypeOK /\ bundle \in Bundles /\ Collected /\ Counted
      /\ bundle' = bundle /\ status' = status /\ written' = written /\ next' = next + 1
      /\ next \in DOMAIN bundle /\ environment' = environment
  BY DEF IInv, CheckDocument
<1>2. /\ Len(bundle) \in Nat /\ DOMAIN bundle = 1 .. Len(bundle)
      /\ next \in 1 .. Len(bundle) /\ next' \in 0 .. Len(bundle) + 1
  BY <1>1, DocumentIs
<1>3. Collected' /\ findings' \subseteq (0 .. Len(bundle)) \X Rules
  <2>1. findings' = findings \cup {<<next, r>> : r \in Verdicts(next)}
    BY <1>2 DEF CheckDocument, Verdicts
  <2>2. next \in 0 .. Len(bundle)
    BY <1>2
  <2> QED
    BY <1>1, <2>1, <2>2, Collects
<1>4. concepts' = Cardinality(ConceptsBefore(next + 1))
  <2>0. next \in 0 .. Len(bundle) + 1
    BY <1>2
  <2>1. IsFiniteSet(ConceptsBefore(next)) /\ Cardinality(ConceptsBefore(next)) \in Nat
    BY <1>1, <2>0, ConceptsAreFinite
  <2>2. next \notin ConceptsBefore(next)
    BY <1>2 DEF ConceptsBefore
  <2>3. CASE d.name = "concept"
    <3>1. ConceptsBefore(next + 1) = ConceptsBefore(next) \cup {next}
      BY <1>2, <2>3 DEF ConceptsBefore
    <3>2. Cardinality(ConceptsBefore(next) \cup {next}) = Cardinality(ConceptsBefore(next)) + 1
      BY <2>1, <2>2, FS_AddElement
    <3> QED
      BY <1>1, <2>3, <3>1, <3>2 DEF CheckDocument, counted, Counted
  <2>4. CASE d.name # "concept"
    <3>1. ConceptsBefore(next + 1) = ConceptsBefore(next)
      BY <1>2, <2>4 DEF ConceptsBefore
    <3> QED
      BY <1>1, <2>1, <2>4, <3>1 DEF CheckDocument, counted, Counted
  <2> QED
    BY <2>3, <2>4
<1>5. Counted'
  <2>1. ConceptsBefore(next)' = ConceptsBefore(next + 1)
    BY <1>1 DEF ConceptsBefore
  <2> QED
    BY <1>1, <1>4, <2>1 DEF Counted
<1>6. TypeOK'
  <2>1. next + 1 \in 0 .. Len(bundle) + 1
    BY <1>2
  <2>2. concepts' \in 0 .. Cardinality({i \in DOMAIN bundle : bundle[i].name = "concept"})
    BY <1>1, <1>4, <2>1, ConceptsAreFinite
  <2> QED
    BY <1>1, <1>2, <1>3, <2>2 DEF TypeOK
<1>7. Passed' /\ Exit'
  <2>1. /\ status = "running" /\ ~written /\ ~raises(bundle[next])
        /\ Sound /\ Sound' = Sound /\ Passed
    BY <1>1, <1>2 DEF IInv, Exit, CheckDocument, Sound
  <2>2. \A i \in 1 .. next' - 1 : i \in 1 .. next - 1 \/ i = next
    BY <1>1, <1>2
  <2>3. Passed'
    <3>1. Passed' <=> \A i \in 1 .. next' - 1 : ~raises(bundle[i])
      BY <1>1 DEF Passed
    <3>2. \A i \in 1 .. next - 1 : ~raises(bundle[i])
      BY <2>1 DEF Passed
    <3>3. ~raises(bundle[next])
      BY <2>1
    <3> QED
      BY <2>2, <3>1, <3>2, <3>3
  <2> QED
    BY <1>1, <2>1, <2>3 DEF Exit
<1> QED
  BY <1>1, <1>3, <1>5, <1>6, <1>7 DEF IInv

LEMMA StepKeeps == IInv /\ [Next]_vars => IInv'
<1> SUFFICES ASSUME IInv, [Next]_vars PROVE IInv'
  OBVIOUS
<1>0. UNCHANGED <<bundle, next, findings, concepts>> =>
        /\ Collected' = Collected /\ Counted' = Counted /\ Passed' = Passed
        /\ errors' = errors
  BY DEF Collected, Counted, Passed, errors, Verdicts, ConceptsBefore, HasRoot
<1>1. CASE Refuse
  BY <1>0, <1>1 DEF Refuse, IInv, TypeOK, Exit, Sound
<1>2. CASE CheckRoot
  BY <1>2, RootKeeps
<1>3. CASE CheckDocument
  BY <1>3, DocumentKeeps
<1>4. CASE Raise
  BY <1>0, <1>4 DEF Raise, IInv, TypeOK, Exit, Sound
<1>5. CASE Finish
  <2>1. Len(bundle) \in Nat
    BY DocumentIs DEF IInv
  <2> QED
    BY <1>0, <1>5, <2>1 DEF Finish, IInv, TypeOK, Exit, Sound
<1>6. CASE UNCHANGED vars
  BY <1>0, <1>6 DEF vars, IInv, TypeOK, Exit, Sound
<1> QED
  BY <1>1, <1>2, <1>3, <1>4, <1>5, <1>6 DEF Next, Exited

LEMMA Invariant == Spec => []IInv
  BY Initially, StepKeeps, PTL DEF Spec

\* The run's state is of its type: it counts no more concepts than there are.
THEOREM TypeCorrect == Spec => []TypeOK
<1>1. IInv => TypeOK
  BY DEF IInv
<1> QED BY <1>1, Invariant, PTL

\* What the report holds about a document, once it is written.
LEMMA ReportIs ==
  ASSUME IInv, written, NEW i \in 0 .. Len(bundle), NEW r
  PROVE  <<i, r>> \in findings <=> r \in Verdicts(i)
<1>1. bundle \in Bundles /\ Collected /\ next = Len(bundle) + 1 /\ Len(bundle) \in Nat
  BY DocumentIs DEF IInv, Exit
<1>2. Verdicts(i) \subseteq Rules /\ i < next
  BY <1>1, VerdictsAreRules
<1> QED
  BY <1>1, <1>2 DEF Collected

\* The report holds an error exactly when the verdict is against the bundle.
LEMMA ErrorsAreVerdict == ASSUME IInv, written PROVE errors = {} <=> Verdict
<1>1. /\ bundle \in Bundles /\ Len(bundle) \in Nat /\ DOMAIN bundle = 1 .. Len(bundle)
      /\ \A i \in DOMAIN bundle : bundle[i] \in Document
  BY DocumentIs DEF IInv
<1>2. \A i \in 0 .. Len(bundle) : \A r : <<i, r>> \in findings <=> r \in Verdicts(i)
  BY ReportIs
<1>3. errors = {} <=> \A i \in 0 .. Len(bundle) : Verdicts(i) \subseteq Warnings
  <2>1. findings \subseteq (0 .. Len(bundle)) \X Rules
    BY DEF IInv, TypeOK
  <2>2. ASSUME errors = {}, NEW i \in 0 .. Len(bundle), NEW r \in Verdicts(i)
        PROVE  r \in Warnings
    <3>1. <<i, r>> \in findings
      BY <1>2, <2>2
    <3> QED
      BY <2>2, <3>1 DEF errors
  <2>3. ASSUME \A i \in 0 .. Len(bundle) : Verdicts(i) \subseteq Warnings,
               NEW f \in findings
        PROVE  f[2] \in Warnings
    <3>1. f[1] \in 0 .. Len(bundle) /\ f = <<f[1], f[2]>>
      BY <2>1
    <3>2. f[2] \in Verdicts(f[1])
      BY <1>2, <3>1
    <3> QED
      BY <2>3, <3>1, <3>2
  <2> QED
    BY <2>2, <2>3 DEF errors
<1>4. Verdicts(0) \subseteq Warnings <=> HasRoot(bundle)
  BY DEF Verdicts, rule, Warnings
<1>5. ASSUME NEW i \in 1 .. Len(bundle)
      PROVE  Verdicts(i) \subseteq Warnings <=> Conforming(bundle[i])
  BY <1>1, VerdictIs DEF Verdicts
<1>6. errors = {} <=> Verdict
  <2>1. \A i : i \in 0 .. Len(bundle) <=> i = 0 \/ i \in 1 .. Len(bundle)
    BY <1>1
  <2> QED
    BY <1>1, <1>3, <1>4, <1>5, <2>1 DEF Verdict
<1> QED
  BY <1>6

\* Of a bundle that is checked a report is written exactly when no document
\* raises: a run that ends without one stands at a document that does, and one
\* that ends with it has passed them all.
LEMMA WrittenIfNoneRaises ==
  ASSUME IInv, status \in {"0", "1"}
  PROVE  written <=> \A i \in DOMAIN bundle : ~raises(bundle[i])
<1>1. Len(bundle) \in Nat /\ DOMAIN bundle = 1 .. Len(bundle)
  BY DocumentIs DEF IInv
<1>2. CASE written
  <2>1. next - 1 = Len(bundle)
    BY <1>1, <1>2 DEF IInv, Exit
  <2> QED
    BY <1>1, <1>2, <2>1 DEF IInv, Passed
<1>3. CASE ~written
  BY <1>3 DEF IInv, Exit
<1> QED
  BY <1>2, <1>3

\* A run ends with 2 exactly when PyYAML or the directory is missing.  Any other
\* run that ends writes its report unless a document raises, and ends with 0
\* exactly when it has written one and the bundle has a root index and conforms,
\* whatever order the checks of check_bundle() and their early returns come in.
THEOREM ExitIsTheVerdict == Spec => []ExitIsVerdict
<1>1. ASSUME IInv PROVE ExitIsVerdict
  <2> SUFFICES ASSUME status # "running" PROVE ExitIsVerdict
    BY DEF ExitIsVerdict
  <2>1. status \in {"0", "1", "2"} /\ next \in Nat /\ Len(bundle) \in Nat
    BY <1>1, DocumentIs DEF IInv, TypeOK
  <2>2. CASE status = "2"
    <3>1. ~Sound
      BY <1>1, <2>2 DEF IInv, Exit
    <3> QED
      BY <2>2, <3>1 DEF ExitIsVerdict, Sound
  <2>3. CASE status \in {"0", "1"}
    <3>1. written <=> \A i \in DOMAIN bundle : ~raises(bundle[i])
      BY <1>1, <2>3, WrittenIfNoneRaises
    <3>2. Sound
      <4>1. next > 0
        BY <1>1, <2>1, <2>3, DocumentIs DEF IInv, Exit
      <4> QED
        BY <1>1, <4>1 DEF IInv, Exit
    <3>3. written => (errors = {} <=> Verdict)
      BY <1>1, ErrorsAreVerdict
    <3>4. status = "0" <=> written /\ Verdict
      BY <1>1, <2>3, <3>3 DEF IInv, Exit
    <3> QED
      BY <2>3, <3>1, <3>2, <3>4 DEF ExitIsVerdict, Sound
  <2> QED
    BY <2>1, <2>2, <2>3
<1> QED BY <1>1, Invariant, PTL

\* check_adr() is reached for every ADR: no early return of check_concept()
\* hides a wrong name or a missing section from the first report.
THEOREM AdrsAreChecked == Spec => []AdrsAlwaysChecked
<1>1. ASSUME IInv PROVE AdrsAlwaysChecked
  <2> SUFFICES ASSUME written, NEW i \in DOMAIN bundle,
                      bundle[i].name = "concept", bundle[i].adr
               PROVE  /\ <<i, "policy.adr.filename">> \in findings <=> ~bundle[i].named
                      /\ <<i, "policy.adr.sections">> \in findings <=> ~bundle[i].sections
    BY Zenon DEF AdrsAlwaysChecked
  <2>1. /\ bundle \in Bundles /\ i \in 0 .. Len(bundle) /\ i # 0 /\ bundle[i] \in Document
    BY <1>1, DocumentIs DEF IInv
  <2>2. bundle[i] \in Concept
    BY <2>1 DEF Document, Index, Log
  <2>3. \A r : <<i, r>> \in findings <=> r \in check(bundle[i])
    BY <1>1, <2>1, ReportIs DEF Verdicts
  <2> QED
    BY <2>2, <2>3, ConceptRules
<1> QED BY <1>1, Invariant, PTL

\* check_log() compares only neighbours among the dates it could parse, and
\* still reports every log in which some older entry stands above a newer one.
THEOREM LogOrderIsReported == Spec => []LogOrderReported
<1>1. ASSUME IInv PROVE LogOrderReported
  <2> SUFFICES ASSUME written, NEW i \in DOMAIN bundle, bundle[i].name = "log"
               PROVE  <<i, "warn.log.order">> \in findings <=>
                        \E m, n \in DOMAIN bundle[i].headings :
                          /\ m < n
                          /\ bundle[i].headings[m].date # NoDate
                          /\ bundle[i].headings[n].date # NoDate
                          /\ bundle[i].headings[m].date < bundle[i].headings[n].date
    BY Zenon DEF LogOrderReported
  <2>1. /\ bundle \in Bundles /\ i \in 0 .. Len(bundle) /\ i # 0 /\ bundle[i] \in Document
    BY <1>1, DocumentIs DEF IInv
  <2>2. bundle[i] \in Log
    BY <2>1 DEF Document, Index, Concept
  <2>3. \A r : <<i, r>> \in findings <=> r \in check(bundle[i])
    BY <1>1, <2>1, ReportIs DEF Verdicts
  <2> QED
    BY <2>2, <2>3, LogRules
<1> QED BY <1>1, Invariant, PTL

-----------------------------------------------------------------------------
(* CodeFences.  Aligned and ReadersAgree are each inductive beside the     *)
(* types: the first speaks of the body alone, the second of the two        *)
(* scanners.                                                               *)

\* The scanner's fence is the character of Markdown's open block, as long as
\* every marker has fenced for both of them or for neither.
Aligned ==
  ~misread => /\ structure.kept = outside
              /\ block = None => structure.fence = None
              /\ block # None => structure.fence = block.char

FencesIInv == FencesTypeOK /\ Aligned /\ ReadersAgree

LEMMA ReadIsNat == ASSUME FencesTypeOK, Advance
                   PROVE  /\ read \in Nat /\ read' = read + 1 /\ read' \in 0 .. MaxLines
                          /\ bom' \in BOOLEAN
                          /\ body \in Nat /\ body <= read
BY FencesAssumption DEF FencesTypeOK, Advance

\* A scanner over the lines from first on stays one, and what it keeps grows by
\* the line that is read or not at all.
LEMMA TextScans ==
  ASSUME FencesTypeOK, Advance, NEW first \in Nat, first <= read + 1, NEW s \in Scanner(first)
  PROVE  /\ text(s) \in Scanner(first)'
         /\ text(s).fence = s.fence
         /\ text(s).kept = IF s.fence = None THEN s.kept \cup {read + 1} ELSE s.kept
<1>1. first .. read \subseteq first .. read' /\ read + 1 \in first .. read'
  BY ReadIsNat
<1>2. s.kept \subseteq first .. read /\ s.fence \in Chars \cup {None}
  BY DEF Scanner
<1>3. text(s) = [fence |-> s.fence,
                 kept |-> IF s.fence = None THEN s.kept \cup {read + 1} ELSE s.kept]
  BY DEF text, Keep, Scanner
<1> QED
  BY <1>1, <1>2, <1>3 DEF Scanner

LEMMA MarkScans ==
  ASSUME FencesTypeOK, Advance, NEW first \in Nat, NEW s \in Scanner(first), NEW marker \in Marker
  PROVE  /\ mark(s, marker) \in Scanner(first)'
         /\ mark(s, marker).kept = s.kept
         /\ mark(s, marker).fence = IF s.fence = None THEN marker.char
                                    ELSE IF marker.char = s.fence THEN None ELSE s.fence
<1>1. first .. read \subseteq first .. read'
  BY ReadIsNat
<1>2. s.kept \subseteq first .. read /\ s.fence \in Chars \cup {None} /\ marker.char \in Chars
  BY DEF Scanner, Marker
<1>3. mark(s, marker) =
        [fence |-> IF s.fence = None THEN marker.char
                   ELSE IF marker.char = s.fence THEN None ELSE s.fence,
         kept |-> s.kept]
  BY DEF mark, closes, Scanner
<1> QED
  BY <1>1, <1>2, <1>3 DEF Scanner

LEMMA FencesInitially == FencesInit => FencesIInv
<1> SUFFICES ASSUME FencesInit PROVE FencesIInv
  OBVIOUS
<1>1. MaxLines \in Nat
  BY FencesAssumption
<1>2. FencesTypeOK
  <2>1. \A first \in Nat : Idle \in Scanner(first)
    BY DEF Idle, Scanner
  <2>2. links \in Scanner(1) /\ structure \in Scanner(body + 1)
    BY <2>1 DEF FencesInit
  <2>3. read \in 0 .. MaxLines /\ body \in 0 .. read
    BY <1>1 DEF FencesInit
  <2> QED
    BY <2>2, <2>3 DEF FencesInit, FencesTypeOK
<1>3. Aligned /\ ReadersAgree
  BY DEF FencesInit, Aligned, ReadersAgree, Idle
<1> QED
  BY <1>2, <1>3 DEF FencesIInv

LEMMA PlainKeeps ==
  ASSUME FencesIInv, Advance, Plain, kind' \in {"none", "unterminated", "ok"}
  PROVE  FencesIInv'
<1>0. FencesTypeOK /\ links \in Scanner(1) /\ structure \in Scanner(body + 1) /\ body' = body
  BY DEF FencesIInv, FencesTypeOK, Plain
<1>1. read \in Nat /\ read' = read + 1 /\ body \in Nat /\ body <= read
  BY <1>0, ReadIsNat
<1>2. /\ links' \in Scanner(1)' /\ links'.fence = links.fence
      /\ links'.kept = IF links.fence = None THEN links.kept \cup {read + 1} ELSE links.kept
  BY <1>0, <1>1, TextScans DEF Plain
<1>3. /\ structure' \in Scanner(body + 1)' /\ structure'.fence = structure.fence
      /\ structure'.kept = IF structure.fence = None THEN structure.kept \cup {read + 1}
                           ELSE structure.kept
  <2>1. body + 1 \in Nat /\ body + 1 <= read + 1
    BY <1>1
  <2>2. text(structure) \in Scanner(body + 1)' 
        /\ text(structure).fence = structure.fence
        /\ text(structure).kept = IF structure.fence = None THEN structure.kept \cup {read + 1}
                                  ELSE structure.kept
    BY <1>0, <2>1, TextScans
  <2> QED
    BY <2>2 DEF Plain
<1>4. FencesTypeOK'
  <2>1. body + 1 .. read \subseteq body + 1 .. read' /\ read + 1 \in body + 1 .. read'
        /\ body \in 0 .. read'
    BY <1>1
  <2>2. outside' \subseteq body + 1 .. read'
    BY <1>0, <2>1 DEF FencesTypeOK, Plain, MarkText
  <2> QED
    BY <1>0, <1>2, <1>3, <2>1, <2>2, ReadIsNat DEF FencesTypeOK, Plain, MarkText, Scanner
<1>5. Aligned'
  <2> SUFFICES ASSUME ~misread PROVE Aligned'
    BY DEF Aligned, Plain, MarkText
  <2>1. CASE block = None
    BY <1>3, <2>1 DEF FencesIInv, Aligned, Plain, MarkText
  <2>2. CASE block # None
    <3>1. block.char \in Chars
      BY <1>0, <2>2 DEF FencesTypeOK
    <3>2. structure.fence # None
      BY <2>2, <3>1, FencesAssumption DEF FencesIInv, Aligned
    <3> QED
      BY <1>3, <2>2, <3>2 DEF FencesIInv, Aligned, Plain, MarkText
  <2> QED
    BY <2>1, <2>2
<1>6. ReadersAgree'
  <2> SUFFICES ASSUME ~skewed PROVE ReadersAgree'
    BY DEF ReadersAgree, Plain
  <2>1. read + 1 > body
    BY <1>1
  <2>2. {p \in links.kept \cup {read + 1} : p > body} = {p \in links.kept : p > body} \cup {read + 1}
    BY <2>1
  <2> QED
    BY <1>0, <1>2, <1>3, <2>2 DEF FencesIInv, ReadersAgree
<1> QED
  BY <1>4, <1>5, <1>6 DEF FencesIInv

LEMMA CloseKeeps == ASSUME FencesIInv, Close PROVE FencesIInv'
<1>0. FencesTypeOK /\ Advance /\ links \in Scanner(1)
  BY DEF FencesIInv, FencesTypeOK, Close
<1>1. read \in Nat /\ read' = read + 1 /\ body' = read + 1
  BY <1>0, ReadIsNat DEF Close, StartBody
<1>2. /\ links' \in Scanner(1)' /\ links'.fence = links.fence
      /\ links'.kept \subseteq 1 .. read + 1
  <2>1. links' = text(links)
    BY DEF Close
  <2>2. links' \in Scanner(1)' /\ links'.fence = links.fence
    <3>1. 1 \in Nat /\ 1 <= read + 1
      BY <1>1
    <3> QED
      BY <1>0, <2>1, <3>1, TextScans
  <2> QED
    BY <1>1, <2>2 DEF Scanner
<1>3. structure' = Idle /\ structure' \in Scanner(body + 1)'
  BY DEF Close, StartBody, Idle, Scanner
<1>4. FencesTypeOK'
  <2>1. body' \in 0 .. read'
    BY <1>1
  <2> QED
    BY <1>0, <1>2, <1>3, <2>1, ReadIsNat DEF FencesTypeOK, Close, StartBody, Scanner
<1>5. Aligned'
  BY <1>3 DEF Aligned, Close, StartBody, Idle
<1>6. ReadersAgree'
  <2>1. {p \in links'.kept : p > body'} = {}
    BY <1>1, <1>2
  <2> QED
    BY <1>2, <1>3, <2>1 DEF ReadersAgree, Close, Idle
<1> QED
  BY <1>4, <1>5, <1>6 DEF FencesIInv

LEMMA FenceKeeps == ASSUME NEW marker \in Marker, FencesIInv, Fence(marker) PROVE FencesIInv'
<1>0. FencesTypeOK /\ Advance /\ links \in Scanner(1) /\ structure \in Scanner(body + 1)
      /\ body' = body /\ marker.char \in Chars /\ marker.length \in Lengths
  BY DEF FencesIInv, FencesTypeOK, Fence, Marker
<1>1. read \in Nat /\ read' = read + 1 /\ body \in Nat /\ body <= read /\ body + 1 \in Nat
  BY <1>0, ReadIsNat
<1>2. mark(structure, marker) \in Scanner(body + 1)'
      /\ structure'.kept = structure.kept
      /\ structure'.fence = IF structure.fence = None THEN marker.char
                            ELSE IF marker.char = structure.fence THEN None ELSE structure.fence
  BY <1>0, <1>1, MarkScans DEF Fence
<1>3. links' \in Scanner(1)'
  <2>1. links' = text(links) \/ links' = mark(links, marker)
    BY DEF Fence
  <2>2. text(links) \in Scanner(1)'
    <3>1. 1 \in Nat /\ 1 <= read + 1
      BY <1>1
    <3> QED
      BY <1>0, <3>1, TextScans
  <2>3. mark(links, marker) \in Scanner(1)'
    BY <1>0, <1>1, MarkScans
  <2> QED
    BY <2>1, <2>2, <2>3
<1>4. FencesTypeOK'
  <2>1. body + 1 .. read \subseteq body + 1 .. read' /\ body \in 0 .. read'
    BY <1>1
  <2>2. block' \in [char : Chars, length : Lengths] \cup {None}
    BY <1>0 DEF FencesTypeOK, Fence, MarkMarker
  <2>4. misread' \in BOOLEAN
    BY <1>0 DEF FencesTypeOK, Fence, MarkMarker
  <2>5. outside' \subseteq body + 1 .. read'
    <3>1. read + 1 \in body + 1 .. read' /\ outside \subseteq body + 1 .. read
      BY <1>0, <1>1 DEF FencesTypeOK
    <3>2. outside' = outside \/ outside' = outside \cup {read + 1}
      BY DEF Fence, MarkMarker
    <3> QED
      BY <2>1, <3>1, <3>2
  <2>3. structure' \in Scanner(body + 1)'
    BY <1>2 DEF Fence
  <2> QED
    BY <1>0, <1>3, <2>1, <2>2, <2>3, <2>4, <2>5, ReadIsNat DEF FencesTypeOK, Fence, Scanner
<1>5. Aligned'
  <2> SUFFICES ASSUME ~misread' PROVE Aligned'
    BY DEF Aligned
  <2> USE DEF Fence, MarkMarker
  <2>1. ~misread /\ outside' = outside /\ (block = None => Begins(marker))
    BY <1>0 DEF FencesTypeOK
  <2>2. CASE block = None /\ Begins(marker)
    <3>1. structure.fence = None
      BY <2>1, <2>2 DEF FencesIInv, Aligned
    <3>2. structure'.fence = marker.char
          /\ block' = [char |-> marker.char, length |-> marker.length]
      BY <1>2, <2>2, <3>1
    <3>3. block' # None
      BY <1>0, <3>2, FencesAssumption
    <3> QED
      BY <1>2, <2>1, <3>2, <3>3 DEF FencesIInv, Aligned
  <2>3. CASE block # None /\ Ends(marker)
    <3>1. structure.fence = block.char /\ marker.char = block.char /\ structure.fence # None
      BY <1>0, <2>1, <2>3, FencesAssumption DEF FencesIInv, Aligned, Ends
    <3> QED
      BY <1>2, <2>1, <2>3, <3>1 DEF FencesIInv, Aligned
  <2>4. CASE block # None /\ ~Ends(marker)
    <3>1. block.char \in Chars
      BY <1>0, <2>4 DEF FencesTypeOK
    <3>2. misread' = (misread \/ marker.char = block.char)
      BY <2>4
    <3>3. structure.fence = block.char /\ marker.char # block.char /\ structure.fence # None
      BY <2>1, <2>4, <3>1, <3>2, FencesAssumption DEF FencesIInv, Aligned
    <3> QED
      BY <1>2, <2>1, <2>4, <3>3 DEF FencesIInv, Aligned
  <2> QED
    BY <2>1, <2>2, <2>3, <2>4
<1>6. ReadersAgree'
  <2> SUFFICES ASSUME ~skewed' PROVE ReadersAgree'
    BY DEF ReadersAgree
  <2>1. ~skewed /\ links' = mark(links, marker)
    BY DEF Fence
  <2>2. links'.kept = links.kept
        /\ links'.fence = IF links.fence = None THEN marker.char
                          ELSE IF marker.char = links.fence THEN None ELSE links.fence
    BY <1>0, <2>1, MarkScans
  <2> QED
    BY <1>0, <1>2, <2>1, <2>2 DEF FencesIInv, ReadersAgree
<1> QED
  BY <1>4, <1>5, <1>6 DEF FencesIInv

LEMMA FencesStepKeeps == FencesIInv /\ [FencesNext]_FencesVars => FencesIInv'
<1> SUFFICES ASSUME FencesIInv, [FencesNext]_FencesVars PROVE FencesIInv'
  OBVIOUS
<1>0. kind \in {"none", "unterminated", "ok"}
  BY DEF FencesIInv, FencesTypeOK
<1>1. CASE Text
  BY <1>0, <1>1, PlainKeeps DEF Text
<1>2. CASE Open
  BY <1>2, PlainKeeps DEF Open
<1>3. CASE Close
  BY <1>3, CloseKeeps
<1>4. ASSUME NEW marker \in Marker, Fence(marker) PROVE FencesIInv'
  BY <1>4, FenceKeeps
<1>5. CASE UNCHANGED FencesVars
  BY <1>5 DEF FencesIInv, FencesTypeOK, Scanner, Aligned, ReadersAgree, FencesVars, markdown
<1> QED
  BY <1>1, <1>2, <1>3, <1>4, <1>5 DEF FencesNext, Delimiter

LEMMA FencesInvariant == FencesSpec => []FencesIInv
  BY FencesInitially, FencesStepKeeps, PTL DEF FencesSpec

\* The state of the scanners is of its type, whatever lines they are given.
THEOREM FencesTypeCorrect == FencesSpec => []FencesTypeOK
<1>1. FencesIInv => FencesTypeOK
  BY DEF FencesIInv
<1> QED BY <1>1, FencesInvariant, PTL

\* without_code_fences() keeps exactly the lines outside fenced code blocks, in
\* every body in which the lines that begin with a marker are fences for Markdown
\* too, or stand in a block of the other character: the markers that are indented
\* too far, hold a backtick in their text, are too short or have a text where they
\* should close are the only ones that the two can part at.
THEOREM ReadingsAreEqual == FencesSpec => []ReadingsAgree
<1>1. FencesIInv => ReadingsAgree
  BY DEF FencesIInv, Aligned, ReadingsAgree
<1> QED BY <1>1, FencesInvariant, PTL

\* The scan for links, over the whole text, sees the body as the scan for its
\* structure does.
THEOREM ReadersAreEqual == FencesSpec => []ReadersAgree
<1>1. FencesIInv => ReadersAgree
  BY DEF FencesIInv
<1> QED BY <1>1, FencesInvariant, PTL

=============================================================================
