--------------------------- MODULE MCCheckKnowledge ---------------------------
(***************************************************************************)
(* Bundles for TLC.  Findings about a document do not depend on the others,*)
(* so that every kind of document is tried in full variety beside a root   *)
(* index that conforms, and in pairs of few kinds, which may also make the *)
(* interpreter raise, beside each other and beside each root index.        *)
(***************************************************************************)
EXTENDS CheckKnowledge

MCDates == 1 .. 3

Plain == [type |-> TRUE, okf_version |-> FALSE, recommended |-> TRUE, status |-> "stable",
          stale_after |-> "none", generated |-> "none", verified |-> {}]
Root == [name |-> "index", root |-> TRUE, heading |-> TRUE, bullet |-> TRUE,
         frontmatter |-> "mapping", data |-> [Plain EXCEPT !.okf_version = TRUE],
         readable |-> TRUE, links |-> "good"]

Variety == [type : BOOLEAN, okf_version : {FALSE}, recommended : BOOLEAN,
            status : {"stable", "draft", "unknown"},
            stale_after : {"none", "past", "malformed"},
            generated : {"none", "human", "process", "unconventional", "human_unconventional",
                         "empty"},
            verified : SUBSET {"conventional", "unconventional"}]
Concepts(data, readable, links) ==
  [name : {"concept"}, adr : BOOLEAN, named : BOOLEAN, sections : BOOLEAN,
   frontmatter : Frontmatter, data : data, readable : readable, links : links]
Indexes(root, data) ==
  [name : {"index"}, root : root, heading : BOOLEAN, bullet : BOOLEAN,
   frontmatter : Frontmatter, data : data, readable : {TRUE}, links : {"good", "broken"}]
Logs == [name : {"log"}, headings : BoundedSeq([top : BOOLEAN, date : MCDates \cup {NoDate}], 3),
         readable : {TRUE}, links : {"good", "broken"}]

\* Fields that the checker does not look at are given one value.
Looked(d) ==
  /\ d.adr \/ (d.named /\ d.sections)
  /\ d.frontmatter = "mapping" \/ d.data = Plain
RichConcepts ==
  {d \in Concepts(Variety, {TRUE}, {"good", "broken"}) : Looked(d) /\ (d.adr => d.data = Plain)}

Impossible(data) == [data EXCEPT !.stale_after = "impossible"]
FewData == {Plain, [Plain EXCEPT !.type = FALSE]}
FewConcepts ==
  {d \in Concepts(FewData, BOOLEAN, {"good", "too_long"})
           \cup Concepts({Impossible(Plain)}, {TRUE}, {"good"}) :
     Looked(d) /\ (d.readable \/ d.links = "good")}
RootIndexes ==
  {d \in Indexes({TRUE}, {Plain, Root.data, Impossible(Root.data)}) :
     d.frontmatter = "mapping" \/ d.data = Plain}

MCBundles ==
  {<<Root, d>> : d \in RichConcepts \cup Logs \cup Indexes({FALSE}, {Plain, Impossible(Plain)})}
  \cup {<<d, e>> : d \in FewConcepts, e \in FewConcepts}
  \cup {<<r, d>> : r \in RootIndexes, d \in FewConcepts}
  \cup {<< >>}

\* Bundles of which only one document may not conform, or make the checker raise.
MCRaising == {<<Root, d>> : d \in FewConcepts}
=============================================================================
