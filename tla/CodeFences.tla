------------------------------ MODULE CodeFences ------------------------------
(***************************************************************************)
(* How the knowledge checker reads a document.  split_frontmatter() finds  *)
(* where the body begins, and without_code_fences() drops the fenced code  *)
(* blocks: once for the links, over the whole text, and once for the       *)
(* structure (ADR sections, index headings, log dates), over the body.     *)
(*                                                                         *)
(* A line is plain text, or a delimiter of the frontmatter, or begins after*)
(* its indentation with a marker of three or more backticks or tildes.     *)
(* The lines are taken one by one, and every state is a document that ends *)
(* there.  Beside the checker runs the reading of Markdown itself, as      *)
(* history, which does not take every such line for a fence.  A marker that*)
(* is indented by four columns or more is none; nor does one of backticks  *)
(* open a fenced code block with a backtick in the text after it; and a    *)
(* block is closed by a marker of the same character only, at least as long*)
(* as the one that opened it and without any text after it.                *)
(*                                                                         *)
(* A definition Mutant_x is x with a fault, and is used by no other one.   *)
(***************************************************************************)
EXTENDS Naturals

CONSTANTS
  Lengths,    \* lengths of the markers that documents use
  MaxLines,   \* bound: lines of a document
  None

Chars == {"backtick", "tilde"}

ASSUME FencesAssumption ==
  /\ Lengths \subseteq Nat \ (0 .. 2)
  /\ MaxLines \in Nat
  /\ None \notin [char : Chars, length : Lengths]
  /\ None \notin Chars

VARIABLES
  bom,         \* does the text begin with a byte-order mark?
  read,        \* lines read so far
  kind,        \* of the frontmatter: "none", "unterminated" or "ok"
  body,        \* position of the last line before the body
  links,       \* scanner of check_links(): its fence (the character, three
               \* times) or None, and the positions of the lines it keeps
  structure,   \* scanner of headings() and check_index(): the same
  block,       \* history: the marker that opened Markdown's code block, or None
  outside,     \* history: positions of the lines outside Markdown's code blocks
  misread,     \* history: has the body shown a marker that fences for one of the
               \* two readings alone: outside a block without opening one, or of
               \* the character of the block it is in without closing it?
  skewed       \* history: has one of the scanners met a marker that the other
               \* one did not: before the body, or behind a byte-order mark?

markdown == <<block, outside, misread>>
FencesVars == <<bom, read, kind, body, links, structure, markdown, skewed>>

\* What follows the marker on its line: nothing, a text, or one with a backtick.
Marker == [char : Chars, length : Lengths, info : {"none", "text", "backtick"},
           indented : BOOLEAN]

-----------------------------------------------------------------------------
(* without_code_fences(): what a line does to a scanner.  Only the first   *)
(* three characters of a marker count.                                     *)

Idle == [fence |-> None, kept |-> {}]

\* Any marker closes any block.
Mutant_closes(marker, fence) == TRUE
closes(marker, fence) == marker.char = fence

\* The line after a kept one is kept as well.
Mutant_Keep(s) == [s EXCEPT !.kept = @ \cup {read + 1, read + 2}]
Keep(s) == [s EXCEPT !.kept = @ \cup {read + 1}]

text(s) == IF s.fence = None THEN Keep(s) ELSE s
mark(s, marker) ==
  [s EXCEPT !.fence = IF @ = None THEN marker.char
                      ELSE IF closes(marker, @) THEN None ELSE @]

-----------------------------------------------------------------------------
(* Markdown's reading of the same line.                                    *)

MarkText ==
  /\ outside' = IF block = None THEN outside \cup {read + 1} ELSE outside
  /\ UNCHANGED <<block, misread>>

Begins(marker) ==
  ~marker.indented /\ ~(marker.char = "backtick" /\ marker.info = "backtick")
Ends(marker) ==
  /\ ~marker.indented /\ marker.info = "none"
  /\ marker.char = block.char /\ marker.length >= block.length

MarkMarker(marker) ==
  \/ /\ block = None /\ Begins(marker)
     /\ block' = [char |-> marker.char, length |-> marker.length]
     /\ UNCHANGED <<outside, misread>>
  \/ /\ block = None /\ ~Begins(marker)
     /\ outside' = outside \cup {read + 1}
     /\ misread' = TRUE
     /\ UNCHANGED block
  \/ /\ block # None /\ Ends(marker)
     /\ block' = None
     /\ UNCHANGED <<outside, misread>>
  \/ /\ block # None /\ ~Ends(marker)
     /\ misread' = (misread \/ marker.char = block.char)
     /\ UNCHANGED <<block, outside>>

-----------------------------------------------------------------------------
(* The lines.                                                              *)

FencesInit ==
  /\ bom \in BOOLEAN
  /\ read = 0
  /\ kind = "none" /\ body = 0
  /\ links = Idle /\ structure = Idle
  /\ block = None /\ outside = {} /\ misread = FALSE /\ skewed = FALSE

Advance == read < MaxLines /\ read' = read + 1 /\ UNCHANGED bom

Plain ==
  /\ links' = text(links) /\ structure' = text(structure)
  /\ MarkText
  /\ UNCHANGED <<body, skewed>>

\* The structure is read from the whole text.
Mutant_StartBody ==
  /\ body' = read + 1
  /\ UNCHANGED <<structure, markdown>>

\* The body is the text as long as no frontmatter has been closed before it.
StartBody ==
  /\ body' = read + 1
  /\ structure' = Idle
  /\ block' = None /\ outside' = {} /\ misread' = FALSE

Text == Advance /\ Plain /\ UNCHANGED kind

\* split_frontmatter() removes a byte-order mark and strips the line.
Open == Advance /\ read = 0 /\ Plain /\ kind' = "unterminated"

Close ==
  /\ Advance /\ kind = "unterminated"
  /\ kind' = "ok"
  /\ StartBody
  /\ links' = text(links)
  /\ skewed' = (links.fence # None)

\* "---" opens a frontmatter and closes it; "..." closes it only.
Delimiter(line) ==
  \/ line = "---" /\ Open
  \/ Close
  \/ ~(line = "---" /\ read = 0) /\ kind # "unterminated" /\ Text

\* str.lstrip() leaves a byte-order mark before a marker, and it is text then.
Fence(marker) ==
  LET covered == bom /\ read = 0
  IN  /\ Advance
      /\ links' = IF covered THEN text(links) ELSE mark(links, marker)
      /\ structure' = mark(structure, marker)
      /\ MarkMarker(marker)
      /\ skewed' = (skewed \/ covered)
      /\ UNCHANGED <<kind, body>>

FencesNext ==
  \/ Text
  \/ \E line \in {"---", "..."} : Delimiter(line)
  \/ \E marker \in Marker : Fence(marker)

FencesSpec == FencesInit /\ [][FencesNext]_FencesVars

-----------------------------------------------------------------------------
(* Properties.                                                             *)

Scanner(first) == [fence : Chars \cup {None}, kept : SUBSET (first .. read)]
FencesTypeOK ==
  /\ bom \in BOOLEAN
  /\ read \in 0 .. MaxLines
  /\ kind \in {"none", "unterminated", "ok"}
  /\ body \in 0 .. read
  /\ links \in Scanner(1)
  /\ structure \in Scanner(body + 1)
  /\ block \in [char : Chars, length : Lengths] \cup {None}
  /\ outside \subseteq body + 1 .. read
  /\ misread \in BOOLEAN /\ skewed \in BOOLEAN

\* In a body in which every line that begins with a marker is a fence for Markdown
\* too, or stands in a block of the other character, the scanner keeps exactly the
\* lines outside fenced code blocks, wherever the body begins.
ReadingsAgree == ~misread => structure.kept = outside

\* The links of a body are looked for on the lines that its structure is read
\* from, although only the latter scan begins at the body: unless a marker in
\* the frontmatter leaves a fence open, or a byte-order mark hides the first.
ReadersAgree ==
  ~skewed => /\ {p \in links.kept : p > body} = structure.kept
             /\ links.fence = structure.fence

\* "Drop fenced code blocks so examples are not read as document structure": no
\* line is kept that Markdown puts inside a fenced code block.
ExamplesDropped == structure.kept \subseteq outside

=============================================================================
