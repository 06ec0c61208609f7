------------------------------ MODULE Sections ------------------------------
(***************************************************************************)
(* Heading sections (internal/vault/sections.go) and reading page by page  *)
(* (GetSection there, Read in vault.go): how a note is divided into        *)
(* sections, what ReplaceSection makes of it, and what a client puts       *)
(* together who asks for one page after the other while the note changes.  *)
(*                                                                         *)
(* A note is a sequence of tokens.  "nl" ends a line, and what a line is   *)
(* depends on its first tokens, so two texts that are joined without a     *)
(* newline between them may turn into other lines than they were.  Of      *)
(* Markdown there are the two heading forms, of every level, paragraphs,   *)
(* thematic breaks and code fences; headings in quotes and lists, which    *)
(* the source skips, and CRLF are left out.                                *)
(***************************************************************************)
EXTENDS Integers, Sequences, SequencesExt, FiniteSets, FiniteSetsExt

CONSTANTS Tokens,      \* what texts are made of
          StartNotes,  \* the notes there may be at the start
          Contents,    \* the texts clients write
          PageSize,    \* ReadPageSize
          MaxChanges   \* bound: changes to the note

ASSUME PageSizeAssumption == PageSize \in Nat \ {0}

ASSUME BoundAssumption == MaxChanges \in Nat

Newline == "nl"
Rule    == "rule"    \* three dashes: underline a setext title, or are a break
Equals  == "equals"  \* three equals signs: underline a setext title, or are text
Fence   == "fence"   \* three backquotes
Hashes  == <<"#", "##", "###", "####", "#####", "######">>

ASSUME NotesAssumption == /\ Newline \in Tokens
                          /\ StartNotes \subseteq Seq(Tokens)
                          /\ Contents \subseteq Seq(Tokens)

VARIABLES note,     \* the tokens of the note
          changes,  \* how often it has changed
          reader    \* a client that reads a section, or the note, by pages

(* History: what the reader has is no longer how the text begins.          *)
VARIABLE mixed

vars == <<note, changes, reader, mixed>>

-----------------------------------------------------------------------------
(* The lines of a text: where each one begins, where it ends, and what it  *)
(* says.                                                                   *)
Upto(n) == [i \in 1..n |-> i]

(* The elements of s that are in S: SelectSeq with a set for its test.     *)
Only(s, S) ==
    LET kept[k \in 0..Len(s)] ==
           IF k = 0 THEN <<>>
           ELSE IF s[k] \in S THEN Append(kept[k - 1], s[k]) ELSE kept[k - 1]
    IN  kept[Len(s)]

Ends(s) == Only(Upto(Len(s)), {i \in 1..Len(s) : s[i] = Newline \/ i = Len(s)})

Lines(s) ==
    LET ends  == Ends(s)
        at(k) == IF k = 1 THEN 1 ELSE ends[k - 1] + 1
    IN  [k \in DOMAIN ends |->
            [at |-> at(k), next |-> ends[k] + 1,
             says |-> SubSeq(s, at(k), IF s[ends[k]] = Newline THEN ends[k] - 1
                                                               ELSE ends[k])]]

(* The level of the ATX heading that a line is, or 0.                      *)
Level(c) == IF c # <<>> /\ \E n \in 1..6 : c[1] = Hashes[n]
            THEN CHOOSE n \in 1..6 : c[1] = Hashes[n] ELSE 0

(* Which lines are frontmatter: a first line of dashes and those up to the *)
(* next such line, or to the end.                                          *)
InFrontmatter(l, k) == /\ l[1].says = <<Rule>>
                       /\ k = 1 \/ \A j \in 2..(k - 1) : l[j].says # <<Rule>>

(* Whether a fence is open after line k.                                   *)
OpenFence(l) ==
    LET open[k \in 0..Len(l)] ==
           IF k = 0 \/ InFrontmatter(l, k) THEN FALSE
           ELSE IF open[k - 1] THEN l[k].says # <<Fence>>
                ELSE l[k].says # <<>> /\ l[k].says[1] = Fence
    IN  open

(* Whether line k is of a paragraph.  A line of equals signs is, unless it *)
(* underlines one.                                                         *)
Paragraphs(l, open) ==
    LET text[k \in 0..Len(l)] ==
           IF k = 0 \/ InFrontmatter(l, k) THEN FALSE
           ELSE /\ ~open[k - 1] /\ ~open[k]
                /\ l[k].says \notin {<<>>, <<Rule>>}
                /\ Level(l[k].says) = 0
                /\ ~(l[k].says = <<Equals>> /\ text[k - 1])
    IN  text

Underlines == {<<Rule>>, <<Equals>>}

(* The top-level headings of a text as goldmark finds them.  A paragraph   *)
(* that an underline follows is a heading from its first line on.          *)
HeadingsIn(s, l, open, text) ==
    LET seen(k)  == ~InFrontmatter(l, k) /\ ~open[k - 1]
        atx(k)   == seen(k) /\ Level(l[k].says) > 0
        under(k) == seen(k) /\ l[k].says \in Underlines /\ text[k - 1]
        first(k) == Min({j \in 1..(k - 1) : \A i \in j..(k - 1) : text[i]})
        heading(k) ==
           IF atx(k)
           THEN [level |-> Level(l[k].says), title |-> Tail(l[k].says),
                 start |-> l[k].at, body |-> l[k].next, setext |-> FALSE]
           ELSE [level |-> IF l[k].says = <<Equals>> THEN 1 ELSE 2,
                 title |-> SubSeq(s, l[first(k)].at, l[k].at - 2),
                 start |-> l[first(k)].at, body |-> l[k].next, setext |-> TRUE]
        where == Only(Upto(Len(l)), {k \in 1..Len(l) : atx(k) \/ under(k)})
    IN  [i \in DOMAIN where |-> heading(where[i])]

Headings(s) == LET l    == Lines(s)
                   open == OpenFence(l)
                   text == Paragraphs(l, open)
               IN  HeadingsIn(s, l, open, text)

-----------------------------------------------------------------------------
(* markdownSections: a heading takes off the stack the sections whose      *)
(* level is not below its own, which end there, and goes on it itself.     *)
StaysOpenToo(level, h) == level <= h    \* Broken: its equals stay open.

StaysOpen(level, h) == level < h

Stacks(h) ==
    LET stack[k \in 0..Len(h)] ==
           IF k = 0 THEN <<>>
           ELSE Append(Only(stack[k - 1],
                            {j \in 1..k : StaysOpen(h[j].level, h[k].level)}), k)
    IN  stack

SectionsUnder(s, h, stack) ==
    LET off(k) == {j \in (k + 1)..Len(h) : k \notin ToSet(stack[j])}
    IN  [k \in DOMAIN h |->
           [path |-> [i \in DOMAIN stack[k] |-> h[stack[k][i]].title],
            level |-> h[k].level, start |-> h[k].start, body |-> h[k].body,
            end |-> IF off(k) = {} THEN Len(s) + 1 ELSE h[Min(off(k))].start,
            nextSetext |-> off(k) # {} /\ h[Min(off(k))].setext]]

markdownSections(s) == LET h     == Headings(s)
                           stack == Stacks(h)
                       IN  SectionsUnder(s, h, stack)

(* selectSection: the sections whose path ends with the one given; there   *)
(* must be one.                                                            *)
Matches(s, path) ==
    {sec \in ToSet(markdownSections(s)) : IsSuffix(path, sec.path)}

Selects(s, path) == path # <<>> /\ Cardinality(Matches(s, path)) = 1

(* The texts a client pages through under a path: the body of the section, *)
(* or, where no path is given, the note (Read).  None if there is an error.*)
Texts(s, path) ==
    IF path = <<>> THEN {s}
    ELSE IF ~Selects(s, path) THEN {}
         ELSE {SubSeq(s, sec.body, sec.end - 1) : sec \in Matches(s, path)}

-----------------------------------------------------------------------------
(* ReplaceSection.  The heading is ended if it was not; the content too,   *)
(* if anything follows, and a paragraph in it is kept apart from a setext  *)
(* title that follows.                                                     *)
AsItIs(s) == s    \* Broken: the newline is not looked after.

Ended(s) == IF Last(s) = Newline THEN s ELSE Append(s, Newline)

NotApart(s) == s    \* Broken: the setext title is forgotten.

Apart(s) == IF IsSuffix(<<Newline, Newline>>, s) THEN s ELSE Append(s, Newline)

ReplaceSection(s, sec, content) ==
    LET heading == SubSeq(s, 1, sec.body - 1)
        rest    == SubSeq(s, sec.end, Len(s))
        ended   == IF rest = <<>> THEN content ELSE Ended(content)
    IN  IF content = <<>> THEN heading \o rest
        ELSE Ended(heading)
               \o (IF rest # <<>> /\ sec.nextSetext THEN Apart(ended) ELSE ended)
               \o rest

-----------------------------------------------------------------------------
(* A client asks for the first page, and then for the one at next_offset.  *)
Idle == [path |-> <<>>, offset |-> 0, got |-> <<>>, status |-> "idle"]

Reading == reader.status = "reading"

Begin(path) ==
    /\ reader.status = "idle"
    /\ Texts(note, path) # {}
    /\ reader' = [Idle EXCEPT !.path = path, !.status = "reading"]
    /\ UNCHANGED <<note, changes, mixed>>

AlwaysMinusOne(end) == -1    \* Broken: what only the last page may say.

SkipsOne(end) == end + 1    \* Broken: next_offset is one too far.

NextOffset(end) == end

Page ==
    \E text \in Texts(note, reader.path) :
       LET end == Min({reader.offset + PageSize, Len(text)})
       IN  /\ Reading
           /\ reader.offset <= Len(text)
           /\ reader' = [reader EXCEPT
                           !.got = @ \o SubSeq(text, reader.offset + 1, end),
                           !.offset = NextOffset(end),
                           !.status = IF end < Len(text) THEN "reading"
                                                         ELSE "done"]
           /\ UNCHANGED <<note, changes, mixed>>

(* The section is not there any more, or no longer the only one, or the    *)
(* offset is out of range.                                                 *)
PageFails ==
    /\ Reading
    /\ \A text \in Texts(note, reader.path) : reader.offset > Len(text)
    /\ reader' = [reader EXCEPT !.status = "failed"]
    /\ UNCHANGED <<note, changes, mixed>>

(* The note changes, under a reader or not; one that has finished is       *)
(* forgotten.                                                              *)
Begins(got, s, path) == \E text \in Texts(s, path) : IsPrefix(got, text)

Becomes(s) ==
    /\ changes < MaxChanges
    /\ changes' = changes + 1
    /\ note' = s
    /\ reader' = IF Reading THEN reader ELSE Idle
    /\ mixed' = (Reading /\ (mixed \/ ~Begins(reader.got, s, reader.path)))

Replace(path) ==
    /\ Selects(note, path)
    /\ \E sec \in Matches(note, path), content \in Contents :
          Becomes(ReplaceSection(note, sec, content))

(* append_note, by this client or another.                                 *)
AppendNote == \E content \in Contents : Becomes(note \o content)

Paths(s) == {<<>>} \cup {sec.path : sec \in ToSet(markdownSections(s))}

Init == /\ note \in StartNotes
        /\ changes = 0
        /\ reader = Idle
        /\ mixed = FALSE

Next == \/ \E path \in Paths(note) : Begin(path)
        \/ Page
        \/ PageFails
        \/ changes < MaxChanges /\ \E path \in Paths(note) : Replace(path)
        \/ AppendNote

Spec == Init /\ [][Next]_vars

-----------------------------------------------------------------------------
TypeOK == /\ note \in Seq(Tokens)
          /\ changes \in 0..MaxChanges
          /\ reader.offset \in Nat
          /\ reader.got \in Seq(Tokens)
          /\ reader.status \in {"idle", "reading", "done", "failed"}
          /\ mixed \in BOOLEAN

(* README: a section's body "starts immediately after its heading and ends *)
(* before the next heading of equal or higher rank, or at EOF"; its path   *)
(* is its heading under those that are still open there.                   *)
EndOf(s, h, k) ==
    LET later == {j \in (k + 1)..Len(h) : h[j].level <= h[k].level}
    IN  IF later = {} THEN Len(s) + 1 ELSE h[Min(later)].start

OpenAt(h, k) ==
    Only(Upto(k), {j \in 1..k : \A i \in (j + 1)..k : h[i].level > h[j].level})

SectionsNest ==
    LET h == Headings(note)
    IN  markdownSections(note) =
           [k \in DOMAIN h |->
              [level |-> h[k].level, start |-> h[k].start, body |-> h[k].body,
               end |-> EndOf(note, h, k),
               nextSetext |-> \E j \in DOMAIN h : /\ h[j].start = EndOf(note, h, k)
                                                  /\ h[j].setext,
               path |-> [i \in DOMAIN OpenAt(h, k) |->
                           h[OpenAt(h, k)[i]].title]]]

(* The headings of a text that stands in the middle of a note, and whether *)
(* every fence it opens is closed in it.                                   *)
Outline(s) == LET h == Headings(s)
              IN  [k \in DOMAIN h |-> <<h[k].level, h[k].title>>]

OutlineInside(s) == Outline(<<Newline>> \o s)

Closed(s) == LET l == Lines(<<Newline>> \o s) IN ~OpenFence(l)[Len(l)]

(* ReplaceSection "preserves the selected heading and all bytes outside the *)
(* body": whatever section of whatever note gets whatever content, the note *)
(* then has the headings it had before and after the section, and those of *)
(* the content in between; no line at either seam has turned into another. *)
(* (Not so if the content leaves a fence open.)                            *)
Unique(s) == {sec \in ToSet(markdownSections(s)) : Selects(s, sec.path)}

StructureKept ==
    LET h   == Headings(note)
        old == Outline(note)
    IN  \A sec \in Unique(note) :
           LET before == {k \in DOMAIN h : h[k].start <= sec.start}
               after  == {k \in DOMAIN h : h[k].start >= sec.end}
           IN  \A content \in {c \in Contents : Closed(c)} :
                  Outline(ReplaceSection(note, sec, content)) =
                     SubSeq(old, 1, Cardinality(before))
                        \o OutlineInside(content)
                        \o SubSeq(old, Len(h) - Cardinality(after) + 1, Len(h))

(* What replace_section wrote is what get_section then reads: the content, *)
(* with no more than newlines added to it, unless the content has headings *)
(* that end the section.                                                   *)
Padded(s, t) == \E i, j \in 0..2 :
                   t = [k \in 1..i |-> Newline] \o s \o [k \in 1..j |-> Newline]

ReplacedIsRead ==
    \A sec \in Unique(note), content \in {c \in Contents : Closed(c)} :
       (\A i \in DOMAIN OutlineInside(content) :
             OutlineInside(content)[i][1] > sec.level)
       => LET new == ReplaceSection(note, sec, content)
          IN  \E now \in ToSet(markdownSections(new)) :
                 /\ now.start = sec.start
                 /\ now.path = sec.path
                 /\ Padded(content, SubSeq(new, now.body, now.end - 1))

(* A client that asks for one page after the other has, at the end, the    *)
(* whole text and nothing else, however the note grew meanwhile, unless a  *)
(* change touched what it had read already.  Only then is a page refused.  *)
PagesAreTheText ==
    \/ mixed
    \/ reader.status = "idle"
    \/ \E text \in Texts(note, reader.path) :
          /\ reader.status \in {"reading", "done"}
          /\ reader.got = SubSeq(text, 1, reader.offset)
          /\ reader.status = "done" => reader.offset = Len(text)
=============================================================================
