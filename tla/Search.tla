------------------------------- MODULE Search -------------------------------
(***************************************************************************)
(* internal/search/search.go: a search runs ripgrep over the vault and     *)
(* reads the events it wrote, one at a time, into a result that is cut at  *)
(* a number of matches.  ripgrep may also fail, be killed in the middle,   *)
(* or write a line that cannot be parsed.                                  *)
(*                                                                         *)
(* A vault is a sequence of notes in path order, and a note the sequence   *)
(* of its lines, TRUE where a line matches the query.                      *)
(***************************************************************************)
EXTENDS Integers, Sequences, SequencesExt, FiniteSets

CONSTANTS Vaults,             \* the vaults that may be searched
          PathText,           \* PathText[i]: the path of note i, or NoText
          NoText,             \* what stands for a path that is not UTF-8
          Requested,          \* what clients give as max_results
          Contexts,           \* what clients give as context_lines
          DefaultMaxResults,
          MaxResultsCeiling

ASSUME LimitsAssumption == /\ MaxResultsCeiling \in Nat \ {0}
                           /\ DefaultMaxResults \in 1..MaxResultsCeiling
                           /\ Requested \subseteq Int
                           /\ Contexts \subseteq Nat

(* At most one note has a path that is not UTF-8.                          *)
ASSUME NotesAssumption ==
          /\ Vaults \subseteq Seq(Seq(BOOLEAN))
          /\ \A v \in Vaults : \A i, j \in DOMAIN v :
                PathText[i] = PathText[j] => i = j

VARIABLES vault,    \* the notes
          context,  \* Options.ContextLines
          limit,    \* maxResults, once it is settled
          out,      \* the events of ripgrep that have not been read yet
          res,      \* [files, total, truncated], the Result
          status    \* "called", "parsing", "done" or "failed"

(* History: ripgrep did not get to its end.                                *)
VARIABLE killed

vars == <<vault, context, limit, out, res, status, killed>>

-----------------------------------------------------------------------------
(* What `rg --json --sort path` writes: for each note with a match, in     *)
(* path order, the lines that match and those near one that does.          *)
Event(type, i, n) == [type |-> type, path |-> PathText[i], n |-> n]

Near(lines, n) == \E m \in DOMAIN lines :
                     lines[m] /\ n \in (m - context)..(m + context)

NoteEvents(i) ==
    LET lines == vault[i]
        type(n) == IF lines[n] THEN "match" ELSE "context"
        found == FlattenSeq([n \in DOMAIN lines |->
                    IF Near(lines, n) THEN <<Event(type(n), i, n)>> ELSE <<>>])
    IN  IF found = <<>> THEN <<>>
        ELSE <<Event("begin", i, 0)>> \o found \o <<Event("end", i, 0)>>

RgOutput == FlattenSeq([i \in DOMAIN vault |-> NoteEvents(i)])

Bad == [type |-> "bad", path |-> NoText, n |-> 0]

(* ripgrep exits with 0 or 1, or with 2 when it could not read some note;  *)
(* killed by a signal, its exit code is -1.                                *)
CodesFrom3(code) == code > 2    \* Broken: 2 passes for success.

IsFailure(code) == code > 1

Exit(code, events) ==
    /\ out' = events
    /\ status' = IF IsFailure(code) THEN "failed" ELSE "parsing"
    /\ killed' = (code = -1)

RunRg ==
    /\ status = "called"
    /\ \/ Exit(IF RgOutput = <<>> THEN 1 ELSE 0, RgOutput)
       \/ \E i \in DOMAIN vault :
             Exit(2, SelectSeq(RgOutput, LAMBDA ev : ev.path # PathText[i]))
       \/ \E k \in 0..Len(RgOutput), cut \in {<<>>, <<Bad>>} :
             Exit(-1, SubSeq(RgOutput, 1, k) \o cut)
       \/ \E k \in DOMAIN RgOutput : Exit(0, [RgOutput EXCEPT ![k] = Bad])
    /\ UNCHANGED <<vault, context, limit, res>>

(* ripgrep is not there.                                                   *)
CannotRun ==
    /\ status = "called"
    /\ status' = "failed"
    /\ UNCHANGED <<vault, context, limit, out, res, killed>>

-----------------------------------------------------------------------------
(* parseJSONEvents, one event of the output.                               *)
Reads(ev) == /\ status = "parsing"
             /\ out # <<>>
             /\ ev = Head(out)
             /\ out' = Tail(out)
             /\ UNCHANGED <<vault, context, limit, killed>>

IsLine(ev) == ev.type \in {"match", "context"}

AtLimitAlready(ev) == IsLine(ev) /\ res.total >= limit  \* Broken: any line.

OneTooEarly(ev) == ev.type = "match" /\ res.total + 1 >= limit  \* Broken.

OverLimit(ev) == ev.type = "match" /\ res.total >= limit

(* The line is added to the note it belongs to: the last one, if that has  *)
(* its path, or else a new one.                                            *)
OneGroup(path) == res.files # <<>>    \* Broken: the path is not compared.

SameFile(path) == res.files # <<>> /\ Last(res.files).path = path

Added(ev) ==
    LET line == [n |-> ev.n, match |-> ev.type = "match"]
    IN  IF SameFile(ev.path)
        THEN [res.files EXCEPT ![Len(res.files)].lines = Append(@, line)]
        ELSE Append(res.files, [path |-> ev.path, lines |-> <<line>>])

SkipEvent(ev) == /\ Reads(ev)
                 /\ ~IsLine(ev) /\ ev.type # "bad"
                 /\ UNCHANGED <<res, status>>

BadEvent(ev) == /\ Reads(ev)
                /\ ev.type = "bad"
                /\ status' = "failed"
                /\ UNCHANGED res

AddLine(ev) == /\ Reads(ev)
               /\ IsLine(ev) /\ ~OverLimit(ev)
               /\ res' = [res EXCEPT !.files = Added(ev),
                                     !.total = @ + (IF ev.type = "match"
                                                    THEN 1 ELSE 0)]
               /\ UNCHANGED status

GoesOn == "parsing"    \* Broken: continue, not break.

Stops == "done"

Truncate(ev) == /\ Reads(ev)
                /\ OverLimit(ev)
                /\ res' = [res EXCEPT !.truncated = TRUE]
                /\ status' = Stops

EndOfOutput == /\ status = "parsing"
               /\ out = <<>>
               /\ status' = "done"
               /\ UNCHANGED <<vault, context, limit, out, res, killed>>

-----------------------------------------------------------------------------
NotCapped(r) == IF r <= 0 THEN DefaultMaxResults ELSE r    \* Broken.

Capped(r) == LET m == IF r <= 0 THEN DefaultMaxResults ELSE r
             IN  IF m > MaxResultsCeiling THEN MaxResultsCeiling ELSE m

Init == /\ vault \in Vaults
        /\ context \in Contexts
        /\ limit \in {Capped(r) : r \in Requested}
        /\ out = <<>>
        /\ res = [files |-> <<>>, total |-> 0, truncated |-> FALSE]
        /\ status = "called"
        /\ killed = FALSE

Parse(ev) == \/ SkipEvent(ev)
             \/ BadEvent(ev)
             \/ AddLine(ev)
             \/ Truncate(ev)

Next == \/ RunRg
        \/ CannotRun
        \/ \E ev \in ToSet(out) : Parse(ev)
        \/ EndOfOutput

Spec == Init /\ [][Next]_vars

-----------------------------------------------------------------------------
TypeOK == /\ limit \in 1..MaxResultsCeiling
          /\ res.total \in 0..limit
          /\ res.truncated \in BOOLEAN
          /\ status \in {"called", "parsing", "done", "failed"}

(* The lines of the result, and those of a whole run of ripgrep.           *)
Listed == FlattenSeq([i \in DOMAIN res.files |->
             [k \in DOMAIN res.files[i].lines |->
                <<res.files[i].path, res.files[i].lines[k].n>>]])

LinesTo(m) == LET all == RgOutput
              IN  FlattenSeq([k \in 1..m |->
                     IF IsLine(all[k]) THEN <<<<all[k].path, all[k].n>>>>
                     ELSE <<>>])

Wanted == LinesTo(Len(RgOutput))

NumberOfMatches ==
    Cardinality(UNION {{<<i, n>> : n \in {m \in DOMAIN vault[i] : vault[i][m]}} :
                          i \in DOMAIN vault})

(* Killed or not, truncated or not, the result lists lines that ripgrep    *)
(* found, in its order and without a gap, and a note's lines stand in one  *)
(* place: in the order of the notes and of their lines.                    *)
ResultInOrder ==
    /\ IsPrefix(Listed, Wanted)
    /\ \A i, j \in DOMAIN res.files :
          res.files[i].path = res.files[j].path => i = j

(* A search that succeeds, and does not say that it was cut, has every     *)
(* matching line of the vault, with the context asked for.  (A ripgrep     *)
(* that is killed passes for one that succeeded.)                          *)
SuccessIsComplete ==
    status = "done" /\ ~res.truncated /\ ~killed => Listed = Wanted

(* It says so exactly if there are more matches than were asked for.  (Its *)
(* total says nothing of how many more: README.)                           *)
TruncatedIfMore ==
    status = "done" /\ ~killed => (res.truncated <=> NumberOfMatches > limit)

(* A note is listed without a match only where the result was cut off: the *)
(* context lines before a match that is one too many.                      *)
MatchlessOnlyAtTheCut ==
    status = "done" =>
       \A i \in DOMAIN res.files :
          \/ \E k \in DOMAIN res.files[i].lines : res.files[i].lines[k].match
          \/ i = Len(res.files) /\ (res.truncated \/ killed)
=============================================================================
