---------------------------- MODULE ContextPackage ----------------------------
(***************************************************************************)
(* Segments of context, how they are put together within a budget          *)
(* (context_assembler.rs) and how the result is packaged for another agent *)
(* (context_package.rs). A text is told apart by an identity, its length   *)
(* and its parts: each line "## ..." in it begins another. Lengths are in  *)
(* characters, of which the marker of unverified text takes 6 and, in      *)
(* UTF-8, 12 bytes. Segments keep their place in the order of assembly     *)
(* when others are left out: a text is a function on some of the places.   *)
(***************************************************************************)
EXTENDS ContextRouter, PoisonGuard, FiniteSets, SequencesExt, FiniteSetsExt

\* The sections in the order of assembly, and the lengths of their names.
Sections == <<"Identity", "Hot Context", "Canonical User", "Shared Task",
              "Agent Private Memory", "Enterprise Memory", "Business State">>

NameLength == [s \in {Sections[i] : i \in DOMAIN Sections} |->
    CASE s = "Identity" -> 8 [] s \in {"Hot Context", "Shared Task"} -> 11
      [] s \in {"Canonical User", "Business State"} -> 14
      [] s = "Enterprise Memory" -> 17 [] OTHER -> 20]

CharsPerToken == 4
MarkerBytes == 12
MarkerChars == 6

\* Part of a text. head is what follows "## " in its first line, "" when it has no such
\* line, as only a first part may; apart: one blank line stands before it.
TextPart == [head : STRING, length : Nat, apart : BOOLEAN, signs : SUBSET (STRING \X STRING)]

PlainText(length) == <<[head |-> "", length |-> length, apart |-> FALSE, signs |-> {}]>>

\* With the line ends between the parts.
WholeLength(parts) ==
    MapThenSumSet(LAMBDA k : parts[k].length + (IF parts[k].apart THEN 2 ELSE 1),
                  DOMAIN parts) - 1

\* ContextSegment. field is NoCap where there is none; marks counts the markers
\* in front of the text; kept are the parts that are there, and intact says that all
\* of them stand as they stood in the text.
Segment(text, section, priority, authority, confidence, candidate, field, length, parts) ==
    [text |-> text, section |-> section, priority |-> priority, authority |-> authority,
     confidence |-> confidence, candidate |-> candidate, field |-> field, length |-> length,
     parts |-> parts, marks |-> 0, kept |-> DOMAIN parts, intact |-> TRUE]

Bytes(seg) == seg.length + MarkerBytes * seg.marks
Chars(seg) == seg.length + MarkerChars * seg.marks

SectionsOf(segs) == {segs[i].section : i \in DOMAIN segs}

\* Lower is more important: priority, then authority, then confidence, then the
\* order of assembly.
Before(segs, a, b) ==
    LET x == segs[a]
        y == segs[b]
    IN  \/ x.priority > y.priority
        \/ x.priority = y.priority /\ x.authority > y.authority
        \/ /\ x.priority = y.priority
           /\ x.authority = y.authority
           /\ x.confidence > y.confidence \/ (x.confidence = y.confidence /\ a < b)

-----------------------------------------------------------------------------
(* Putting a context together *)

\* detect_conflicts: a field that two sources fill, with a text that differs from
\* that of the highest authority (the first of them). A source has one section.
detect_conflicts(segs) ==
    LET of(f) == {i \in DOMAIN segs : segs[i].field = f}
        winner(f) == CHOOSE i \in of(f) :
                        \A j \in of(f) : \/ segs[i].authority > segs[j].authority
                                         \/ /\ segs[i].authority = segs[j].authority
                                            /\ i <= j
        losers(f) == {j \in of(f) : segs[j].text # segs[winner(f)].text}
        disputed == {f \in {segs[i].field : i \in DOMAIN segs} \ {NoCap} :
                        /\ Cardinality({segs[i].section : i \in of(f)}) >= 2
                        /\ losers(f) # {}}
    IN  {[field |-> f, winner |-> segs[winner(f)].text,
          values |-> {segs[j].text : j \in losers(f)}] : f \in disputed}

IsLow(seg) == seg.confidence < 70 \/ seg.candidate

\* Marking of text that is not verified.
Marked(segs) ==
    [i \in DOMAIN segs |-> IF IsLow(segs[i]) THEN [segs[i] EXCEPT !.marks = @ + 1] ELSE segs[i]]

resolve_budget(planned) == IF planned = 0 THEN BaseTokens ELSE planned

\* The sum of the values of a function on some of its arguments.
SumOver(f, S) == MapThenSumSet(LAMBDA x : f[x], S)

\* What choosing a segment costs: its text and newline, and for the first of a
\* section the header and a separator.
TextCosts(segs) == [i \in DOMAIN segs |-> Bytes(segs[i]) + 1]
HeaderCosts == [s \in DOMAIN NameLength |-> NameLength[s] + 6]

\* Mutant: headers are not counted.
CostOfText(seg, chosen) == Bytes(seg) + 1

Cost(seg, chosen) ==
    Bytes(seg) + 1 + (IF seg.section \in chosen.sections THEN 0 ELSE HeaderCosts[seg.section])

\* The most important of some segments, and what is chosen before any is tried.
Foremost(segs, S) == CHOOSE i \in S : \A j \in S \ {i} : Before(segs, i, j)

NoneTried(segs) ==
    [left |-> DOMAIN segs, kept |-> {}, bytes |-> 0, sections |-> {}, compressed |-> FALSE]

\* The next one; if it does not fit it is left out.
Try(segs, budget, c) ==
    LET i == Foremost(segs, c.left)
    IN  IF c.bytes + Cost(segs[i], c) > budget * CharsPerToken
        THEN [c EXCEPT !.left = @ \ {i}, !.compressed = TRUE]
        ELSE [c EXCEPT !.left = @ \ {i}, !.kept = @ \cup {i}, !.bytes = @ + Cost(segs[i], c),
                       !.sections = @ \cup {segs[i].section}]

\* assemble_within_budget, its greedy choice, in the order of importance.
Choose(segs, budget) ==
    LET chosen[n \in 0..Len(segs)] ==
            IF n = 0 THEN NoneTried(segs) ELSE Try(segs, budget, chosen[n - 1])
    IN  chosen[Len(segs)]

\* The length of the text: for each section "## ", its name and a newline, with a
\* newline between sections; for each segment its text and a newline.
TextLength(segs, unit) ==
    LET lengths == [i \in DOMAIN segs |->
                       (IF unit = "bytes" THEN Bytes(segs[i]) ELSE Chars(segs[i])) + 1]
        headers == [s \in DOMAIN NameLength |-> NameLength[s] + 5]
    IN  IF segs = <<>> THEN 0
        ELSE SumOver(lengths, DOMAIN segs) + SumOver(headers, SectionsOf(segs)) - 1

\* The items that are marked keep their list, one entry for each.
LowItems(segs) == RestrictValues(segs, IsLow)

\* The chosen segments, in the order in which they were assembled.
Assembled(segs, budget) ==
    LET c == Choose(Marked(segs), budget)
        text == RestrictDomain(Marked(segs), LAMBDA i : i \in c.kept)
    IN  [text |-> text, compressed |-> c.compressed, low |-> LowItems(segs),
         conflicts |-> detect_conflicts(segs),
         token_count |-> TextLength(text, "bytes") \div CharsPerToken]

-----------------------------------------------------------------------------
(* Packages *)

\* segment_priority, from the header.
segment_priority(header) ==
    CASE header = "Identity" -> 100 [] header = "Canonical User" -> 90
      [] header = "Shared Task" -> 85 [] header = "Enterprise Memory" -> 80
      [] header = "Business State" -> 70 [] header = "Agent Private Memory" -> 60
      [] header = "Hot Context" -> 20 [] OTHER -> 40

\* The places in a text: part k of segment i, and 0 for the header of its section.
PartsIn(text) == UNION {{i} \X text[i].kept : i \in DOMAIN text}
AtOrBefore(p, q) == p[1] < q[1] \/ (p[1] = q[1] /\ p[2] <= q[2])

\* The headers of the sections.
SectionHeaders(text) ==
    {<<i, 0>> : i \in {j \in DOMAIN text :
                          \A h \in DOMAIN text : h < j => text[h].section # text[j].section}}

\* The lines that begin with "## ". A marker in front of the text hides that of its first
\* part.
Openings(text) ==
    SectionHeaders(text)
    \cup {p \in PartsIn(text) : /\ text[p[1]].parts[p[2]].head # ""
                                /\ p[2] = 1 => text[p[1]].marks = 0}

\* split_segments: what stands from one such line to the next, whatever section and
\* text it belongs to, without the last line ends.
split_segments(text) ==
    LET own(o) == {p \in PartsIn(text) :
                      /\ AtOrBefore(o, p)
                      /\ \A q \in Openings(text) \ {o} : AtOrBefore(o, q) => ~AtOrBefore(q, p)}
        header(o) == IF o[2] = 0 THEN text[o[1]].section ELSE text[o[1]].parts[o[2]].head
        chars(p) == text[p[1]].parts[p[2]].length
                    + (IF p[2] = 1 THEN MarkerChars * text[p[1]].marks ELSE 0)
        front(o) == IF o[2] = 0 THEN NameLength[header(o)] + 4 ELSE 0
        size(o) == front(o) + (IF own(o) = {} THEN 0
                               ELSE MapThenSumSet(LAMBDA p : chars(p) + 1, own(o)) - 1)
    IN  {[at |-> o, own |-> own(o), priority |-> segment_priority(header(o)),
          tokens |-> size(o) \div CharsPerToken] : o \in Openings(text)}

\* What shrink_text takes first: the higher priority, then the smaller.
TakenBefore(a, b) ==
    \/ a.priority > b.priority
    \/ a.priority = b.priority /\ a.tokens < b.tokens
    \/ a.priority = b.priority /\ a.tokens = b.tokens /\ AtOrBefore(a.at, b.at)

\* shrink_text: as long as the sum of their tokens allows; what is headed as identity
\* always. What is left is joined by blank lines.
shrink_text(text, budget) ==
    LET try(c, g) ==
            IF g.priority >= 100 \/ c.tokens + g.tokens <= budget
            THEN [kept |-> c.kept \cup g.own, tokens |-> c.tokens + g.tokens]
            ELSE c
        kept == FoldLeft(try, [kept |-> {}, tokens |-> 0],
                         SetToSortSeq(split_segments(text), TakenBefore)).kept
        left(i) == {k \in text[i].kept : <<i, k>> \in kept}
    IN  [i \in {j \in DOMAIN text : left(j) # {}} |->
            [text[i] EXCEPT !.kept = left(i),
                            !.intact = /\ left(i) = DOMAIN text[i].parts
                                       /\ \A k \in left(i) \ {1} : text[i].parts[k].apart]]

TextTokens(text) == TextLength(text, "chars") \div CharsPerToken

\* AuthoritySummary: the highest level of the evidence, L3 when there is none.
HighestAuthority(evidence) == Max(evidence \cup {0})

\* ContextPackageBuilder::build, for a context that is not empty.
build(ctx, evidence, budget) ==
    [text |-> IF TextTokens(ctx.text) > budget THEN shrink_text(ctx.text, budget)
                                               ELSE ctx.text,
     budget |-> budget, highest |-> HighestAuthority(evidence),
     conflicts |-> ctx.conflicts]

SignsIn(text) == UNION {text[p[1]].parts[p[2]].signs : p \in PartsIn(text)}

ScanVerdict(pkg, strict) == scan(SignsIn(pkg.text), "external_document", strict)

\* validate_for_sharing, after the scan: for each item of the list the first place
\* where its text stands whole gets one more marker.
validate_for_sharing(pkg, low) ==
    [pkg EXCEPT !.text =
        [i \in DOMAIN pkg.text |->
            IF \/ ~pkg.text[i].intact
               \/ \E j \in DOMAIN pkg.text : /\ j < i /\ pkg.text[j].intact
                                             /\ pkg.text[j].text = pkg.text[i].text
            THEN pkg.text[i]
            ELSE [pkg.text[i] EXCEPT !.marks =
                    @ + Cardinality({j \in DOMAIN low : low[j].text = pkg.text[i].text})]]]

\* DefaultPolicyChecker::check; an assembled conflict always has a description.
PolicyViolations(pkg, origin, requester, min_authority) ==
    {v \in {"tenant", "authority"} :
        \/ v = "tenant" /\ origin # requester
        \/ v = "authority" /\ pkg.highest < min_authority}
================================================================================
