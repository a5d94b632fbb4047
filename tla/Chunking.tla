------------------------------ MODULE Chunking ------------------------------
(***************************************************************************)
(* rag/chunking.py: a document is split into its headed sections, and each *)
(* section into windows of tokens that overlap.                            *)
(*                                                                         *)
(* A document is a sequence of pieces: a heading line, a word the tokenizer *)
(* knows, a space it makes a token of, and a space it skips.  An offset is *)
(* a position in that sequence.                                            *)
(***************************************************************************)
EXTENDS Integers, Sequences, FiniteSets

CONSTANTS
    MaxLength,  \* bound on the pieces of a document
    Sizes       \* <<chunk_tokens, overlap_tokens>> pairs

Pieces == {"heading", "word", "blank", "skipped"}

VARIABLES
    text, size,     \* the document and the configuration
    section, start, \* the section being split and the token its window starts at
    chunks,         \* the chunks made so far
    outcome         \* "running", "done", or "rejected" as a wrong configuration

chunkVars == <<text, size, section, start, chunks, outcome>>

\* The positions of some pieces of the text, in order: among the first n, and all.
Taken(t, first, last, kinds) ==
    LET taken[n \in 0..(last - first + 1)] ==
          IF n = 0 THEN <<>>
          ELSE IF t[first + n - 1] \in kinds THEN Append(taken[n - 1], first + n - 1)
                                             ELSE taken[n - 1]
    IN taken

Positions(t, first, last, kinds) == Taken(t, first, last, kinds)[last - first + 1]

HeadingsOf(t) == Positions(t, 1, Len(t), {"heading"})

\* split_into_sections: each heading's body, up to the next heading.  A document
\* without headings is one section; what comes before a first heading is in none.
SplitIntoSections(t) ==
    LET heads == HeadingsOf(t)
        End(i) == IF i = Len(heads) THEN Len(t) ELSE heads[i + 1] - 1
    IN IF heads = <<>> THEN << [first |-> 1, last |-> Len(t)] >>
       ELSE [i \in DOMAIN heads |-> [first |-> heads[i] + 1, last |-> End(i)]]

\* The tokens of a section, by their offsets in the document.
TokensOf(t, s) == Positions(t, s.first, s.last, {"word", "blank"})

StrideOfChunk(sz) == sz[1]

\* The fixed stride of _split_section_tokens.
Stride(sz) == LET step == sz[1] - sz[2] IN IF step > 1 THEN step ELSE 1

\* A window that holds only whitespace makes no chunk.
IsBlank(t, first, last) == \A i \in first..last : t[i] # "word"

----------------------------------------------------------------------------
Init ==
    /\ text \in UNION { [1..n -> Pieces] : n \in 0..MaxLength }
    /\ size \in Sizes
    /\ section = 1 /\ start = 1 /\ chunks = <<>>
    /\ outcome = IF size[2] >= size[1] THEN "rejected" ELSE "running"

Sections == SplitIntoSections(text)
Tokens == TokensOf(text, Sections[section])

\* One window of the section, and the chunk it makes.  A section ends with the
\* window that reaches its last token.
Window ==
    /\ outcome = "running" /\ section <= Len(Sections)
    /\ start <= Len(Tokens)
    /\ LET end == IF start + size[1] - 1 < Len(Tokens) THEN start + size[1] - 1
                  ELSE Len(Tokens)
           first == Tokens[start]
           last == Tokens[end]
           chunk == [section |-> section, index |-> Len(chunks), tokens |-> end - start + 1,
                     from |-> start, first |-> first, last |-> last]
       IN /\ chunks' = IF IsBlank(text, first, last) THEN chunks ELSE Append(chunks, chunk)
          /\ IF end = Len(Tokens)
               THEN section' = section + 1 /\ start' = 1
               ELSE start' = start + Stride(size) /\ UNCHANGED section
    /\ UNCHANGED <<text, size, outcome>>

\* A section without tokens has no window.
SkipSection ==
    /\ outcome = "running" /\ section <= Len(Sections)
    /\ start > Len(Tokens)
    /\ section' = section + 1 /\ start' = 1
    /\ UNCHANGED <<text, size, chunks, outcome>>

Finish ==
    /\ outcome = "running" /\ section > Len(Sections)
    /\ outcome' = "done"
    /\ UNCHANGED <<text, size, section, start, chunks>>

Next == Window \/ SkipSection \/ Finish

Spec == Init /\ [][Next]_chunkVars

----------------------------------------------------------------------------
HeadingsBefore(i) == Cardinality({ j \in 1..i : text[j] = "heading" })
Headed(i) == HeadingsBefore(i) > 0 \/ HeadingsBefore(Len(text)) = 0
SectionAt(i) == IF HeadingsBefore(i) = 0 THEN 1 ELSE HeadingsBefore(i)

\* When a document has been chunked: every word under a heading is in a chunk of
\* its own section; no chunk is longer than allowed or crosses a heading; chunks
\* are numbered in the order of the text; and where two chunks of a section follow
\* each other with no blank window between them, they share exactly the overlap.
ChunksKeepText ==
    outcome = "done" =>
        /\ \A i \in DOMAIN text :
             text[i] = "word" /\ Headed(i) =>
                \E c \in DOMAIN chunks :
                   i \in chunks[c].first..chunks[c].last /\ chunks[c].section = SectionAt(i)
        /\ \A c \in DOMAIN chunks :
             /\ chunks[c].tokens <= size[1] /\ chunks[c].index = c - 1
             /\ \A i \in chunks[c].first..chunks[c].last : text[i] # "heading"
             /\ c > 1 =>
                  /\ chunks[c].section > chunks[c-1].section \/ chunks[c].first > chunks[c-1].first
                  /\ chunks[c].section = chunks[c-1].section =>
                       \/ chunks[c-1].from + chunks[c-1].tokens - chunks[c].from = size[2]
                       \/ LET skipped == chunks[c-1].from + size[1] - size[2]
                          IN text[TokensOf(text, Sections[chunks[c].section])[skipped]] = "blank"
=============================================================================
