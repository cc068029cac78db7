------------------------------- MODULE Chunking -------------------------------
(***************************************************************************)
(* split_by_sections and _apply_overlap (ingest/chunking.py): sections of  *)
(* text become chunks of at most max_chars characters; adjacent small      *)
(* sections are packed together, large ones are broken at paragraphs and   *)
(* then by length; at the end every chunk but the first is prefixed with   *)
(* the tail of its predecessor.                                            *)
(*                                                                         *)
(* A text is an interval of positions in the document.  A chunk that packs *)
(* several sections spans from the first to the last of them; its length   *)
(* is kept apart, because of the separators.                               *)
(***************************************************************************)
EXTENDS Integers, Sequences

CONSTANTS
    MaxChars, OverlapChars,
    Pages, NoPage,
    Batches      (* the arguments a call may get: sequences of sections     *)

Length(x) == (x.to + 1) - x.from

IsText(x) == x.from \in Nat /\ x.to \in Nat /\ x.from <= x.to + 1

IsSection(s) ==
    /\ IsText(s)
    /\ s.page \in Pages \cup {NoPage}
    /\ s.paras \in Seq([from : Nat, to : Nat])
    /\ \A i \in 1 .. Len(s.paras) : IsText(s.paras[i])

(* A step of the slicing loop must advance; the defaults are 2048 and 256.   *)
ASSUME ChunkingAssumption ==
    /\ MaxChars \in Nat /\ OverlapChars \in Nat
    /\ OverlapChars < MaxChars
    /\ NoPage \notin Pages

ASSUME BatchesAssumption ==
    \A b \in Batches : Len(b) \in Nat /\ \A i \in 1 .. Len(b) : IsSection(b[i])

VARIABLES
    batch,       (* the sections being chunked                              *)
    at,          (* the section under way                                   *)
    para,        (* its paragraph, 0 outside a large section                *)
    offset,      (* where in a large paragraph the next slice starts        *)
    buffer,      (* the chunk being packed; length 0 when there is none     *)
    chunks,      (* result, before the overlap                              *)
    phase,       (* "idle", "splitting", "overlapping", "done"              *)
    output       (* what split_by_sections has returned                     *)

chunkVars == <<batch, at, para, offset, buffer, chunks, phase, output>>

NoBuffer == [from |-> 1, to |-> 0, page |-> NoPage, len |-> 0]

AsChunk(x, page) == [from |-> x.from, to |-> x.to, page |-> page, len |-> Length(x)]

(* Without a blank line between them the text is one paragraph.              *)
Paragraphs(s) ==
    IF s.paras = <<>> THEN <<[from |-> s.from, to |-> s.to]>> ELSE s.paras

Flushed == IF buffer.len > 0 THEN Append(chunks, buffer) ELSE chunks

Section == batch[at]

Paragraph == Paragraphs(Section)[para]

Large(x) == Length(x) > MaxChars

ChunkInit ==
    /\ batch \in Batches
    /\ at = 1 /\ para = 0 /\ offset = 0
    /\ buffer = NoBuffer
    /\ chunks = <<>> /\ output = <<>>
    /\ phase = "splitting"

-----------------------------------------------------------------------------
(* The loop over the sections *)

Splitting == phase = "splitting" /\ at <= Len(batch)

OpenLarge ==
    /\ Splitting /\ para = 0
    /\ Large(Section)
    /\ chunks' = Flushed
    /\ buffer' = NoBuffer
    /\ para' = 1
    /\ UNCHANGED <<batch, at, offset, phase, output>>

TakeParagraph ==
    /\ Splitting /\ para \in 1 .. Len(Paragraphs(Section))
    /\ ~Large(Paragraph)
    /\ chunks' = Flushed
    /\ buffer' = AsChunk(Paragraph, Section.page)
    /\ para' = para + 1
    /\ UNCHANGED <<batch, at, offset, phase, output>>

(* Mutant: the overlap is added to the step instead of subtracted. *)
SliceStepAdded == MaxChars + OverlapChars

SliceStep == MaxChars - OverlapChars

Shorter(m, n) == IF m < n THEN m ELSE n

Slice ==
    LET first == Paragraph.from + offset
    IN  [from |-> first, to |-> Shorter(Paragraph.to, (first + MaxChars) - 1)]

(* One turn of the slicing loop; before the first the buffer is flushed,     *)
(* after the last it is emptied.                                             *)
TakeSlice ==
    /\ Splitting /\ para \in 1 .. Len(Paragraphs(Section))
    /\ Large(Paragraph)
    /\ chunks' = Append(IF offset = 0 THEN Flushed ELSE chunks,
                        AsChunk(Slice, Section.page))
    /\ buffer' = NoBuffer
    /\ IF offset + SliceStep < Length(Paragraph)
         THEN offset' = offset + SliceStep /\ UNCHANGED para
         ELSE offset' = 0 /\ para' = para + 1
    /\ UNCHANGED <<batch, at, phase, output>>

CloseLarge ==
    /\ Splitting /\ para > Len(Paragraphs(Section))
    /\ para' = 0
    /\ at' = at + 1
    /\ UNCHANGED <<batch, offset, buffer, chunks, phase, output>>

(* Mutant: the blank line between packed sections is not counted. *)
FitsTight(s) == buffer.len + Length(s) <= MaxChars

Fits(s) == buffer.len + Length(s) + 2 <= MaxChars

(* Mutant: the chunk keeps the page of its first section. *)
PageOfFirst(s) == buffer.page

PageOfBoth(s) == IF buffer.page = s.page THEN buffer.page ELSE NoPage

Pack ==
    /\ Splitting /\ para = 0
    /\ ~Large(Section)
    /\ Fits(Section) /\ buffer.len > 0
    /\ buffer' = [from |-> buffer.from, to |-> Section.to,
                  page |-> PageOfBoth(Section),
                  len  |-> buffer.len + Length(Section) + 2]
    /\ at' = at + 1
    /\ UNCHANGED <<batch, para, offset, chunks, phase, output>>

(* The section starts a new buffer, because there is none or it is full.     *)
Replace ==
    /\ Splitting /\ para = 0
    /\ ~Large(Section)
    /\ ~(Fits(Section) /\ buffer.len > 0)
    /\ chunks' = Flushed
    /\ buffer' = AsChunk(Section, Section.page)
    /\ at' = at + 1
    /\ UNCHANGED <<batch, para, offset, phase, output>>

Finish ==
    /\ phase = "splitting" /\ at > Len(batch)
    /\ chunks' = Flushed
    /\ buffer' = NoBuffer
    /\ phase' = "overlapping"
    /\ UNCHANGED <<batch, at, para, offset, output>>

-----------------------------------------------------------------------------
(* _apply_overlap: the tail is taken of the predecessor as it was split;     *)
(* without an overlap, prev_text[-0:] is the whole of it.                    *)

TailOf(c) == IF OverlapChars = 0 THEN c.len ELSE Shorter(OverlapChars, c.len)

TailLength(i) == IF i = 1 THEN 0 ELSE TailOf(chunks[i - 1])

Overlapped ==
    [i \in 1 .. Len(chunks) |->
        [chunks[i] EXCEPT !.len = @ + TailLength(i)]]

ApplyOverlap ==
    /\ phase = "overlapping"
    /\ output' = output \o Overlapped
    /\ phase' = "done"
    /\ UNCHANGED <<batch, at, para, offset, buffer, chunks>>

ChunkNext ==
    \/ OpenLarge \/ TakeParagraph \/ TakeSlice \/ CloseLarge
    \/ Pack \/ Replace \/ Finish \/ ApplyOverlap

ChunkSpec == ChunkInit /\ [][ChunkNext]_chunkVars

-----------------------------------------------------------------------------
(* Properties *)

IsChunk(c, limit) ==
    /\ c.from \in Nat /\ c.to \in Nat /\ c.len \in Nat
    /\ c.page \in Pages \cup {NoPage}
    /\ c.len <= limit

MaxTail == IF OverlapChars = 0 THEN MaxChars ELSE OverlapChars

(* "max_chars: Maximum characters per output chunk (default 2048)"           *)
(* (chunking.py:46) holds until the overlap is applied, which adds up to     *)
(* overlap_chars (chunking.py:129), or a whole chunk if that is 0.           *)
ChunksBounded ==
    /\ \A i \in 1 .. Len(batch) : IsSection(batch[i])
    /\ IsChunk(buffer, MaxChars)
    /\ \A i \in 1 .. Len(chunks) : IsChunk(chunks[i], MaxChars)
    /\ \A i \in 1 .. Len(output) : IsChunk(output[i], MaxChars + MaxTail)
=============================================================================
