------------------------ MODULE DocumentParsingProofs -------------------------
(***************************************************************************)
(* From the lines of a document to its chunks, for every document and for  *)
(* every max_chars and overlap_chars of which the overlap is the smaller   *)
(* one: chunks are short, no text is lost, and a chunk names the page that *)
(* its text is on.                                                         *)
(*                                                                         *)
(* In order: the size of the chunks (ChunkInv); what the loops of the      *)
(* chunking have of the text so far, for any set of characters and their   *)
(* pages (TextInv, TextStep); the sums that place the lines in the text    *)
(* (StartsApart); the groups of lines that become sections and paragraphs  *)
(* (GroupsCut, SectionsLaidOut, PageLaidOut); the run, page by page        *)
(* (ParsingInv); and the theorems.                                         *)
(***************************************************************************)
EXTENDS DocumentParsing, FiniteSetTheorems, WellFoundedInduction, TLAPS

(* What is known of a chunk that is at most n characters long. *)
Bounded(n) ==
    {c \in [from : Nat, to : Nat, page : Pages \cup {NoPage}, len : Nat] : c.len <= n}

BatchOK == Len(batch) \in Nat /\ \A i \in 1 .. Len(batch) : IsSection(batch[i])

PlaceOK ==
    /\ at \in Nat \ {0} /\ para \in Nat /\ offset \in Nat

(* In the middle of a large paragraph the next slice is not empty. *)
SliceOK ==
    offset > 0 => /\ Splitting
                  /\ para \in 1 .. Len(Paragraphs(Section))
                  /\ Large(Paragraph) /\ offset < Length(Paragraph)

ResultOK ==
    /\ buffer \in Bounded(MaxChars)
    /\ chunks \in Seq(Bounded(MaxChars))
    /\ output \in Seq(Bounded(MaxChars + MaxTail))

ChunkInv == BatchOK /\ PlaceOK /\ SliceOK /\ ResultOK

-----------------------------------------------------------------------------
(* The pieces that become chunks *)

(* The chunk of a text that is not large. *)
LEMMA AsChunkBounded ==
    ASSUME NEW x, IsText(x), ~Large(x), NEW page \in Pages \cup {NoPage}
    PROVE  AsChunk(x, page) \in Bounded(MaxChars)
BY ChunkingAssumption
   DEF IsText, Large, Length, AsChunk, Bounded, ChunkingAssumption

(* A section's paragraphs are texts. *)
LEMMA ParagraphsAreTexts ==
    ASSUME NEW s, IsSection(s)
    PROVE  /\ Len(Paragraphs(s)) \in Nat
           /\ \A i \in 1 .. Len(Paragraphs(s)) : IsText(Paragraphs(s)[i])
<1>1. CASE s.paras = <<>>
  <2>1. IsText([from |-> s.from, to |-> s.to])
    BY DEF IsSection, IsText
  <2> QED
    BY <1>1, <2>1 DEF Paragraphs
<1>2. CASE s.paras # <<>>
    BY <1>2 DEF Paragraphs, IsSection
<1> QED
    BY <1>1, <1>2

(* Flushing the buffer keeps the chunks short. *)
LEMMA FlushedBounded ==
    ASSUME ResultOK
    PROVE  Flushed \in Seq(Bounded(MaxChars))
BY DEF ResultOK, Flushed

(* An empty buffer is a short one. *)
LEMMA NoBufferBounded == NoBuffer \in Bounded(MaxChars)
BY ChunkingAssumption DEF NoBuffer, Bounded, ChunkingAssumption

(* A slice that starts inside the paragraph is at most max_chars long. *)
LEMMA SliceBounded ==
    ASSUME IsText(Paragraph), offset \in Nat, offset < Length(Paragraph),
           NEW page \in Pages \cup {NoPage}
    PROVE  AsChunk(Slice, page) \in Bounded(MaxChars)
<1> DEFINE first == Paragraph.from + offset
           last  == Shorter(Paragraph.to, (first + MaxChars) - 1)
<1>1. Paragraph.from \in Nat /\ Paragraph.to \in Nat /\ MaxChars \in Nat /\ MaxChars > 0
    BY ChunkingAssumption DEF IsText, ChunkingAssumption
<1>2. first \in Nat /\ first <= Paragraph.to
    BY <1>1 DEF Length
<1> HIDE DEF first
<1>3. last \in Nat /\ first <= last + 1 /\ (last + 1) - first <= MaxChars
    BY <1>1, <1>2 DEF Shorter
<1>4. Slice = [from |-> first, to |-> last]
    BY DEF Slice, first
<1> HIDE DEF last
<1>5. Length(Slice) = (last + 1) - first
    BY <1>4 DEF Length
<1>6. AsChunk(Slice, page) = [from |-> first, to |-> last, page |-> page, len |-> (last + 1) - first]
    BY <1>4, <1>5 DEF AsChunk
<1>7. (last + 1) - first \in Nat
    BY <1>2, <1>3
<1> QED
    BY <1>2, <1>3, <1>6, <1>7 DEF Bounded

(* The tail that is put before a chunk adds at most overlap_chars, if that is *)
(* not 0. *)
LEMMA OverlappedBounded ==
    ASSUME ResultOK
    PROVE  Overlapped \in Seq(Bounded(MaxChars + MaxTail))
<1>0. MaxChars \in Nat /\ OverlapChars \in Nat /\ MaxTail \in Nat
    BY ChunkingAssumption DEF ChunkingAssumption, MaxTail
<1>1. /\ Len(chunks) \in Nat
      /\ \A i \in 1 .. Len(chunks) : chunks[i] \in Bounded(MaxChars)
    BY DEF ResultOK
<1>2. ASSUME NEW i \in 1 .. Len(chunks)
      PROVE  TailLength(i) \in Nat /\ TailLength(i) <= MaxTail
  <2>1. CASE i = 1
    BY <1>0, <2>1 DEF TailLength
  <2>2. CASE i # 1
    <3>1. i - 1 \in 1 .. Len(chunks)
      BY <1>1, <2>2
    <3>2. chunks[i - 1].len \in Nat /\ chunks[i - 1].len <= MaxChars
      BY <1>1, <3>1 DEF Bounded
    <3> QED
      BY <1>0, <2>2, <3>2 DEF TailLength, TailOf, MaxTail, Shorter
  <2> QED
    BY <2>1, <2>2
<1>3. ASSUME NEW i \in 1 .. Len(chunks)
      PROVE  Overlapped[i] \in Bounded(MaxChars + MaxTail)
  <2>1. /\ chunks[i] \in [from : Nat, to : Nat, page : Pages \cup {NoPage}, len : Nat]
        /\ chunks[i].len <= MaxChars
    BY <1>1 DEF Bounded
  <2>2. Overlapped[i] = [chunks[i] EXCEPT !.len = chunks[i].len + TailLength(i)]
    BY DEF Overlapped
  <2>3. chunks[i].len + TailLength(i) \in Nat
    BY <1>2, <2>1
  <2>4. Overlapped[i] \in [from : Nat, to : Nat, page : Pages \cup {NoPage}, len : Nat]
    BY <2>1, <2>2, <2>3
  <2>5. Overlapped[i].len <= MaxChars + MaxTail
    BY <1>0, <1>2, <2>1, <2>2
  <2> QED
    BY <2>4, <2>5 DEF Bounded
<1>4. Overlapped \in [1 .. Len(chunks) -> Bounded(MaxChars + MaxTail)]
    BY <1>3 DEF Overlapped
<1> QED
    BY <1>1, <1>4

-----------------------------------------------------------------------------
(* The invariant *)

(* The invariant holds before the first section.                             *)
LEMMA ChunkInvInit == ChunkInit => ChunkInv
<1> SUFFICES ASSUME ChunkInit PROVE ChunkInv
    OBVIOUS
<1>1. BatchOK
    BY BatchesAssumption DEF ChunkInit, BatchOK, BatchesAssumption
<1>2. PlaceOK /\ SliceOK
    BY DEF ChunkInit, PlaceOK, SliceOK
<1>3. ResultOK
    BY NoBufferBounded DEF ChunkInit, ResultOK
<1> QED
    BY <1>1, <1>2, <1>3 DEF ChunkInv

(* Every step of the loops keeps it.                                         *)
LEMMA ChunkInvStep == ChunkInv /\ [ChunkNext]_chunkVars => ChunkInv'
<1> SUFFICES ASSUME ChunkInv, [ChunkNext]_chunkVars PROVE ChunkInv'
    OBVIOUS
<1>0. /\ MaxChars \in Nat /\ OverlapChars \in Nat /\ SliceStep \in Nat /\ SliceStep > 0
      /\ BatchOK /\ PlaceOK /\ SliceOK /\ ResultOK
      /\ Flushed \in Seq(Bounded(MaxChars))
      /\ NoBuffer \in Bounded(MaxChars)
    BY ChunkingAssumption, FlushedBounded, NoBufferBounded
       DEF ChunkingAssumption, ChunkInv, SliceStep
<1>1. ASSUME Splitting
      PROVE  /\ IsSection(Section)
             /\ Len(Paragraphs(Section)) \in Nat
             /\ \A i \in 1 .. Len(Paragraphs(Section)) : IsText(Paragraphs(Section)[i])
  <2>1. IsSection(Section)
    BY <1>0, <1>1 DEF Splitting, BatchOK, PlaceOK, Section
  <2> QED
    BY <2>1, ParagraphsAreTexts
<1>2. CASE OpenLarge
  <2>1. offset = 0
    BY <1>0, <1>2 DEF OpenLarge, SliceOK, PlaceOK
  <2>2. ResultOK'
    BY <1>0, <1>2 DEF OpenLarge, ResultOK
  <2> QED
    BY <1>0, <1>2, <2>1, <2>2 DEF OpenLarge, ChunkInv, BatchOK, PlaceOK, SliceOK
<1>3. CASE TakeParagraph
  <2>1. IsText(Paragraph) /\ Section.page \in Pages \cup {NoPage}
    BY <1>1, <1>3 DEF TakeParagraph, Paragraph, IsSection
  <2>2. offset = 0
    BY <1>0, <1>3, <2>1 DEF TakeParagraph, SliceOK, PlaceOK
  <2>3. ResultOK'
    BY <1>0, <1>3, <2>1, AsChunkBounded DEF TakeParagraph, ResultOK
  <2> QED
    BY <1>0, <1>3, <2>2, <2>3 DEF TakeParagraph, ChunkInv, BatchOK, PlaceOK, SliceOK
<1>4. CASE TakeSlice
  <2>1. IsText(Paragraph) /\ Section.page \in Pages \cup {NoPage}
    BY <1>1, <1>4 DEF TakeSlice, Paragraph, IsSection
  <2>2. offset \in Nat /\ offset < Length(Paragraph)
    BY <1>0, <1>4, <2>1 DEF TakeSlice, SliceOK, PlaceOK, Large, Length, IsText
  <2>3. AsChunk(Slice, Section.page) \in Bounded(MaxChars)
    BY <2>1, <2>2, SliceBounded
  <2>4. ResultOK'
    BY <1>0, <1>4, <2>3 DEF TakeSlice, ResultOK
  <2>5. CASE offset + SliceStep < Length(Paragraph)
    <3>1. /\ offset' = offset + SliceStep /\ para' = para
          /\ batch' = batch /\ at' = at /\ phase' = phase
      BY <1>4, <2>5 DEF TakeSlice
    <3>2. SliceOK'
      BY <1>4, <2>5, <3>1
         DEF TakeSlice, SliceOK, Splitting, Section, Paragraph, Paragraphs, Large, Length
    <3> QED
      BY <1>0, <2>4, <3>1, <3>2 DEF ChunkInv, BatchOK, PlaceOK
  <2>6. CASE ~(offset + SliceStep < Length(Paragraph))
    BY <1>0, <1>4, <2>4, <2>6 DEF TakeSlice, ChunkInv, BatchOK, PlaceOK, SliceOK
  <2> QED
    BY <2>5, <2>6
<1>5. CASE CloseLarge
  <2>1. offset = 0
    BY <1>0, <1>1, <1>5 DEF CloseLarge, SliceOK, PlaceOK
  <2> QED
    BY <1>0, <1>5, <2>1 DEF CloseLarge, ChunkInv, BatchOK, PlaceOK, SliceOK, ResultOK
<1>6. CASE Pack
  <2>1. offset = 0
    BY <1>0, <1>6 DEF Pack, SliceOK, PlaceOK
  <2>2. IsSection(Section)
    BY <1>1, <1>6 DEF Pack
  <2>3. /\ Length(Section) \in Nat
        /\ Section.to \in Nat
        /\ buffer.from \in Nat /\ buffer.len \in Nat
        /\ PageOfBoth(Section) \in Pages \cup {NoPage}
    <3>1. Length(Section) \in Nat /\ Section.to \in Nat /\ Section.page \in Pages \cup {NoPage}
      BY <2>2 DEF IsSection, IsText, Length
    <3>2. buffer.from \in Nat /\ buffer.len \in Nat /\ buffer.page \in Pages \cup {NoPage}
      BY <1>0 DEF ResultOK, Bounded
    <3> QED
      BY <3>1, <3>2 DEF PageOfBoth
  <2>4. /\ buffer.len + Length(Section) + 2 \in Nat
        /\ buffer.len + Length(Section) + 2 <= MaxChars
    BY <1>6, <2>3 DEF Pack, Fits
  <2>5. buffer' \in Bounded(MaxChars)
    BY <1>6, <2>3, <2>4 DEF Pack, Bounded
  <2> QED
    BY <1>0, <1>6, <2>1, <2>5 DEF Pack, ChunkInv, BatchOK, PlaceOK, SliceOK, ResultOK
<1>7. CASE Replace
  <2>1. offset = 0
    BY <1>0, <1>7 DEF Replace, SliceOK, PlaceOK
  <2>2. IsText(Section) /\ Section.page \in Pages \cup {NoPage}
    BY <1>1, <1>7 DEF Replace, IsSection
  <2>3. buffer' \in Bounded(MaxChars)
    BY <1>7, <2>2, AsChunkBounded DEF Replace
  <2> QED
    BY <1>0, <1>7, <2>1, <2>3 DEF Replace, ChunkInv, BatchOK, PlaceOK, SliceOK, ResultOK
<1>8. CASE Finish
  <2>1. offset = 0
    BY <1>0, <1>8 DEF Finish, SliceOK, PlaceOK, Splitting, BatchOK
  <2> QED
    BY <1>0, <1>8, <2>1 DEF Finish, ChunkInv, BatchOK, PlaceOK, SliceOK, ResultOK
<1>9. CASE ApplyOverlap
  <2>1. offset = 0
    BY <1>0, <1>9 DEF ApplyOverlap, SliceOK, PlaceOK, Splitting
  <2>2. output' \in Seq(Bounded(MaxChars + MaxTail))
    BY <1>0, <1>9, OverlappedBounded DEF ApplyOverlap, ResultOK
  <2> QED
    BY <1>0, <1>9, <2>1, <2>2 DEF ApplyOverlap, ChunkInv, BatchOK, PlaceOK, SliceOK, ResultOK
<1>10. CASE UNCHANGED chunkVars
  <2>1. UNCHANGED <<batch, at, para, offset, buffer, chunks, phase, output>>
    BY <1>10 DEF chunkVars
  <2>2. SliceOK'
    BY <1>0, <2>1 DEF SliceOK, Splitting, Section, Paragraph, Paragraphs, Large, Length
  <2> QED
    BY <1>0, <2>1, <2>2 DEF ChunkInv, BatchOK, PlaceOK, ResultOK
<1> QED
    BY <1>2, <1>3, <1>4, <1>5, <1>6, <1>7, <1>8, <1>9, <1>10 DEF ChunkNext

(* The inductive invariant has the limits in it.                             *)
LEMMA ChunksFit == ChunkInv => ChunksBounded
<1> SUFFICES ASSUME ChunkInv PROVE ChunksBounded
    OBVIOUS
<1>1. IsChunk(buffer, MaxChars)
    BY DEF ChunkInv, ResultOK, Bounded, IsChunk
<1>2. \A i \in 1 .. Len(chunks) : IsChunk(chunks[i], MaxChars)
  <2>1. \A i \in 1 .. Len(chunks) : chunks[i] \in Bounded(MaxChars)
    BY DEF ChunkInv, ResultOK
  <2> QED
    BY <2>1 DEF Bounded, IsChunk
<1>3. \A i \in 1 .. Len(output) : IsChunk(output[i], MaxChars + MaxTail)
  <2>1. \A i \in 1 .. Len(output) : output[i] \in Bounded(MaxChars + MaxTail)
    BY DEF ChunkInv, ResultOK
  <2> QED
    BY <2>1 DEF Bounded, IsChunk
<1> QED
    BY <1>1, <1>2, <1>3 DEF ChunkInv, BatchOK, ChunksBounded

(* Before the overlap no chunk is longer than max_chars, and after it none   *)
(* is by more than overlap_chars, whatever the sections are: nothing that    *)
(* split_by_sections packs, takes whole or slices exceeds its parameter.  If *)
(* overlap_chars is 0 every chunk but the first may be twice as long, as the *)
(* whole of its predecessor is put before it.                                *)
THEOREM ChunksStayBounded == ChunkSpec => []ChunksBounded
BY ChunksFit, ChunkInvInit, ChunkInvStep, PTL DEF ChunkSpec

-----------------------------------------------------------------------------
(* What the chunks have of the text *)

(* T are the positions of the characters, P is the page that each is on.     *)

Caught(cs, x) == \E k \in 1 .. Len(cs) : Within(x, cs[k])

Rising(cs) == \A k, l \in 1 .. Len(cs) : k < l => cs[k].from < cs[l].from

Honest(T, P, c) == c.page # NoPage => \A x \in T : Within(x, c) => P[x] = c.page

(* A piece of a section, or of several of them.                              *)
Piece(T, P, c) ==
    /\ c.from <= c.to
    /\ Honest(T, P, c)
    /\ \E k \in 1 .. Len(batch) : Within(c.from, batch[k])

(* A section's characters are in its paragraphs, and on its page.            *)
SectionOf(T, P, s) ==
    LET paras == Paragraphs(s)
    IN  /\ \A i \in 1 .. Len(paras) : s.from <= paras[i].from /\ paras[i].to <= s.to
        /\ \A i, j \in 1 .. Len(paras) : i < j => paras[i].to < paras[j].from
        /\ \A x \in T : Within(x, s) => /\ s.page \in {NoPage, P[x]}
                                        /\ \E i \in 1 .. Len(paras) : Within(x, paras[i])

(* The sections are in order, and no character is between two of them.       *)
LaidOut(T, P) ==
    /\ \A k \in 1 .. Len(batch) : SectionOf(T, P, batch[k])
    /\ \A k, l \in 1 .. Len(batch) : k < l => batch[k].to < batch[l].from
    /\ \A k \in 1 .. Len(batch), l \in 1 .. Len(batch), x \in T :
            l = k + 1 => ~(batch[k].to < x /\ x < batch[l].from)

(* Where the next piece starts.                                              *)
Front ==
    IF para = 0 THEN Section.from
    ELSE IF para <= Len(Paragraphs(Section)) THEN Paragraph.from + offset
    ELSE Section.to + 1

PhaseInv ==
    /\ para > 0 => Splitting
    /\ buffer.len > 0 => phase = "splitting" /\ offset = 0
    /\ phase = "overlapping" => at > Len(batch)

PieceInv(T, P) ==
    /\ Rising(Flushed)
    /\ \A k \in 1 .. Len(Flushed) :
          /\ Piece(T, P, Flushed[k])
          /\ Splitting => Flushed[k].from < Front

(* What follows the buffer is the next to be packed.                         *)
GapInv(T) ==
    buffer.len > 0 /\ Splitting /\ para \notin 1 .. Len(Paragraphs(Section)) =>
        \A x \in T : ~(buffer.to < x /\ x < Front)

Passed(k, x) == k < at \/ (k = at /\ x < Front)

(* No character that the loops have passed is lost.                          *)
CoverInv(T) ==
    phase \in {"splitting", "overlapping"} =>
        \A k \in 1 .. Len(batch), x \in T :
            Within(x, batch[k]) /\ Passed(k, x) => Caught(Flushed, x)

DoneInv(T) ==
    phase = "done" => \A k \in 1 .. Len(batch), x \in T : Within(x, batch[k]) => Caught(output, x)

OutputInv(T, P) ==
    /\ Rising(output)
    /\ \A k \in 1 .. Len(output) :
          /\ output[k].from <= output[k].to
          /\ Honest(T, P, output[k])
          /\ phase \in {"splitting", "overlapping"} =>
                \A l \in 1 .. Len(batch) : output[k].from < batch[l].from

TextInv(T, P) ==
    /\ LaidOut(T, P)
    /\ PhaseInv
    /\ PieceInv(T, P)
    /\ GapInv(T)
    /\ CoverInv(T)
    /\ DoneInv(T)
    /\ OutputInv(T, P)

(* One more chunk, behind the others.                                        *)
LEMMA RisingAppend ==
    ASSUME NEW n, NEW F \in Seq(Bounded(n)), NEW c \in Bounded(n), Rising(F),
           \A k \in 1 .. Len(F) : F[k].from < c.from
    PROVE  Rising(Append(F, c))
<1> DEFINE G == Append(F, c)
<1>1. /\ Len(F) \in Nat /\ Len(G) = Len(F) + 1
      /\ \A k \in 1 .. Len(F) : G[k] = F[k]
      /\ G[Len(F) + 1] = c
    OBVIOUS
<1> HIDE DEF G
<1>2. ASSUME NEW k \in 1 .. Len(G), NEW l \in 1 .. Len(G), k < l
      PROVE  G[k].from < G[l].from
  <2>1. k \in 1 .. Len(F) /\ (l \in 1 .. Len(F) \/ l = Len(F) + 1)
    BY <1>1, <1>2
  <2> QED
    BY <1>1, <1>2, <2>1 DEF Rising
<1>3. Rising(G)
    BY <1>2, Zenon DEF Rising
<1> QED
    BY <1>3 DEF G

(* A chunk more catches its own characters more.                             *)
LEMMA CaughtAppend ==
    ASSUME NEW n, NEW F \in Seq(Bounded(n)), NEW c \in Bounded(n), NEW x
    PROVE  Caught(Append(F, c), x) <=> Caught(F, x) \/ Within(x, c)
<1> DEFINE G == Append(F, c)
<1>1. /\ Len(F) \in Nat /\ Len(G) = Len(F) + 1
      /\ \A k \in 1 .. Len(F) : G[k] = F[k]
      /\ G[Len(F) + 1] = c
    OBVIOUS
<1> HIDE DEF G
<1>2. ASSUME Caught(F, x) PROVE Caught(G, x)
    BY <1>1, <1>2 DEF Caught
<1>3. ASSUME Within(x, c) PROVE Caught(G, x)
  <2>1. Len(F) + 1 \in 1 .. Len(G) /\ Within(x, G[Len(F) + 1])
    BY <1>1, <1>3
  <2> QED
    BY <2>1 DEF Caught
<1>4. ASSUME Caught(G, x), ~Within(x, c) PROVE Caught(F, x)
  <2>1. PICK k \in 1 .. Len(G) : Within(x, G[k])
    BY <1>4 DEF Caught
  <2>2. k \in 1 .. Len(F)
    BY <1>1, <1>4, <2>1
  <2> QED
    BY <1>1, <2>1, <2>2 DEF Caught
<1> QED
    BY <1>2, <1>3, <1>4, Zenon DEF G

(* The section under way is one of the batch.                                *)
LEMMA SectionTyped ==
    ASSUME ChunkInv, Splitting
    PROVE  /\ at \in 1 .. Len(batch) /\ Len(batch) \in Nat
           /\ IsText(Section) /\ Section.page \in Pages \cup {NoPage}
           /\ Len(Paragraphs(Section)) \in Nat
           /\ \A i \in 1 .. Len(Paragraphs(Section)) : IsText(Paragraphs(Section)[i])
           /\ Front \in Nat
<1>1. at \in 1 .. Len(batch) /\ Len(batch) \in Nat
    BY DEF ChunkInv, PlaceOK, BatchOK, Splitting
<1>2. IsSection(Section)
    BY <1>1 DEF ChunkInv, BatchOK, Section
<1>3. /\ Len(Paragraphs(Section)) \in Nat
      /\ \A i \in 1 .. Len(Paragraphs(Section)) : IsText(Paragraphs(Section)[i])
    BY <1>2, ParagraphsAreTexts
<1>4. IsText(Section) /\ Section.page \in Pages \cup {NoPage}
    BY <1>2 DEF IsSection
<1>5. Front \in Nat
    BY <1>3, <1>4 DEF Front, ChunkInv, PlaceOK, Paragraph, IsText
<1> QED
    BY <1>1, <1>3, <1>4, <1>5

(* The next piece starts at a position of the document.                      *)
LEMMA FrontTyped == ChunkInv /\ Splitting => Front \in Nat
BY SectionTyped

(* A step of a loop leaves the text, and what has been returned, alone.      *)
LoopStep == Splitting /\ UNCHANGED <<batch, phase, output>>

(* What every step of the loop over the sections leaves as it is.            *)
LEMMA LoopLeaves ==
    ASSUME NEW T, NEW P, TextInv(T, P), LoopStep
    PROVE  LaidOut(T, P)' /\ DoneInv(T)' /\ OutputInv(T, P)'
BY DEF TextInv, LoopStep, Splitting, LaidOut, SectionOf, DoneInv, OutputInv

(* A step that adds no piece.                                                *)
LEMMA NothingAdded ==
    ASSUME NEW T, NEW P, ChunkInv, ChunkInv', TextInv(T, P), LoopStep,
           Flushed' = Flushed,
           Splitting' => Front <= Front',
           \A k \in 1 .. Len(batch), x \in T :
                Within(x, batch[k]) /\ Passed(k, x)' => Passed(k, x)
    PROVE  PieceInv(T, P)' /\ CoverInv(T)'
<1>1. Front \in Nat /\ (Splitting' => Front' \in Nat)
  <2>1. (ChunkInv /\ Splitting => Front \in Nat)'
    BY FrontTyped, PTL
  <2> QED
    BY <2>1, SectionTyped DEF LoopStep
<1>2. Flushed \in Seq(Bounded(MaxChars))
    BY FlushedBounded DEF ChunkInv
<1>3. \A k \in 1 .. Len(Flushed) : Flushed[k].from \in Nat
    BY <1>2 DEF Bounded
<1>4. PieceInv(T, P)'
  <2>1. \A k \in 1 .. Len(Flushed) : Piece(T, P, Flushed[k])'
    BY DEF TextInv, PieceInv, LoopStep, Piece, Honest
  <2>2. \A k \in 1 .. Len(Flushed) : Splitting' => Flushed[k].from < Front'
    BY <1>1, <1>3 DEF TextInv, PieceInv, LoopStep
  <2> QED
    BY <2>1, <2>2 DEF TextInv, PieceInv, Rising
<1>5. CoverInv(T)'
    BY DEF TextInv, CoverInv, LoopStep, Splitting, Caught
<1> QED
    BY <1>4, <1>5

(* A step that adds a piece behind the others.                               *)
LEMMA PieceAdded ==
    ASSUME NEW T, NEW P, ChunkInv, ChunkInv', TextInv(T, P), LoopStep,
           NEW c \in Bounded(MaxChars), Piece(T, P, c), Front <= c.from,
           Flushed' = Append(Flushed, c),
           Splitting' => c.from < Front',
           \A k \in 1 .. Len(batch), x \in T :
                Within(x, batch[k]) /\ Passed(k, x)' => Passed(k, x) \/ Within(x, c)
    PROVE  PieceInv(T, P)' /\ CoverInv(T)'
<1> DEFINE F == Flushed
           G == Append(F, c)
<1>1. Front \in Nat /\ (Splitting' => Front' \in Nat) /\ c.from \in Nat
  <2>1. (ChunkInv /\ Splitting => Front \in Nat)'
    BY FrontTyped, PTL
  <2> QED
    BY <2>1, SectionTyped DEF LoopStep, Bounded
<1>2. F \in Seq(Bounded(MaxChars))
    BY FlushedBounded DEF ChunkInv
<1>3. /\ Rising(F)
      /\ \A k \in 1 .. Len(F) : /\ Piece(T, P, F[k])
                                /\ F[k].from \in Nat /\ F[k].from < Front
  <2>1. Rising(F) /\ \A k \in 1 .. Len(F) : Piece(T, P, F[k]) /\ F[k].from < Front
    BY DEF TextInv, PieceInv, LoopStep
  <2>2. \A k \in 1 .. Len(F) : F[k] \in Bounded(MaxChars)
    BY <1>2
  <2> QED
    BY <2>1, <2>2 DEF Bounded
<1>4. \A k \in 1 .. Len(batch), x \in T : Within(x, batch[k]) /\ Passed(k, x) => Caught(F, x)
    BY DEF TextInv, CoverInv, LoopStep, Splitting
<1>5. Flushed' = G
    OBVIOUS
<1>6. /\ Len(F) \in Nat /\ Len(G) = Len(F) + 1
      /\ \A k \in 1 .. Len(F) : G[k] = F[k]
      /\ G[Len(F) + 1] = c
    BY <1>2
<1>7. Rising(G)
    BY <1>1, <1>2, <1>3, RisingAppend
<1>8. \A x : Caught(F, x) \/ Within(x, c) => Caught(G, x)
    BY <1>2, CaughtAppend
<1> HIDE DEF F, G
<1>9. PieceInv(T, P)'
  <2>1. ASSUME NEW k \in 1 .. Len(G)
        PROVE  Piece(T, P, G[k]) /\ (Splitting' => G[k].from < Front')
    <3>1. CASE k \in 1 .. Len(F)
      BY <1>1, <1>3, <1>6, <3>1
    <3>2. CASE k = Len(F) + 1
      BY <1>6, <3>2
    <3> QED
      BY <1>6, <3>1, <3>2
  <2> QED
    BY <1>5, <1>7, <2>1 DEF PieceInv, Rising, Piece, Honest, LoopStep
<1>10. CoverInv(T)'
    BY <1>4, <1>5, <1>8 DEF CoverInv, LoopStep, Caught
<1> QED
    BY <1>9, <1>10

(* Where the piece after a paragraph starts.                                 *)
AfterParagraph ==
    IF para + 1 <= Len(Paragraphs(Section)) THEN Paragraphs(Section)[para + 1].from
    ELSE Section.to + 1

(* Between a paragraph and the next there is no character.                   *)
LEMMA ParagraphPassed ==
    ASSUME NEW T, NEW P, T \subseteq Nat, ChunkInv, LaidOut(T, P), Splitting,
           para \in 1 .. Len(Paragraphs(Section))
    PROVE  /\ IsText(Paragraph) /\ AfterParagraph \in Nat
           /\ Section.from <= Paragraph.from /\ Paragraph.to <= Section.to
           /\ Paragraph.to < AfterParagraph
           /\ \A x \in T : Within(x, Section) /\ x < AfterParagraph =>
                    x < Paragraph.from \/ Within(x, Paragraph)
           /\ \A x \in T : Within(x, Paragraph) => Section.page \in {NoPage, P[x]}
<1> DEFINE paras == Paragraphs(Section)
<1>1. /\ SectionOf(T, P, Section)
      /\ IsText(Section) /\ Len(paras) \in Nat
      /\ \A i \in 1 .. Len(paras) : IsText(paras[i])
    BY SectionTyped DEF LaidOut, Section
<1>2. /\ \A i \in 1 .. Len(paras) : Section.from <= paras[i].from /\ paras[i].to <= Section.to
      /\ \A i, j \in 1 .. Len(paras) : i < j => paras[i].to < paras[j].from
      /\ \A x \in T : Within(x, Section) => /\ Section.page \in {NoPage, P[x]}
                                            /\ \E i \in 1 .. Len(paras) : Within(x, paras[i])
    BY <1>1 DEF SectionOf
<1>3. Paragraph = paras[para] /\ para \in 1 .. Len(paras)
    BY DEF Paragraph
<1>4. AfterParagraph = IF para + 1 <= Len(paras) THEN paras[para + 1].from ELSE Section.to + 1
    BY DEF AfterParagraph
<1> HIDE DEF paras
<1>5. IsText(Paragraph) /\ Section.from <= Paragraph.from /\ Paragraph.to <= Section.to
    BY <1>1, <1>2, <1>3
<1>6. AfterParagraph \in Nat /\ Paragraph.to < AfterParagraph
    BY <1>1, <1>2, <1>3, <1>4 DEF IsText
<1>7. ASSUME NEW x \in T, Within(x, Section), x < AfterParagraph
      PROVE  x < Paragraph.from \/ Within(x, Paragraph)
  <2>1. PICK i \in 1 .. Len(paras) : Within(x, paras[i])
    BY <1>2, <1>7
  <2>2. CASE i > para
    <3>1. para + 1 \in 1 .. Len(paras) /\ (i = para + 1 \/ para + 1 < i)
      BY <1>1, <1>3, <2>2
    <3>2. IsText(paras[para + 1]) /\ IsText(paras[i]) /\ paras[para + 1].from <= paras[i].from
      <4>1. IsText(paras[para + 1]) /\ IsText(paras[i])
        BY <1>1, <3>1
      <4>2. i = para + 1 \/ paras[para + 1].to < paras[i].from
        BY <1>2, <3>1
      <4>3. /\ paras[para + 1].from \in Nat /\ paras[para + 1].to \in Nat /\ paras[i].from \in Nat
            /\ paras[para + 1].from <= paras[para + 1].to + 1
        BY <4>1 DEF IsText
      <4>4. CASE i = para + 1
        BY <4>1, <4>3, <4>4
      <4>5. CASE paras[para + 1].to < paras[i].from
        BY <4>1, <4>3, <4>5
      <4> QED
        BY <4>2, <4>4, <4>5
    <3> QED
      BY <1>4, <1>7, <2>1, <3>1, <3>2 DEF Within, IsText
  <2>3. CASE i = para
    BY <1>3, <2>1, <2>3
  <2>4. CASE i < para
    <3>1. x \in Nat /\ IsText(paras[i]) /\ IsText(paras[para]) /\ paras[i].to < paras[para].from
      BY <1>1, <1>2, <1>3, <2>4
    <3>2. x <= paras[i].to
      BY <2>1 DEF Within
    <3> QED
      BY <1>3, <3>1, <3>2 DEF IsText
  <2> QED
    BY <1>3, <2>2, <2>3, <2>4
<1>8. ASSUME NEW x \in T, Within(x, Paragraph)
      PROVE  Section.page \in {NoPage, P[x]}
  <2>1. Within(x, Section)
    BY <1>1, <1>5, <1>8 DEF Within, IsText
  <2> QED
    BY <1>2, <2>1
<1> QED
    BY <1>5, <1>6, <1>7, <1>8

(* A large section is opened: the next piece is still the same.              *)
LEMMA OpenLargeKeeps ==
    ASSUME NEW T, NEW P, T \subseteq Nat, ChunkInv, ChunkInv', TextInv(T, P), OpenLarge
    PROVE  TextInv(T, P)'
<1>1. LoopStep /\ para = 0 /\ para' = 1 /\ at' = at /\ Section' = Section
    BY DEF OpenLarge, LoopStep, Section
<1>2. offset = 0 /\ offset' = 0
    BY <1>1 DEF OpenLarge, ChunkInv, SliceOK, PlaceOK
<1>3. buffer'.len = 0 /\ Flushed' = Flushed
    BY DEF OpenLarge, Flushed, NoBuffer
<1>4. Splitting'
    BY <1>1 DEF LoopStep, Splitting
<1> DEFINE paras == Paragraphs(Section)
<1>5. /\ SectionOf(T, P, Section)
      /\ at \in 1 .. Len(batch) /\ Len(batch) \in Nat
      /\ IsText(Section) /\ Len(paras) \in Nat
      /\ \A i \in 1 .. Len(paras) : IsText(paras[i])
    BY <1>1, SectionTyped DEF TextInv, LaidOut, Section, LoopStep
<1>6. Front = Section.from
    BY <1>1 DEF Front
<1>7. Front' = IF 1 <= Len(paras) THEN paras[1].from ELSE Section.to + 1
    BY <1>1, <1>2, <1>5 DEF Front, Paragraph, Paragraphs, IsText
<1>8. Front <= Front'
    BY <1>5, <1>6, <1>7 DEF SectionOf, IsText
<1>9. ASSUME NEW x \in T, Within(x, Section) PROVE ~(x < Front')
  <2>1. PICK i \in 1 .. Len(paras) : Within(x, paras[i])
    BY <1>5, <1>9 DEF SectionOf
  <2>2. 1 \in 1 .. Len(paras) /\ (i = 1 \/ paras[1].to < paras[i].from)
    BY <1>5 DEF SectionOf
  <2> QED
    BY <1>5, <1>7, <2>1, <2>2 DEF IsText, Within
<1>10. ASSUME NEW k \in 1 .. Len(batch), NEW x \in T, Within(x, batch[k]), Passed(k, x)'
       PROVE  Passed(k, x)
    BY <1>1, <1>9, <1>10 DEF Passed, Section
<1>11. PieceInv(T, P)' /\ CoverInv(T)'
    BY <1>1, <1>3, <1>8, <1>10, NothingAdded
<1>12. PhaseInv' /\ GapInv(T)'
  <2>1. phase' = phase /\ phase = "splitting"
    BY <1>1 DEF LoopStep, Splitting
  <2> QED
    BY <1>2, <1>3, <1>4, <2>1 DEF PhaseInv, GapInv, ChunkInv, ResultOK, Bounded
<1> QED
    BY <1>1, <1>11, <1>12, LoopLeaves DEF TextInv

(* A whole paragraph becomes the buffer.                                     *)
LEMMA TakeParagraphKeeps ==
    ASSUME NEW T, NEW P, T \subseteq Nat, ChunkInv, ChunkInv', TextInv(T, P), TakeParagraph
    PROVE  TextInv(T, P)'
<1> DEFINE c == AsChunk(Paragraph, Section.page)
<1>1. /\ LoopStep /\ para \in 1 .. Len(Paragraphs(Section)) /\ ~Large(Paragraph)
      /\ para' = para + 1 /\ at' = at /\ Section' = Section
      /\ chunks' = Flushed /\ buffer' = c
    BY DEF TakeParagraph, LoopStep, Section
<1>2. /\ IsText(Paragraph) /\ AfterParagraph \in Nat
      /\ Section.from <= Paragraph.from /\ Paragraph.to <= Section.to
      /\ Paragraph.to < AfterParagraph
      /\ \A x \in T : Within(x, Section) /\ x < AfterParagraph =>
                    x < Paragraph.from \/ Within(x, Paragraph)
      /\ \A x \in T : Within(x, Paragraph) => Section.page \in {NoPage, P[x]}
    BY <1>1, ParagraphPassed DEF TextInv, LoopStep
<1>3. /\ at \in 1 .. Len(batch) /\ Len(batch) \in Nat /\ Len(Paragraphs(Section)) \in Nat
      /\ IsText(Section) /\ Section.page \in Pages \cup {NoPage} /\ Front \in Nat
    BY <1>1, SectionTyped DEF LoopStep
<1>4. offset = 0 /\ offset' = 0
    BY <1>1, <1>2 DEF TakeParagraph, ChunkInv, SliceOK, PlaceOK
<1>5. Splitting'
    BY <1>1 DEF LoopStep, Splitting
<1>6. Front = Paragraph.from
    BY <1>1, <1>2, <1>4 DEF Front, IsText
<1>7. Front' = AfterParagraph
  <2>1. Paragraphs(Section)' = Paragraphs(Section) /\ Paragraph' = Paragraphs(Section)[para + 1]
    BY <1>1 DEF Paragraph, Paragraphs
  <2>2. para' # 0
    BY <1>1, <1>3
  <2>3. CASE para + 1 <= Len(Paragraphs(Section))
    <3>1. para + 1 \in 1 .. Len(Paragraphs(Section))
      BY <1>1, <1>3, <2>3
    <3>2. IsText(Paragraphs(Section)[para + 1])
      BY <1>1, <3>1, SectionTyped DEF LoopStep
    <3> QED
      BY <1>1, <1>4, <2>1, <2>2, <2>3, <3>2 DEF Front, AfterParagraph, IsText
  <2>4. CASE ~(para + 1 <= Len(Paragraphs(Section)))
    BY <1>1, <2>1, <2>2, <2>4 DEF Front, AfterParagraph
  <2> QED
    BY <2>3, <2>4
<1>8. c \in Bounded(MaxChars)
    BY <1>1, <1>2, <1>3, AsChunkBounded
<1>9. c.from = Paragraph.from /\ c.to = Paragraph.to /\ c.page = Section.page /\ c.len = Length(Paragraph)
    BY DEF AsChunk
<1>10. Flushed' = IF c.len > 0 THEN Append(Flushed, c) ELSE Flushed
    BY <1>1 DEF Flushed
<1> HIDE DEF c
<1>11. ASSUME NEW k \in 1 .. Len(batch), NEW x \in T, Within(x, batch[k]), Passed(k, x)'
       PROVE  Passed(k, x) \/ Within(x, c)
  <2>1. CASE k = at
    <3>1. x < AfterParagraph /\ Within(x, Section)
      BY <1>1, <1>3, <1>7, <1>11, <2>1 DEF Passed, Section
    <3> QED
      BY <1>2, <1>6, <1>9, <2>1, <3>1 DEF Passed, Within
  <2>2. CASE k # at
    BY <1>1, <1>11, <2>2 DEF Passed
  <2> QED
    BY <2>1, <2>2
<1>12. PieceInv(T, P)' /\ CoverInv(T)'
  <2>1. CASE c.len > 0
    <3>1. c.from <= c.to /\ Within(c.from, Section)
      BY <1>2, <1>3, <1>9, <2>1 DEF IsText, Length, Within
    <3>2. Honest(T, P, c)
      BY <1>2, <1>9 DEF Honest, Within
    <3>3. Piece(T, P, c)
      BY <1>3, <3>1, <3>2 DEF Piece, Section
    <3>4. Front <= c.from /\ c.from < Front'
      BY <1>2, <1>6, <1>7, <1>9, <3>1 DEF IsText
    <3> QED
      BY <1>1, <1>8, <1>10, <1>11, <2>1, <3>3, <3>4, PieceAdded
  <2>2. CASE ~(c.len > 0)
    <3>1. c.from \in Nat /\ c.to \in Nat /\ c.to < c.from
      BY <1>2, <1>9, <2>2 DEF IsText, Length
    <3>2. \A x \in T : ~Within(x, c)
      BY <3>1 DEF Within
    <3>3. Front <= Front'
      BY <1>2, <1>6, <1>7 DEF IsText
    <3> QED
      BY <1>1, <1>10, <1>11, <2>2, <3>2, <3>3, NothingAdded
  <2> QED
    BY <2>1, <2>2
<1>13. PhaseInv'
    BY <1>1, <1>4, <1>5 DEF PhaseInv, LoopStep, Splitting
<1>14. GapInv(T)'
  <2> SUFFICES ASSUME para' \notin 1 .. Len(Paragraphs(Section)'),
                      NEW x \in T, c.to < x, x < Front'
               PROVE  FALSE
    BY <1>1 DEF GapInv
  <2>1. AfterParagraph = Section.to + 1
    BY <1>1, <1>3 DEF AfterParagraph, Paragraphs
  <2>2. /\ x \in Nat /\ Paragraph.from \in Nat /\ Paragraph.to \in Nat
        /\ Section.from \in Nat /\ Section.to \in Nat
        /\ Paragraph.from <= Paragraph.to + 1 /\ Paragraph.to < x
    BY <1>2, <1>3, <1>9 DEF IsText
  <2>3. Within(x, Section)
    BY <1>2, <1>7, <2>1, <2>2 DEF Within
  <2> QED
    BY <1>2, <1>7, <2>2, <2>3 DEF Within
<1> QED
    BY <1>1, <1>12, <1>13, <1>14, LoopLeaves DEF TextInv

(* A slice follows its predecessor without a gap, the two may overlap.       *)
LEMMA TakeSliceKeeps ==
    ASSUME NEW T, NEW P, T \subseteq Nat, ChunkInv, ChunkInv', TextInv(T, P), TakeSlice
    PROVE  TextInv(T, P)'
<1> DEFINE c == AsChunk(Slice, Section.page)
<1>1. /\ LoopStep /\ para \in 1 .. Len(Paragraphs(Section)) /\ Large(Paragraph)
      /\ at' = at /\ Section' = Section
      /\ chunks' = Append(IF offset = 0 THEN Flushed ELSE chunks, c)
      /\ buffer' = NoBuffer
      /\ IF offset + SliceStep < Length(Paragraph)
         THEN offset' = offset + SliceStep /\ para' = para
         ELSE offset' = 0 /\ para' = para + 1
    BY DEF TakeSlice, LoopStep, Section
<1>2. /\ IsText(Paragraph) /\ AfterParagraph \in Nat
      /\ Section.from <= Paragraph.from /\ Paragraph.to <= Section.to
      /\ Paragraph.to < AfterParagraph
      /\ \A x \in T : Within(x, Section) /\ x < AfterParagraph =>
                    x < Paragraph.from \/ Within(x, Paragraph)
      /\ \A x \in T : Within(x, Paragraph) => Section.page \in {NoPage, P[x]}
    BY <1>1, ParagraphPassed DEF TextInv, LoopStep
<1>3. /\ at \in 1 .. Len(batch) /\ Len(batch) \in Nat /\ Len(Paragraphs(Section)) \in Nat
      /\ IsText(Section) /\ Section.page \in Pages \cup {NoPage} /\ Front \in Nat
    BY <1>1, SectionTyped DEF LoopStep
<1>4. /\ Paragraph.from \in Nat /\ Paragraph.to \in Nat
      /\ Section.from \in Nat /\ Section.to \in Nat
    BY <1>2, <1>3 DEF IsText
<1>5. /\ Front \in Nat /\ offset \in Nat /\ Front = Paragraph.from + offset /\ Front <= Paragraph.to
      /\ MaxChars \in Nat /\ SliceStep \in Nat /\ SliceStep > 0 /\ SliceStep <= MaxChars
  <2>1. /\ offset \in Nat /\ offset < Length(Paragraph)
        /\ MaxChars \in Nat /\ SliceStep \in Nat /\ SliceStep > 0 /\ SliceStep <= MaxChars
    BY <1>1, <1>4, ChunkingAssumption
       DEF ChunkInv, PlaceOK, SliceOK, Large, Length, ChunkingAssumption, SliceStep
  <2>2. Front = Paragraph.from + offset
    BY <1>1, <1>3 DEF Front
  <2> QED
    BY <1>3, <1>4, <2>1, <2>2 DEF Length
<1>6. c \in Bounded(MaxChars)
  <2>1. offset < Length(Paragraph)
    BY <1>4, <1>5 DEF Length
  <2> QED
    BY <1>2, <1>3, <1>5, <2>1, SliceBounded
<1>7. /\ c.from = Front /\ c.page = Section.page
      /\ c.to = IF Paragraph.to < Front + MaxChars - 1 THEN Paragraph.to ELSE Front + MaxChars - 1
    BY <1>4, <1>5 DEF AsChunk, Slice, Shorter
<1> HIDE DEF c
<1>8. /\ c.to \in Nat /\ c.from <= c.to /\ c.to <= Paragraph.to /\ Paragraph.from <= c.from
      /\ c.to = Paragraph.to \/ c.to = Front + MaxChars - 1
  <2>1. CASE Paragraph.to < Front + MaxChars - 1
    <3>1. c.to = Paragraph.to
      BY <1>7, <2>1
    <3> QED
      BY <1>4, <1>5, <1>7, <3>1
  <2>2. CASE ~(Paragraph.to < Front + MaxChars - 1)
    <3>1. c.to = Front + MaxChars - 1
      BY <1>7, <2>2
    <3>2. MaxChars >= 1
      BY <1>5
    <3> QED
      BY <1>4, <1>5, <1>7, <2>2, <3>1, <3>2
  <2> QED
    BY <2>1, <2>2
<1>9. Flushed' = Append(Flushed, c)
  <2>1. Flushed' = chunks'
    BY <1>1 DEF Flushed, NoBuffer
  <2>2. CASE offset = 0
    BY <1>1, <2>1, <2>2
  <2>3. CASE offset # 0
    BY <1>1, <1>5, <2>1, <2>3 DEF TextInv, PhaseInv, Flushed
  <2> QED
    BY <2>2, <2>3
<1>10. Splitting'
    BY <1>1 DEF LoopStep, Splitting
<1>11. Paragraphs(Section)' = Paragraphs(Section)
    BY <1>1 DEF Paragraphs
<1>12. /\ Front < Front' /\ Front' <= AfterParagraph
       /\ \A x \in Nat : Within(x, Paragraph) /\ x < Front' => x < Front \/ Within(x, c)
  <2>1. CASE offset + SliceStep < Length(Paragraph)
    <3>1. Front' = Front + SliceStep
      BY <1>1, <1>3, <1>4, <1>5, <1>11, <2>1 DEF Front, Paragraph
    <3>2. Front + SliceStep <= Paragraph.to
      BY <1>4, <1>5, <2>1 DEF Length
    <3>3. ASSUME NEW x \in Nat, x < Front' PROVE x < Front \/ (c.from <= x /\ (x <= Paragraph.to => x <= c.to))
      BY <1>5, <1>7, <1>8, <3>1, <3>3
    <3>4. Front < Front' /\ Front' <= AfterParagraph
      BY <1>2, <1>4, <1>5, <3>1, <3>2
    <3> QED
      BY <3>3, <3>4 DEF Within
  <2>2. CASE ~(offset + SliceStep < Length(Paragraph))
    <3>1. Front' = AfterParagraph
      <4>1. para' = para + 1 /\ para' # 0 /\ offset' = 0
        BY <1>1, <1>3, <2>2
      <4>2. Paragraph' = Paragraphs(Section)[para + 1]
        BY <1>1, <1>11, <4>1 DEF Paragraph
      <4>3. CASE para + 1 <= Len(Paragraphs(Section))
        <5>1. IsText(Paragraphs(Section)[para + 1])
          BY <1>1, <1>3, <4>3, SectionTyped DEF LoopStep
        <5> QED
          BY <1>1, <1>11, <4>1, <4>2, <4>3, <5>1 DEF Front, AfterParagraph, IsText
      <4>4. CASE ~(para + 1 <= Len(Paragraphs(Section)))
        BY <1>1, <1>11, <4>1, <4>4 DEF Front, AfterParagraph
      <4> QED
        BY <4>3, <4>4
    <3>2. Paragraph.to <= Front + SliceStep - 1
      BY <1>4, <1>5, <2>2 DEF Length
    <3>3. ASSUME NEW x \in Nat PROVE x < Front \/ (c.from <= x /\ (x <= Paragraph.to => x <= c.to))
      BY <1>4, <1>5, <1>7, <1>8, <3>2
    <3>4. Front < Front' /\ Front' <= AfterParagraph
      BY <1>2, <1>4, <1>5, <3>1
    <3> QED
      BY <3>3, <3>4 DEF Within
  <2> QED
    BY <2>1, <2>2
<1>13. Front' \in Nat
  <2>1. (ChunkInv /\ Splitting => Front \in Nat)'
    BY FrontTyped, PTL
  <2> QED
    BY <1>10, <2>1
<1>14. ASSUME NEW k \in 1 .. Len(batch), NEW x \in T, Within(x, batch[k]), Passed(k, x)'
       PROVE  Passed(k, x) \/ Within(x, c)
  <2>1. CASE k = at
    <3>1. x < Front' /\ Within(x, Section) /\ x \in Nat
      BY <1>1, <1>3, <1>14, <2>1 DEF Passed, Section
    <3>2. x < Paragraph.from \/ Within(x, Paragraph)
      BY <1>2, <1>12, <1>13, <3>1
    <3>3. x < Front \/ Within(x, c)
      BY <1>4, <1>5, <1>12, <3>1, <3>2
    <3> QED
      BY <2>1, <3>3 DEF Passed
  <2>2. CASE k # at
    BY <1>1, <1>14, <2>2 DEF Passed
  <2> QED
    BY <2>1, <2>2
<1>15. Piece(T, P, c)
  <2>1. c.from \in Nat
    BY <1>5, <1>7
  <2>2. Within(c.from, Section)
    BY <1>2, <1>4, <1>8, <2>1 DEF Within
  <2>3. \A x \in T : Within(x, c) => Within(x, Paragraph)
    BY <1>4, <1>8, <2>1 DEF Within
  <2>4. Honest(T, P, c)
    BY <1>2, <1>7, <2>3 DEF Honest
  <2> QED
    BY <1>3, <1>8, <2>2, <2>4 DEF Piece, Section
<1>16. PieceInv(T, P)' /\ CoverInv(T)'
  <2>1. Front <= c.from /\ c.from < Front'
    BY <1>3, <1>7, <1>12
  <2> QED
    BY <1>1, <1>6, <1>9, <1>14, <1>15, <2>1, PieceAdded
<1>17. PhaseInv' /\ GapInv(T)'
    BY <1>1, <1>10 DEF PhaseInv, GapInv, NoBuffer, LoopStep, Splitting
<1> QED
    BY <1>1, <1>16, <1>17, LoopLeaves DEF TextInv

(* A section is done with.                                                   *)
LEMMA SectionPassed ==
    ASSUME NEW T, NEW P, T \subseteq Nat, ChunkInv, ChunkInv', LaidOut(T, P), LoopStep,
           at' = at + 1, para' = 0
    PROVE  /\ Splitting' => Front' \in Nat /\ Section.to < Front'
           /\ Splitting' => \A x \in T : ~(Section.to < x /\ x < Front')
           /\ \A k \in 1 .. Len(batch), x \in T :
                Within(x, batch[k]) /\ Passed(k, x)' => k < at \/ k = at
<1>1. at \in 1 .. Len(batch) /\ Len(batch) \in Nat /\ IsText(Section)
    BY SectionTyped DEF LoopStep
<1>2. (ChunkInv /\ Splitting => Front \in Nat)'
    BY FrontTyped, PTL
<1>3. Front' = batch[at + 1].from
    BY DEF Front, Section, LoopStep
<1>4. Splitting' => at + 1 \in 1 .. Len(batch)
    BY <1>1 DEF Splitting, LoopStep
<1>5. at + 1 \in 1 .. Len(batch) => Section.to < Front'
    BY <1>1, <1>3 DEF LaidOut, Section
<1>6. at + 1 \in 1 .. Len(batch) => \A x \in T : ~(Section.to < x /\ x < Front')
    BY <1>1, <1>3 DEF LaidOut, Section
<1>7. ASSUME NEW k \in 1 .. Len(batch), NEW x \in T, Within(x, batch[k]), Passed(k, x)'
      PROVE  k < at \/ k = at
  <2>1. CASE k = at + 1
    <3>1. x < Front' /\ Front' <= x
      BY <1>1, <1>3, <1>7, <2>1 DEF Passed, Within
    <3>2. Front' \in Nat /\ x \in Nat
      BY <1>1, <1>2, <1>7, <2>1 DEF LoopStep, Splitting
    <3> QED
      BY <3>1, <3>2
  <2>2. CASE k # at + 1
    BY <1>1, <1>7, <2>2 DEF Passed
  <2> QED
    BY <2>1, <2>2
<1> QED
    BY <1>2, <1>4, <1>5, <1>6, <1>7

(* Behind the last paragraph of a section comes the next section.            *)
LEMMA CloseLargeKeeps ==
    ASSUME NEW T, NEW P, T \subseteq Nat, ChunkInv, ChunkInv', TextInv(T, P), CloseLarge
    PROVE  TextInv(T, P)'
<1>1. /\ LoopStep /\ para > Len(Paragraphs(Section))
      /\ para' = 0 /\ at' = at + 1
      /\ UNCHANGED <<offset, buffer, chunks>>
    BY DEF CloseLarge, LoopStep
<1>2. /\ at \in 1 .. Len(batch) /\ Len(batch) \in Nat /\ Len(Paragraphs(Section)) \in Nat
      /\ IsText(Section) /\ para \in Nat
    BY <1>1, SectionTyped DEF LoopStep, ChunkInv, PlaceOK
<1>3. Front = Section.to + 1 /\ Section.to \in Nat
    BY <1>1, <1>2 DEF Front, IsText
<1>4. /\ Splitting' => Front' \in Nat /\ Section.to < Front'
      /\ Splitting' => \A x \in T : ~(Section.to < x /\ x < Front')
      /\ \A k \in 1 .. Len(batch), x \in T :
                Within(x, batch[k]) /\ Passed(k, x)' => k < at \/ k = at
    BY <1>1, SectionPassed DEF TextInv
<1>5. Flushed' = Flushed
    BY <1>1 DEF Flushed
<1>6. ASSUME NEW k \in 1 .. Len(batch), NEW x \in T, Within(x, batch[k]), Passed(k, x)'
      PROVE  Passed(k, x)
    BY <1>2, <1>3, <1>4, <1>6 DEF Passed, Within, Section
<1>7. PieceInv(T, P)' /\ CoverInv(T)'
  <2>1. Splitting' => Front <= Front'
    BY <1>3, <1>4
  <2> QED
    BY <1>1, <1>5, <1>6, <2>1, NothingAdded
<1>8. PhaseInv'
    BY <1>1 DEF PhaseInv, TextInv, LoopStep, Splitting
<1>9. GapInv(T)'
  <2> SUFFICES ASSUME buffer.len > 0, Splitting', NEW x \in T, buffer.to < x, x < Front'
               PROVE  FALSE
    BY <1>1 DEF GapInv
  <2>1. ~(x < Section.to + 1)
    BY <1>1, <1>2, <1>3 DEF TextInv, GapInv, LoopStep
  <2> QED
    BY <1>3, <1>4, <2>1
<1> QED
    BY <1>1, <1>7, <1>8, <1>9, LoopLeaves DEF TextInv

(* A section becomes the buffer.                                             *)
LEMMA ReplaceKeeps ==
    ASSUME NEW T, NEW P, T \subseteq Nat, ChunkInv, ChunkInv', TextInv(T, P), Replace
    PROVE  TextInv(T, P)'
<1> DEFINE c == AsChunk(Section, Section.page)
<1>1. /\ LoopStep /\ para = 0 /\ ~Large(Section)
      /\ para' = 0 /\ at' = at + 1 /\ offset' = offset
      /\ chunks' = Flushed /\ buffer' = c
    BY DEF Replace, LoopStep
<1>2. /\ at \in 1 .. Len(batch) /\ Len(batch) \in Nat
      /\ IsText(Section) /\ Section.page \in Pages \cup {NoPage}
      /\ SectionOf(T, P, Section)
    BY <1>1, SectionTyped DEF LoopStep, TextInv, LaidOut, Section
<1>3. /\ Section.from \in Nat /\ Section.to \in Nat /\ Section.from <= Section.to + 1
      /\ Front = Section.from
    BY <1>1, <1>2 DEF Front, IsText
<1>4. /\ Splitting' => Front' \in Nat /\ Section.to < Front'
      /\ Splitting' => \A x \in T : ~(Section.to < x /\ x < Front')
      /\ \A k \in 1 .. Len(batch), x \in T :
                Within(x, batch[k]) /\ Passed(k, x)' => k < at \/ k = at
    BY <1>1, SectionPassed DEF TextInv
<1>5. offset = 0
    BY <1>1 DEF ChunkInv, SliceOK, PlaceOK
<1>6. c \in Bounded(MaxChars)
    BY <1>1, <1>2, AsChunkBounded
<1>7. c.from = Section.from /\ c.to = Section.to /\ c.page = Section.page /\ c.len = Length(Section)
    BY DEF AsChunk
<1>8. Flushed' = IF c.len > 0 THEN Append(Flushed, c) ELSE Flushed
    BY <1>1 DEF Flushed
<1> HIDE DEF c
<1>9. ASSUME NEW k \in 1 .. Len(batch), NEW x \in T, Within(x, batch[k]), Passed(k, x)'
      PROVE  Passed(k, x) \/ Within(x, c)
  <2>1. k < at \/ k = at
    BY <1>4, <1>9
  <2>2. CASE k = at
    BY <1>7, <1>9, <2>2 DEF Within, Section
  <2> QED
    BY <2>1, <2>2 DEF Passed
<1>10. PieceInv(T, P)' /\ CoverInv(T)'
  <2>1. CASE c.len > 0
    <3>1. c.from <= c.to /\ Within(c.from, Section)
      BY <1>3, <1>7, <2>1 DEF Length, Within
    <3>2. Honest(T, P, c)
      BY <1>2, <1>7 DEF Honest, Within, SectionOf
    <3>3. Piece(T, P, c)
      BY <1>2, <3>1, <3>2 DEF Piece, Section
    <3>4. Front <= c.from /\ (Splitting' => c.from < Front')
      BY <1>3, <1>4, <1>7, <3>1
    <3> QED
      BY <1>1, <1>6, <1>8, <1>9, <2>1, <3>3, <3>4, PieceAdded
  <2>2. CASE ~(c.len > 0)
    <3>1. c.from \in Nat /\ c.to \in Nat /\ c.to < c.from
      BY <1>3, <1>7, <2>2 DEF Length
    <3>2. \A x \in T : ~Within(x, c)
      BY <3>1 DEF Within
    <3>3. Splitting' => Front <= Front'
      BY <1>3, <1>4
    <3> QED
      BY <1>1, <1>8, <1>9, <2>2, <3>2, <3>3, NothingAdded
  <2> QED
    BY <2>1, <2>2
<1>11. PhaseInv'
    BY <1>1, <1>5 DEF PhaseInv, LoopStep, Splitting
<1>12. GapInv(T)'
    BY <1>1, <1>4, <1>7 DEF GapInv
<1> QED
    BY <1>1, <1>10, <1>11, <1>12, LoopLeaves DEF TextInv

(* A section is packed behind the buffer: nothing lies between them.         *)
LEMMA PackKeeps ==
    ASSUME NEW T, NEW P, T \subseteq Nat, ChunkInv, ChunkInv', TextInv(T, P), Pack
    PROVE  TextInv(T, P)'
<1> DEFINE c == buffer'
           G == Append(chunks, c)
<1>1. /\ LoopStep /\ para = 0 /\ buffer.len > 0
      /\ para' = 0 /\ at' = at + 1 /\ offset' = offset /\ chunks' = chunks
      /\ c = [from |-> buffer.from, to |-> Section.to, page |-> PageOfBoth(Section),
              len  |-> buffer.len + Length(Section) + 2]
    BY DEF Pack, LoopStep
<1>2. /\ at \in 1 .. Len(batch) /\ Len(batch) \in Nat
      /\ IsText(Section) /\ SectionOf(T, P, Section)
    BY <1>1, SectionTyped DEF LoopStep, TextInv, LaidOut, Section
<1>3. /\ Section.from \in Nat /\ Section.to \in Nat /\ Section.from <= Section.to + 1
      /\ Front = Section.from
    BY <1>1, <1>2 DEF Front, IsText
<1>4. /\ Splitting' => Front' \in Nat /\ Section.to < Front'
      /\ Splitting' => \A x \in T : ~(Section.to < x /\ x < Front')
      /\ \A k \in 1 .. Len(batch), x \in T :
                Within(x, batch[k]) /\ Passed(k, x)' => k < at \/ k = at
    BY <1>1, SectionPassed DEF TextInv
<1>5. offset = 0
    BY <1>1 DEF ChunkInv, SliceOK, PlaceOK
<1>6. /\ chunks \in Seq(Bounded(MaxChars)) /\ buffer \in Bounded(MaxChars) /\ c \in Bounded(MaxChars)
      /\ Len(chunks) \in Nat
      /\ \A k \in 1 .. Len(chunks) : chunks[k].from \in Nat
  <2>1. /\ chunks \in Seq(Bounded(MaxChars)) /\ buffer \in Bounded(MaxChars)
        /\ c \in Bounded(MaxChars)
    BY DEF ChunkInv, ResultOK
  <2>2. Len(chunks) \in Nat /\ \A k \in 1 .. Len(chunks) : chunks[k] \in Bounded(MaxChars)
    BY <2>1
  <2>3. \A k \in 1 .. Len(chunks) : chunks[k].from \in Nat
    BY <2>2 DEF Bounded
  <2> QED
    BY <2>1, <2>2, <2>3
<1>7. Flushed = Append(chunks, buffer)
    BY <1>1 DEF Flushed
<1>8. c.from = buffer.from /\ c.to = Section.to /\ c.page = PageOfBoth(Section) /\ c.len > 0
    BY <1>1, <1>3, <1>6 DEF Length, Bounded
<1>9. Flushed' = G
    BY <1>1, <1>8 DEF Flushed
<1>10. /\ Piece(T, P, buffer) /\ buffer.from < Front
       /\ \A k \in 1 .. Len(chunks) :
             Piece(T, P, chunks[k]) /\ chunks[k].from < Front /\ chunks[k].from < buffer.from
       /\ Rising(chunks)
  <2> DEFINE F == Flushed
  <2>1. /\ Rising(F)
        /\ \A k \in 1 .. Len(F) : Piece(T, P, F[k]) /\ F[k].from < Front
    BY <1>1 DEF TextInv, PieceInv, LoopStep
  <2>2. /\ Len(F) = Len(chunks) + 1 /\ F[Len(chunks) + 1] = buffer
        /\ \A k \in 1 .. Len(chunks) : F[k] = chunks[k]
    BY <1>6, <1>7
  <2> HIDE DEF F
  <2>3. Len(chunks) + 1 \in 1 .. Len(F) /\ \A k \in 1 .. Len(chunks) : k \in 1 .. Len(F) /\ k < Len(chunks) + 1
    BY <1>6, <2>2
  <2> QED
    BY <2>1, <2>2, <2>3 DEF Rising
<1>11. /\ Len(G) = Len(chunks) + 1 /\ G[Len(chunks) + 1] = c
       /\ \A k \in 1 .. Len(chunks) : G[k] = chunks[k]
       /\ Rising(G)
  <2>1. \A k \in 1 .. Len(chunks) : chunks[k].from < c.from
    BY <1>8, <1>10
  <2>2. Rising(G)
    BY <1>6, <1>10, <2>1, RisingAppend
  <2> QED
    BY <1>6, <2>2
<1>12. \A x : /\ Caught(Flushed, x) <=> Caught(chunks, x) \/ Within(x, buffer)
              /\ Caught(G, x) <=> Caught(chunks, x) \/ Within(x, c)
    BY <1>6, <1>7, CaughtAppend
<1>13. buffer.from \in Nat /\ buffer.to \in Nat /\ c.from <= c.to
    BY <1>3, <1>6, <1>8, <1>10 DEF Bounded
<1> HIDE DEF c, G
<1>14. Honest(T, P, c)
  <2> SUFFICES ASSUME c.page # NoPage, NEW x \in T, Within(x, c) PROVE P[x] = c.page
    BY DEF Honest
  <2>1. c.page = buffer.page /\ c.page = Section.page
    BY <1>8 DEF PageOfBoth
  <2>2. CASE x <= buffer.to
    BY <1>8, <1>10, <2>1, <2>2 DEF Within, Piece, Honest
  <2>3. CASE Section.from <= x
    BY <1>2, <1>8, <2>1, <2>3 DEF Within, SectionOf
  <2>4. ~(buffer.to < x /\ x < Section.from)
    <3>1. para \notin 1 .. Len(Paragraphs(Section))
      BY <1>1
    <3> QED
      BY <1>1, <1>3, <3>1 DEF TextInv, GapInv, LoopStep
  <2> QED
    <3>1. x \in Nat /\ buffer.to \in Nat /\ Section.from \in Nat
      BY <1>3, <1>13
    <3>2. x <= buffer.to \/ Section.from <= x
      BY <2>4, <3>1
    <3> QED
      BY <2>2, <2>3, <3>2
<1>15. PieceInv(T, P)'
  <2>1. ASSUME NEW k \in 1 .. Len(G)
        PROVE  Piece(T, P, G[k]) /\ (Splitting' => G[k].from < Front')
    <3>1. CASE k \in 1 .. Len(chunks)
      BY <1>3, <1>4, <1>6, <1>10, <1>11, <3>1
    <3>2. CASE k = Len(chunks) + 1
      <4>1. Piece(T, P, c)
        BY <1>8, <1>10, <1>13, <1>14 DEF Piece
      <4> QED
        BY <1>3, <1>4, <1>8, <1>10, <1>11, <1>13, <3>2, <4>1
    <3> QED
      BY <1>6, <1>11, <3>1, <3>2
  <2> QED
    BY <1>1, <1>9, <1>11, <2>1 DEF PieceInv, Rising, Piece, Honest, LoopStep
<1>16. CoverInv(T)'
  <2>1. ASSUME NEW k \in 1 .. Len(batch), NEW x \in T, Within(x, batch[k]), Passed(k, x)'
        PROVE  Caught(G, x)
    <3>1. CASE k < at
      <4>1. Caught(chunks, x) \/ Within(x, buffer)
        BY <1>1, <1>12, <2>1, <3>1 DEF TextInv, CoverInv, LoopStep, Splitting, Passed
      <4>2. IsText(batch[k]) /\ batch[k].to < Section.from
        BY <1>2, <3>1 DEF ChunkInv, BatchOK, IsSection, TextInv, LaidOut, Section
      <4>3. x \in Nat /\ x <= Section.to
        BY <1>3, <2>1, <4>2 DEF IsText, Within
      <4>4. Within(x, buffer) => Within(x, c)
        BY <1>8, <4>3 DEF Within
      <4> QED
        BY <1>12, <4>1, <4>4
    <3>2. CASE k = at
      <4>1. Section.from <= x /\ x <= Section.to /\ x \in Nat
        BY <2>1, <3>2 DEF Within, Section
      <4>2. buffer.from <= Section.from
        BY <1>3, <1>10, <1>13
      <4>3. Within(x, c)
        BY <1>3, <1>8, <1>13, <4>1, <4>2 DEF Within
      <4> QED
        BY <1>12, <4>3
    <3> QED
      BY <1>4, <2>1, <3>1, <3>2
  <2> QED
    BY <1>1, <1>9, <2>1 DEF CoverInv, LoopStep, Caught
<1>17. PhaseInv'
    BY <1>1, <1>5 DEF PhaseInv, LoopStep, Splitting
<1>18. GapInv(T)'
    BY <1>4, <1>8 DEF GapInv, c
<1> QED
    BY <1>1, <1>15, <1>16, <1>17, <1>18, LoopLeaves DEF TextInv

(* Behind the last section all characters have been passed.                  *)
LEMMA FinishKeeps ==
    ASSUME NEW T, NEW P, T \subseteq Nat, ChunkInv, ChunkInv', TextInv(T, P), Finish
    PROVE  TextInv(T, P)'
<1>1. /\ phase = "splitting" /\ phase' = "overlapping" /\ at > Len(batch)
      /\ chunks' = Flushed /\ buffer' = NoBuffer
      /\ UNCHANGED <<batch, at, para, offset, output>>
    BY DEF Finish
<1>2. at \in Nat /\ Len(batch) \in Nat
    BY DEF ChunkInv, PlaceOK, BatchOK
<1>3. Flushed' = Flushed /\ ~Splitting /\ ~Splitting'
    BY <1>1, <1>2 DEF Flushed, NoBuffer, Splitting
<1>4. LaidOut(T, P)'
    BY <1>1 DEF TextInv, LaidOut, SectionOf
<1>5. PhaseInv' /\ GapInv(T)' /\ DoneInv(T)'
    BY <1>1, <1>3 DEF TextInv, PhaseInv, GapInv, DoneInv, NoBuffer
<1>6. PieceInv(T, P)'
    BY <1>1, <1>3 DEF TextInv, PieceInv, Rising, Piece, Honest
<1>7. CoverInv(T)'
  <2>1. \A k \in 1 .. Len(batch), x \in T : Within(x, batch[k]) => Caught(Flushed, x)
    BY <1>1, <1>2 DEF TextInv, CoverInv, Passed
  <2> QED
    BY <1>1, <1>3, <2>1 DEF CoverInv, Caught
<1>8. OutputInv(T, P)'
    BY <1>1 DEF TextInv, OutputInv, Rising, Honest
<1> QED
    BY <1>4, <1>5, <1>6, <1>7, <1>8 DEF TextInv

(* What is returned is what was there, and the chunks with their tails.      *)
LEMMA OverlapAppends ==
    ASSUME NEW T, NEW P, ChunkInv, TextInv(T, P), ApplyOverlap
    PROVE  /\ Len(output) \in Nat /\ Len(Flushed) \in Nat
           /\ Len(output') = Len(output) + Len(Flushed)
           /\ \A k \in 1 .. Len(output) : output'[k] = output[k]
           /\ \A k \in 1 .. Len(Flushed) :
                /\ output'[Len(output) + k].from = Flushed[k].from
                /\ output'[Len(output) + k].to   = Flushed[k].to
                /\ output'[Len(output) + k].page = Flushed[k].page
<1>1. /\ output \in Seq(Bounded(MaxChars + MaxTail)) /\ chunks \in Seq(Bounded(MaxChars))
      /\ Overlapped \in Seq(Bounded(MaxChars + MaxTail))
    BY OverlappedBounded DEF ChunkInv, ResultOK
<1>2. Flushed = chunks
    BY DEF ApplyOverlap, TextInv, PhaseInv, Flushed, ChunkInv, ResultOK, Bounded
<1>3. /\ Len(Overlapped) = Len(chunks)
      /\ \A k \in 1 .. Len(chunks) : /\ Overlapped[k].from = chunks[k].from
                                     /\ Overlapped[k].to = chunks[k].to
                                     /\ Overlapped[k].page = chunks[k].page
  <2>1. /\ Len(Overlapped) = Len(chunks)
        /\ \A k \in 1 .. Len(chunks) :
              Overlapped[k] = [chunks[k] EXCEPT !.len = chunks[k].len + TailLength(k)]
    BY <1>1 DEF Overlapped
  <2>2. \A k \in 1 .. Len(chunks) :
            chunks[k] \in [from : Nat, to : Nat, page : Pages \cup {NoPage}, len : Nat]
    BY <1>1 DEF Bounded
  <2> QED
    BY <2>1, <2>2
<1>4. output' = output \o Overlapped
    BY DEF ApplyOverlap
<1>5. /\ Len(output') = Len(output) + Len(Overlapped)
      /\ \A k \in 1 .. Len(output) : output'[k] = output[k]
      /\ \A k \in 1 .. Len(Overlapped) : output'[Len(output) + k] = Overlapped[k]
    BY <1>1, <1>4
<1>6. Len(output) \in Nat /\ Len(chunks) \in Nat
    BY <1>1
<1> QED
    BY <1>2, <1>3, <1>5, <1>6

(* All chunks are returned, behind those returned before.                    *)
LEMMA ApplyOverlapKeeps ==
    ASSUME NEW T, NEW P, T \subseteq Nat, ChunkInv, ChunkInv', TextInv(T, P), ApplyOverlap
    PROVE  TextInv(T, P)'
<1> DEFINE F == Flushed
           n == Len(output)
<1>1. /\ phase = "overlapping" /\ phase' = "done" /\ at > Len(batch)
      /\ UNCHANGED <<batch, at, para, offset, buffer, chunks>>
    BY DEF ApplyOverlap, TextInv, PhaseInv
<1>2. Flushed' = F
    BY <1>1 DEF Flushed
<1>3. LaidOut(T, P)'
    BY <1>1 DEF TextInv, LaidOut, SectionOf
<1>4. PhaseInv' /\ GapInv(T)' /\ CoverInv(T)'
  <2>1. ~Splitting /\ ~Splitting'
    BY <1>1 DEF Splitting
  <2> QED
    BY <1>1, <2>1 DEF TextInv, PhaseInv, GapInv, CoverInv
<1>5. PieceInv(T, P)'
    BY <1>1, <1>2 DEF TextInv, PieceInv, Rising, Piece, Honest, Splitting
<1>6. /\ n \in Nat /\ Len(F) \in Nat
      /\ Len(output') = n + Len(F)
      /\ \A k \in 1 .. n : output'[k] = output[k]
      /\ \A k \in 1 .. Len(F) :
                /\ output'[n + k].from = F[k].from
                /\ output'[n + k].to   = F[k].to
                /\ output'[n + k].page = F[k].page
    BY OverlapAppends
<1>7. /\ Rising(F) /\ \A k \in 1 .. Len(F) : Piece(T, P, F[k])
      /\ \A k \in 1 .. Len(batch), x \in T : Within(x, batch[k]) => Caught(F, x)
  <2>1. at \in Nat /\ Len(batch) \in Nat
    BY DEF ChunkInv, PlaceOK, BatchOK
  <2> QED
    BY <1>1, <2>1 DEF TextInv, PieceInv, CoverInv, Passed
<1>8. /\ Rising(output)
      /\ \A k \in 1 .. n : /\ output[k].from <= output[k].to
                           /\ Honest(T, P, output[k])
                           /\ \A l \in 1 .. Len(batch) : output[k].from < batch[l].from
    BY <1>1 DEF TextInv, OutputInv
<1>9. /\ \A k \in 1 .. n : output[k].from \in Nat
      /\ \A k \in 1 .. Len(F) : F[k].from \in Nat
      /\ \A k \in 1 .. Len(batch) : batch[k].from \in Nat
  <2>1. /\ \A k \in 1 .. n : output[k] \in Bounded(MaxChars + MaxTail)
        /\ \A k \in 1 .. Len(F) : F[k] \in Bounded(MaxChars)
    BY FlushedBounded DEF ChunkInv, ResultOK
  <2>2. \A k \in 1 .. Len(batch) : IsText(batch[k])
    BY DEF ChunkInv, BatchOK, IsSection
  <2> QED
    BY <2>1, <2>2 DEF Bounded, IsText
<1> HIDE DEF F, n
<1>10. ASSUME NEW k \in 1 .. Len(output')
       PROVE  k \in 1 .. n \/ (k - n \in 1 .. Len(F) /\ k = n + (k - n))
    BY <1>6
<1>11. Rising(output')
  <2> SUFFICES ASSUME NEW k \in 1 .. Len(output'), NEW l \in 1 .. Len(output'), k < l
               PROVE  output'[k].from < output'[l].from
    BY Zenon DEF Rising
  <2>1. CASE l \in 1 .. n
    <3>1. k \in 1 .. n
      BY <1>6, <2>1
    <3> QED
      BY <1>6, <1>8, <2>1, <3>1 DEF Rising, n
  <2>2. CASE k \in 1 .. n /\ l \notin 1 .. n
    <3>1. PICK m \in 1 .. Len(batch) : Within(F[l - n].from, batch[m])
      BY <1>7, <1>10, <2>2 DEF Piece
    <3>2. output[k].from < batch[m].from /\ batch[m].from <= F[l - n].from
      BY <1>8, <2>2, <3>1 DEF Within
    <3>3. output[k].from < F[l - n].from
      BY <1>9, <1>10, <2>2, <3>2
    <3>4. output'[k].from = output[k].from /\ output'[l].from = F[l - n].from
      BY <1>6, <1>10, <2>2
    <3> QED
      BY <3>3, <3>4
  <2>3. CASE k \notin 1 .. n /\ l \notin 1 .. n
    <3>1. k - n \in 1 .. Len(F) /\ l - n \in 1 .. Len(F) /\ k - n < l - n
      BY <1>6, <1>10, <2>3
    <3>2. F[k - n].from < F[l - n].from
      BY <1>7, <3>1 DEF Rising
    <3>3. output'[k].from = F[k - n].from /\ output'[l].from = F[l - n].from
      BY <1>6, <1>10, <2>3
    <3> QED
      BY <3>2, <3>3
  <2> QED
    BY <2>1, <2>2, <2>3
<1>12. ASSUME NEW k \in 1 .. Len(output')
       PROVE  output'[k].from <= output'[k].to /\ Honest(T, P, output'[k])
  <2>1. CASE k \in 1 .. n
    BY <1>6, <1>8, <2>1
  <2>2. CASE k \notin 1 .. n
    <3>1. /\ k - n \in 1 .. Len(F) /\ output'[k].from = F[k - n].from
          /\ output'[k].to = F[k - n].to /\ output'[k].page = F[k - n].page
      BY <1>6, <1>10, <2>2
    <3> QED
      BY <1>7, <3>1 DEF Piece, Honest, Within
  <2> QED
    BY <2>1, <2>2
<1>13. OutputInv(T, P)'
    BY <1>1, <1>11, <1>12 DEF OutputInv, Rising, Honest
<1>14. DoneInv(T)'
  <2>1. ASSUME NEW k \in 1 .. Len(batch), NEW x \in T, Within(x, batch[k])
        PROVE  Caught(output', x)
    <3>1. PICK i \in 1 .. Len(F) : Within(x, F[i])
      BY <1>7, <2>1 DEF Caught
    <3>2. n + i \in 1 .. Len(output') /\ Within(x, output'[n + i])
      BY <1>6, <3>1 DEF Within
    <3> QED
      BY <3>2 DEF Caught
  <2> QED
    BY <1>1, <2>1 DEF DoneInv, Caught
<1> QED
    BY <1>3, <1>4, <1>5, <1>13, <1>14 DEF TextInv

(* Nothing happens to the chunking.                                          *)
LEMMA StutterKeeps ==
    ASSUME NEW T, NEW P, TextInv(T, P), UNCHANGED chunkVars
    PROVE  TextInv(T, P)'
<1>1. UNCHANGED <<batch, at, para, offset, buffer, chunks, phase, output>>
    BY DEF chunkVars
<1>2. Flushed' = Flushed /\ (Splitting' <=> Splitting) /\ Front' = Front /\ Section' = Section
    BY <1>1 DEF Flushed, Splitting, Front, Section, Paragraph, Paragraphs
<1>3. LaidOut(T, P)' /\ PhaseInv' /\ DoneInv(T)' /\ OutputInv(T, P)'
    BY <1>1, <1>2 DEF TextInv, LaidOut, SectionOf, PhaseInv, DoneInv, OutputInv
<1>4. PieceInv(T, P)'
    BY <1>1, <1>2 DEF TextInv, PieceInv, Rising, Piece, Honest
<1>5. GapInv(T)'
    BY <1>1, <1>2 DEF TextInv, GapInv, Paragraphs
<1>6. CoverInv(T)'
    BY <1>1, <1>2 DEF TextInv, CoverInv, Passed, Caught
<1> QED
    BY <1>3, <1>4, <1>5, <1>6 DEF TextInv

(* No step of the chunking loses a character, whatever the text is.          *)
LEMMA TextStep ==
    ASSUME NEW T, NEW P, T \subseteq Nat, ChunkInv, TextInv(T, P), [ChunkNext]_chunkVars
    PROVE  TextInv(T, P)'
<1>1. ChunkInv'
    BY ChunkInvStep
<1> QED
    BY <1>1, OpenLargeKeeps, TakeParagraphKeeps, TakeSliceKeeps, CloseLargeKeeps, PackKeeps,
       ReplaceKeeps, FinishKeeps, ApplyOverlapKeeps, StutterKeeps DEF ChunkNext

(* Until the last step nothing is returned, and that step adds chunks that   *)
(* start in the sections.                                                    *)
LEMMA OutputStep ==
    ASSUME NEW T, NEW P, ChunkInv, TextInv(T, P), [ChunkNext]_chunkVars
    PROVE  /\ batch' = batch
           /\ Len(output) \in Nat /\ Len(output') \in Nat /\ Len(output) <= Len(output')
           /\ \A k \in 1 .. Len(output) : output'[k] = output[k]
           /\ \A k \in 1 .. Len(output') : k > Len(output) =>
                \E l \in 1 .. Len(batch) : Within(output'[k].from, batch[l])
<1>0. Len(output) \in Nat
    BY DEF ChunkInv, ResultOK
<1>1. CASE ApplyOverlap
  <2>1. /\ Len(Flushed) \in Nat
        /\ Len(output') = Len(output) + Len(Flushed)
        /\ \A k \in 1 .. Len(output) : output'[k] = output[k]
        /\ \A k \in 1 .. Len(Flushed) : output'[Len(output) + k].from = Flushed[k].from
    BY <1>1, OverlapAppends
  <2>2. ASSUME NEW k \in 1 .. Len(output'), k > Len(output)
        PROVE  \E l \in 1 .. Len(batch) : Within(output'[k].from, batch[l])
    <3>1. k - Len(output) \in 1 .. Len(Flushed) /\ k = Len(output) + (k - Len(output))
      BY <1>0, <2>1, <2>2
    <3>2. output'[k].from = Flushed[k - Len(output)].from
      BY <2>1, <3>1
    <3> QED
      BY <3>1, <3>2 DEF TextInv, PieceInv, Piece
  <2> QED
    BY <1>0, <1>1, <2>1, <2>2 DEF ApplyOverlap
<1>2. CASE ~ApplyOverlap
  <2>1. batch' = batch /\ output' = output
    BY <1>2 DEF ChunkNext, chunkVars, OpenLarge, TakeParagraph, TakeSlice, CloseLarge,
                Pack, Replace, Finish
  <2> QED
    BY <1>0, <2>1
<1> QED
    BY <1>1, <1>2

-----------------------------------------------------------------------------
(* The characters of a document *)

Characters == UNION {Start(i) .. End(i) : i \in Kept}

PageAt == [x \in Characters |-> Lines[Min({i \in Kept : x \in Start(i) .. End(i)})].page]

ChunkPhase == phase \in {"splitting", "overlapping"}

(* The lines that have been handed to the chunking.                          *)
HandedOver(i) == IF parser = "ocr" THEN Lines[i].page \notin pages ELSE phase # "idle"

IdleInv ==
    /\ phase \in {"idle", "splitting", "overlapping", "done"}
    /\ parser = "none" => phase = "idle"
    /\ pages \subseteq PagesOf
    /\ phase = "idle" => /\ batch = <<>> /\ chunks = <<>> /\ output = <<>>
                         /\ buffer = NoBuffer /\ at = 1 /\ para = 0 /\ offset = 0

LinesInv ==
    \A i \in Kept :
        IF HandedOver(i)
        THEN \A x \in Start(i) .. End(i) :
                \/ Caught(output, x)
                \/ ChunkPhase /\ \E k \in 1 .. Len(batch) : Within(x, batch[k])
        ELSE /\ \A k \in 1 .. Len(batch)  : batch[k].to < Start(i)
             /\ \A k \in 1 .. Len(output) : output[k].from < Start(i)

ParsingInv ==
    /\ file \in Files
    /\ IdleInv
    /\ ChunkInv
    /\ TextInv(Characters, PageAt)
    /\ LinesInv

(* What the parsers keep, and where, depends on the file and the parser.     *)
LEMMA SameFile ==
    ASSUME UNCHANGED <<file, parser>>
    PROVE  /\ Lines' = Lines /\ Kept' = Kept
           /\ \A i : Start(i)' = Start(i) /\ End(i)' = End(i)
           /\ Characters' = Characters /\ PageAt' = PageAt
<1>1. Lines' = Lines
    BY DEF Lines
<1>2. \A I : TextLength(I)' = TextLength(I)
    BY DEF TextLength, Lines, MapThenSumSet, MapThenFoldSet
<1>3. \A p : LayerOf(p)' = LayerOf(p) /\ ScanOf(p)' = ScanOf(p)
    BY <1>1 DEF LayerOf, ScanOf, Trimmed, All, Blank, Layer, Kind
<1>4. \A p : UsesOcr(p)' = UsesOcr(p)
  <2>1. \A p : Trimmed(LayerOf(p))' = Trimmed(LayerOf(p))
    BY <1>1 DEF LayerOf, Trimmed, All, Blank, Layer, Kind
  <2>2. \A p : TextLength(Trimmed(LayerOf(p)))' = TextLength(Trimmed(LayerOf(p)))
    BY <1>1 DEF LayerOf, Trimmed, All, Blank, Layer, Kind, TextLength, Lines, MapThenSumSet, MapThenFoldSet
  <2>3. \A p : TextLength(ScanOf(p))' = TextLength(ScanOf(p))
    BY <1>1 DEF ScanOf, Trimmed, All, Blank, Layer, Kind, TextLength, Lines, MapThenSumSet, MapThenFoldSet
  <2> QED
    BY <2>2, <2>3 DEF UsesOcr
<1>5. \A p : PdfLines(p)' = PdfLines(p)
    BY <1>3, <1>4 DEF PdfLines
<1>6. Kept' = Kept
  <2>1. PagesOf' = PagesOf
    BY <1>1 DEF PagesOf, All
  <2>2. /\ (UNION {PdfLines(p) : p \in PagesOf})' = UNION {PdfLines(p) : p \in PagesOf}
        /\ (UNION {ScanOf(p) : p \in PagesOf})' = UNION {ScanOf(p) : p \in PagesOf}
    BY <1>3, <1>5, <2>1
  <2>3. /\ Trimmed(All)' = Trimmed(All)
        /\ {i \in All : ~Blank(i) /\ Layer(i)}' = {i \in All : ~Blank(i) /\ Layer(i)}
        /\ {i \in All : ~Blank(i)}' = {i \in All : ~Blank(i)}
    BY <1>1 DEF Trimmed, All, Blank, Layer, Kind
  <2> QED
    BY <2>2, <2>3 DEF Kept, IsMarkdown
<1>7. \A i : Start(i)' = Start(i)
    BY <1>6 DEF Start, Lines, MapThenSumSet, MapThenFoldSet
<1>8. \A i : End(i)' = End(i)
    BY <1>1, <1>7 DEF End
<1>9. Characters' = Characters
    BY <1>6, <1>7, <1>8 DEF Characters
<1>10. PageAt' = PageAt
  <2>1. \A x : {i \in Kept : x \in Start(i) .. End(i)}' = {i \in Kept : x \in Start(i) .. End(i)}
    BY <1>6, <1>7, <1>8
  <2> QED
    BY <1>1, <1>9, <2>1 DEF PageAt
<1> QED
    BY <1>1, <1>6, <1>7, <1>8, <1>9, <1>10

-----------------------------------------------------------------------------
(* The lengths of lines, summed up *)

(* Every set of numbers has a least one.                                     *)
LEMMA LeastNumber ==
    ASSUME NEW D, D \subseteq Nat, D # {}
    PROVE  \E m \in D : \A d \in D : m <= d
<1>1. PICK m \in D : \A d \in D : ~ (<<d, m>> \in OpToRel(<, Nat))
    BY NatLessThanWellFounded, WFMin
<1>2. \A d \in D : ~ (d < m)
    BY <1>1 DEF OpToRel
<1> QED
    BY <1>2

(* It is the one that Min chooses.                                           *)
LEMMA MinIsLeast ==
    ASSUME NEW D, D \subseteq Nat, D # {}
    PROVE  Min(D) \in D /\ \A d \in D : Min(D) <= d
BY LeastNumber DEF Min

(* The lines of S with the newlines that follow them.                        *)
Extent(L, S) == MapThenSumSet(LAMBDA j : L[j].len + 1, S)

AnyOf(s) == CHOOSE x \in s : TRUE

SumOf(f, L, s) == IF s = {} THEN 0 ELSE (L[AnyOf(s)].len + 1) + f[s \ {AnyOf(s)}]

SumsUp(f, L, S) == f = [s \in SUBSET S |-> SumOf(f, L, s)]

(* The sum over S is the value at S of a function on its subsets.            *)
LEMMA ExtentBySums ==
    ASSUME NEW L, NEW S
    PROVE  Extent(L, S) = (CHOOSE f : SumsUp(f, L, S))[S]
BY Zenon DEF Extent, MapThenSumSet, MapThenFoldSet, SumsUp, SumOf, AnyOf

Measured(L, S) == IsFiniteSet(S) /\ \A j \in S : L[j].len \in Nat

(* Taking an element out of a set.                                           *)
LEMMA OneLess ==
    ASSUME NEW S, IsFiniteSet(S), NEW s \in SUBSET S, NEW z \in s
    PROVE  /\ IsFiniteSet(s) /\ Cardinality(s) \in Nat \ {0}
           /\ s \ {z} \in SUBSET S
           /\ Cardinality(s \ {z}) = Cardinality(s) - 1
           /\ AnyOf(s) \in s
<1>1. IsFiniteSet(s)
    BY FS_Subset
<1>2. Cardinality(s) \in Nat /\ Cardinality(s \ {z}) = Cardinality(s) - 1 /\ Cardinality(s \ {z}) \in Nat
    BY <1>1, FS_RemoveElement, FS_CardinalityType
<1> QED
    BY <1>1, <1>2 DEF AnyOf

(* There is such a function.                                                 *)
LEMMA SumsExist ==
    ASSUME NEW L, NEW S, Measured(L, S)
    PROVE  \E f \in [SUBSET S -> Nat] : SumsUp(f, L, S)
<1> DEFINE Good(f, n) == \A s \in SUBSET S : Cardinality(s) <= n => f[s] = SumOf(f, L, s)
           Missing == {n \in Nat : ~\E f \in [SUBSET S -> Nat] : Good(f, n)}
<1>0. \A s \in SUBSET S : IsFiniteSet(s) /\ Cardinality(s) \in Nat /\ Cardinality(s) <= Cardinality(S)
    BY FS_Subset, FS_CardinalityType DEF Measured
<1>1. Missing = {}
  <2> SUFFICES ASSUME Missing # {} PROVE FALSE
      OBVIOUS
  <2>1. PICK n \in Missing : \A d \in Missing : n <= d
      BY LeastNumber
  <2>2. n \in Nat /\ ~\E f \in [SUBSET S -> Nat] : Good(f, n)
      OBVIOUS
  <2>3. CASE n = 0
    <3> DEFINE g == [s \in SUBSET S |-> 0]
    <3>1. g \in [SUBSET S -> Nat]
      OBVIOUS
    <3>2. Good(g, n)
      <4> SUFFICES ASSUME NEW s \in SUBSET S, Cardinality(s) <= n PROVE g[s] = SumOf(g, L, s)
          OBVIOUS
      <4>1. s = {}
          BY <1>0, <2>3, FS_EmptySet
      <4> QED
          BY <4>1 DEF SumOf
    <3> QED
      BY <2>2, <3>1, <3>2
  <2>4. CASE n # 0
    <3>1. n - 1 \in Nat /\ n - 1 \notin Missing
      <4> HIDE DEF Missing
      <4> QED
        BY <2>1, <2>2, <2>4
    <3>2. PICK f \in [SUBSET S -> Nat] : Good(f, n - 1)
      BY <3>1
    <3> DEFINE g == [s \in SUBSET S |-> IF Cardinality(s) <= n - 1 THEN f[s] ELSE SumOf(f, L, s)]
    <3>3. ASSUME NEW s \in SUBSET S
          PROVE  SumOf(f, L, s) \in Nat
      <4>1. CASE s = {}
        BY <4>1 DEF SumOf
      <4>2. CASE s # {}
        <5>1. AnyOf(s) \in S /\ s \ {AnyOf(s)} \in SUBSET S
          BY <4>2, OneLess DEF Measured
        <5>2. L[AnyOf(s)].len \in Nat /\ f[s \ {AnyOf(s)}] \in Nat
          BY <5>1 DEF Measured
        <5> QED
          BY <4>2, <5>2 DEF SumOf
      <4> QED
        BY <4>1, <4>2
    <3>4. g \in [SUBSET S -> Nat]
      BY <3>3
    <3>5. ASSUME NEW s \in SUBSET S, Cardinality(s) <= n PROVE g[s] = SumOf(g, L, s)
      <4>1. g[s] = SumOf(f, L, s)
        BY <3>2
      <4>2. CASE s = {}
        BY <4>1, <4>2 DEF SumOf
      <4>3. CASE s # {}
        <5>1. /\ AnyOf(s) \in s /\ s \ {AnyOf(s)} \in SUBSET S
              /\ Cardinality(s \ {AnyOf(s)}) = Cardinality(s) - 1
          BY <4>3, OneLess DEF Measured
        <5>2. Cardinality(s \ {AnyOf(s)}) <= n - 1
          BY <1>0, <2>2, <3>5, <5>1
        <5>3. g[s \ {AnyOf(s)}] = f[s \ {AnyOf(s)}]
          BY <5>1, <5>2
        <5> HIDE DEF g
        <5> QED
          BY <4>1, <4>3, <5>3 DEF SumOf
      <4> QED
        BY <4>2, <4>3
    <3> HIDE DEF g
    <3> QED
      BY <2>2, <3>4, <3>5
  <2> QED
    BY <2>3, <2>4
<1>2. Cardinality(S) \in Nat
    BY FS_CardinalityType DEF Measured
<1>3. PICK f \in [SUBSET S -> Nat] : Good(f, Cardinality(S))
    BY <1>1, <1>2
<1>4. \A s \in SUBSET S : f[s] = SumOf(f, L, s)
    BY <1>0, <1>3
<1>5. f = [s \in SUBSET S |-> f[s]]
    OBVIOUS
<1>6. SumsUp(f, L, S)
    BY <1>4, <1>5, Zenon DEF SumsUp
<1> QED
    BY <1>6

(* There is one sum of a set, whatever larger set it is a part of.           *)
LEMMA SumsAgree ==
    ASSUME NEW L, NEW S, NEW R, NEW f, NEW g, IsFiniteSet(S), IsFiniteSet(R),
           SumsUp(f, L, S), SumsUp(g, L, R),
           NEW s \in SUBSET S, s \in SUBSET R
    PROVE  f[s] = g[s]
<1> DEFINE Bad(n) == \E t : t \in SUBSET S /\ t \in SUBSET R /\ Cardinality(t) = n /\ f[t] # g[t]
           Missing == {n \in Nat : Bad(n)}
<1>1. /\ \A t \in SUBSET S : f[t] = SumOf(f, L, t)
      /\ \A t \in SUBSET R : g[t] = SumOf(g, L, t)
    BY DEF SumsUp
<1>2. Missing = {}
  <2> SUFFICES ASSUME Missing # {} PROVE FALSE
      OBVIOUS
  <2>1. PICK n \in Missing : \A d \in Missing : n <= d
      BY LeastNumber
  <2>2. PICK t : t \in SUBSET S /\ t \in SUBSET R /\ Cardinality(t) = n /\ f[t] # g[t]
      OBVIOUS
  <2>3. t # {}
      BY <1>1, <2>2 DEF SumOf
  <2>4. /\ AnyOf(t) \in t /\ t \ {AnyOf(t)} \in SUBSET S
        /\ Cardinality(t) \in Nat \ {0}
        /\ Cardinality(t \ {AnyOf(t)}) = Cardinality(t) - 1
      BY <2>2, <2>3, OneLess
  <2>5. t \ {AnyOf(t)} \in SUBSET R
      BY <2>2
  <2>6. n - 1 \in Nat /\ n - 1 \notin Missing
    <3> HIDE DEF Missing
    <3> QED
      BY <2>1, <2>2, <2>4
  <2>7. f[t \ {AnyOf(t)}] = g[t \ {AnyOf(t)}]
      BY <2>2, <2>4, <2>5, <2>6
  <2> QED
      BY <1>1, <2>2, <2>3, <2>7 DEF SumOf
<1>3. IsFiniteSet(s) /\ Cardinality(s) \in Nat
    BY FS_Subset, FS_CardinalityType
<1> QED
    BY <1>2, <1>3

(* The order in which elements are summed up does not matter.                *)
SumsByAny(f, L, S) ==
    \A s \in SUBSET S : \A z \in s : f[s] = (L[z].len + 1) + f[s \ {z}]

(* It may add the elements in any order.                                     *)
LEMMA AnyOrder ==
    ASSUME NEW L, NEW S, Measured(L, S), NEW f \in [SUBSET S -> Nat], SumsUp(f, L, S)
    PROVE  SumsByAny(f, L, S)
<1> DEFINE AddsUp(t, y) == f[t] = (L[y].len + 1) + f[t \ {y}]
           Bad(n) == \E t \in SUBSET S : Cardinality(t) = n /\ \E y \in t : ~AddsUp(t, y)
           Missing == {n \in Nat : Bad(n)}
<1>0. IsFiniteSet(S) /\ \A j \in S : L[j].len \in Nat
    BY DEF Measured
<1>1. \A t \in SUBSET S : f[t] \in Nat /\ f[t] = SumOf(f, L, t)
    BY DEF SumsUp
<1>2. Missing = {}
  <2> SUFFICES ASSUME Missing # {} PROVE FALSE
      OBVIOUS
  <2>1. PICK n \in Missing : \A d \in Missing : n <= d
      BY LeastNumber
  <2>2. PICK t \in SUBSET S : Cardinality(t) = n /\ \E y \in t : ~AddsUp(t, y)
      OBVIOUS
  <2>3. PICK y \in t : ~AddsUp(t, y)
      BY <2>2
  <2> DEFINE x == AnyOf(t)
             u == (t \ {x}) \ {y}
  <2>4. /\ x \in t /\ t \ {x} \in SUBSET S /\ t \ {y} \in SUBSET S /\ u \in SUBSET S
        /\ Cardinality(t) \in Nat \ {0}
        /\ Cardinality(t \ {x}) = n - 1 /\ Cardinality(t \ {y}) = n - 1
    <3>1. x \in t
      BY <1>0, <2>3, OneLess
    <3> QED
      BY <1>0, <2>2, <2>3, <3>1, OneLess
  <2>5. f[t] = (L[x].len + 1) + f[t \ {x}]
      BY <1>1, <2>4 DEF SumOf
  <2>6. x # y
      BY <2>3, <2>5
  <2>7. n - 1 \in Nat /\ n - 1 \notin Missing
    <3> HIDE DEF Missing
    <3> QED
      BY <2>1, <2>2, <2>4
  <2>8. \A r \in SUBSET S : Cardinality(r) = n - 1 => \A v \in r : AddsUp(r, v)
      BY <2>7
  <2>9. f[t \ {x}] = (L[y].len + 1) + f[u]
      BY <2>3, <2>4, <2>6, <2>8
  <2>10. f[t \ {y}] = (L[x].len + 1) + f[u]
    <3>1. (t \ {y}) \ {x} = u
      OBVIOUS
    <3>2. AddsUp(t \ {y}, x)
      BY <2>4, <2>6, <2>8
    <3> QED
      BY <3>1, <3>2
  <2>11. L[x].len \in Nat /\ L[y].len \in Nat /\ f[u] \in Nat
      BY <1>0, <1>1, <2>4
  <2> HIDE DEF x, u
  <2> QED
      BY <2>3, <2>5, <2>9, <2>10, <2>11
<1>3. \A s \in SUBSET S : IsFiniteSet(s) /\ Cardinality(s) \in Nat
    BY <1>0, FS_Subset, FS_CardinalityType
<1> QED
    BY <1>2, <1>3 DEF SumsByAny

(* It is monotone.                                                           *)
LEMMA SumsGrow ==
    ASSUME NEW L, NEW S, Measured(L, S), NEW f \in [SUBSET S -> Nat], SumsUp(f, L, S),
           NEW s \in SUBSET S, NEW r \in SUBSET s
    PROVE  f[r] <= f[s]
<1> DEFINE Bad(n) == \E t \in SUBSET S : Cardinality(t) = n /\ \E u \in SUBSET t : ~(f[u] <= f[t])
           Missing == {n \in Nat : Bad(n)}
<1>0. IsFiniteSet(S) /\ \A j \in S : L[j].len \in Nat
    BY DEF Measured
<1>1. SumsByAny(f, L, S)
    BY AnyOrder
<1>2. Missing = {}
  <2> SUFFICES ASSUME Missing # {} PROVE FALSE
      OBVIOUS
  <2>1. PICK n \in Missing : \A d \in Missing : n <= d
      BY LeastNumber
  <2>2. PICK t \in SUBSET S : Cardinality(t) = n /\ \E u \in SUBSET t : ~(f[u] <= f[t])
      OBVIOUS
  <2>3. PICK u \in SUBSET t : ~(f[u] <= f[t])
      BY <2>2
  <2>4. f[u] \in Nat /\ f[t] \in Nat /\ u # t
      BY <2>3
  <2>5. PICK z \in t : z \notin u
      BY <2>4
  <2>6. /\ Cardinality(t) \in Nat \ {0} /\ t \ {z} \in SUBSET S
        /\ Cardinality(t \ {z}) = n - 1
      BY <1>0, <2>2, OneLess
  <2>7. n - 1 \in Nat /\ n - 1 \notin Missing
    <3> HIDE DEF Missing
    <3> QED
      BY <2>1, <2>2, <2>6
  <2>8. f[u] <= f[t \ {z}]
    <3>1. u \in SUBSET (t \ {z})
      BY <2>5
    <3> QED
      BY <2>6, <2>7, <3>1
  <2>9. f[t] = (L[z].len + 1) + f[t \ {z}] /\ L[z].len \in Nat /\ f[t \ {z}] \in Nat
      BY <1>0, <1>1, <2>6 DEF SumsByAny
  <2> QED
      BY <2>3, <2>4, <2>8, <2>9
<1>3. IsFiniteSet(s) /\ Cardinality(s) \in Nat
    BY <1>0, FS_Subset, FS_CardinalityType
<1> QED
    BY <1>2, <1>3

(* A larger set takes more room, by each line that it has more.              *)
LEMMA ExtentGrows ==
    ASSUME NEW L, NEW S, Measured(L, S), NEW R \in SUBSET S, NEW z \in S, z \notin R
    PROVE  /\ Extent(L, R) \in Nat
           /\ Extent(L, R) + L[z].len + 1 <= Extent(L, S)
<1>1. Measured(L, R) /\ IsFiniteSet(S)
    BY FS_Subset DEF Measured
<1>2. PICK f \in [SUBSET S -> Nat] : SumsUp(f, L, S)
    BY SumsExist
<1>3. PICK g \in [SUBSET R -> Nat] : SumsUp(g, L, R)
    BY <1>1, SumsExist
<1> DEFINE F == CHOOSE h : SumsUp(h, L, S)
           G == CHOOSE h : SumsUp(h, L, R)
<1>4. SumsUp(F, L, S)
    BY <1>2, Zenon
<1>5. SumsUp(G, L, R)
    BY <1>3, Zenon
<1>6. Extent(L, S) = F[S] /\ Extent(L, R) = G[R]
    BY ExtentBySums
<1> HIDE DEF F, G
<1>7. F[S] = f[S] /\ G[R] = f[R]
  <2>1. F[S] = f[S]
    BY <1>1, <1>2, <1>4, SumsAgree
  <2>2. IsFiniteSet(R) /\ R \in SUBSET R
    BY <1>1 DEF Measured
  <2>3. G[R] = f[R]
    BY <1>1, <1>2, <1>5, <2>2, SumsAgree
  <2> QED
    BY <2>1, <2>3
<1>8. f[R \cup {z}] <= f[S] /\ f[R \cup {z}] \in Nat /\ f[S] \in Nat /\ f[R] \in Nat
    BY <1>2, SumsGrow
<1>9. f[R \cup {z}] = (L[z].len + 1) + f[R]
  <2>1. SumsByAny(f, L, S)
    BY <1>2, AnyOrder
  <2>2. (R \cup {z}) \ {z} = R /\ R \cup {z} \in SUBSET S /\ z \in R \cup {z}
    OBVIOUS
  <2>3. f[R \cup {z}] = (L[z].len + 1) + f[(R \cup {z}) \ {z}]
    BY <2>1, <2>2 DEF SumsByAny
  <2> QED
    BY <2>2, <2>3
<1>10. L[z].len \in Nat
    BY DEF Measured
<1> QED
    BY <1>6, <1>7, <1>8, <1>9, <1>10

-----------------------------------------------------------------------------
(* The places of lines *)

LineType == [kind : {"text", "heading", "table", "image"}, len : Nat, page : Pages, scan : BOOLEAN]

(* The lines of a document, in the order of its pages.                       *)
LEMMA LinesTyped ==
    ASSUME file \in Files
    PROVE  /\ Len(Lines) \in Nat /\ All \subseteq Nat \ {0} /\ IsFiniteSet(All)
           /\ \A i \in All : /\ Lines[i].len \in Nat
                             /\ Lines[i].page \in Pages /\ Lines[i].page \in Nat
                             /\ Blank(i) <=> Lines[i].len = 0
           /\ \A i, j \in All : i <= j => Lines[i].page <= Lines[j].page
           /\ NoPage \notin Pages
<1>1. /\ Lines \in Seq(LineType)
      /\ \A i, j \in DOMAIN Lines : i <= j => Lines[i].page <= Lines[j].page
    BY FilesAssumption DEF FilesAssumption, LineType, Lines
<1>2. Len(Lines) \in Nat /\ DOMAIN Lines = All
    BY <1>1 DEF All
<1>3. All \subseteq Nat \ {0} /\ IsFiniteSet(All)
  <2>1. All = 1 .. Len(Lines) /\ 1 \in Int /\ Len(Lines) \in Int
    BY <1>2 DEF All
  <2>2. IsFiniteSet(1 .. Len(Lines))
    BY <2>1, FS_Interval
  <2> QED
    BY <2>1, <2>2
<1>4. \A i \in All : Lines[i] \in LineType
    BY <1>1, <1>2
<1>5. Pages \subseteq Nat /\ NoPage \notin Pages
    BY FilesAssumption, ChunkingAssumption DEF FilesAssumption, ChunkingAssumption
<1> QED
    BY <1>1, <1>2, <1>3, <1>4, <1>5 DEF LineType, Blank

(* The parsers add no lines.                                                 *)
LEMMA KeptLines == Kept \subseteq All
BY DEF Kept, PdfLines, LayerOf, ScanOf, Trimmed

(* The lines follow each other in the text, with a newline between them.     *)
LEMMA StartsApart ==
    ASSUME file \in Files
    PROVE  \A i \in Kept :
              /\ Start(i) \in Nat /\ Start(i) > 0 /\ End(i) \in Nat
              /\ Start(i) <= End(i) + 1
              /\ Start(i) <= End(i) <=> ~Blank(i)
              /\ \A j \in Kept : i < j => End(i) + 1 < Start(j)
<1> DEFINE Before(i) == {j \in Kept : j < i}
<1>1. \A i \in Kept : i \in Nat /\ Lines[i].len \in Nat /\ (Blank(i) <=> Lines[i].len = 0)
    BY LinesTyped, KeptLines
<1>2. Measured(Lines, Kept)
    BY <1>1, LinesTyped, KeptLines, FS_Subset DEF Measured
<1>3. \A i : Start(i) = 1 + Extent(Lines, Before(i))
    BY Zenon DEF Start, Extent
<1>4. ASSUME NEW i \in Kept
      PROVE  Extent(Lines, Before(i)) \in Nat
  <2>1. i \notin Before(i) /\ Before(i) \in SUBSET Kept
    BY <1>1
  <2> QED
    BY <1>2, <2>1, ExtentGrows
<1>5. ASSUME NEW i \in Kept, NEW j \in Kept, i < j
      PROVE  Extent(Lines, Before(i)) + Lines[i].len + 1 <= Extent(Lines, Before(j))
  <2>1. i \notin Before(i) /\ i \in Before(j) /\ Before(i) \in SUBSET Before(j)
    BY <1>1, <1>5
  <2>2. Measured(Lines, Before(j))
    BY <1>2, FS_Subset DEF Measured
  <2> QED
    BY <2>1, <2>2, ExtentGrows
<1> HIDE DEF Before
<1>6. ASSUME NEW i \in Kept
      PROVE  /\ Start(i) \in Nat /\ Start(i) > 0 /\ End(i) \in Nat
             /\ Start(i) <= End(i) + 1
             /\ Start(i) <= End(i) <=> ~Blank(i)
    BY <1>1, <1>3, <1>4 DEF End
<1>7. ASSUME NEW i \in Kept, NEW j \in Kept, i < j
      PROVE  End(i) + 1 < Start(j)
    BY <1>1, <1>3, <1>4, <1>5, <1>7 DEF End
<1> QED
    BY <1>6, <1>7

-----------------------------------------------------------------------------
(* Groups of lines *)

(* Consecutive parts of I, which are cut at the members of S.                *)
Cutting(G, n, I, S) ==
    /\ n \in Nat
    /\ \A k \in 1 .. n : G[k] \subseteq I /\ G[k] # {}
    /\ \A i \in I : \E k \in 1 .. n : i \in G[k]
    /\ \A k, l \in 1 .. n : \A i \in G[k], j \in G[l] : k < l => i < j
    /\ \A k \in 1 .. n : \A i, j \in G[k], t \in S : ~(i < t /\ t <= j)

(* Each group begins at one start and ends before the next.                  *)
LEMMA GroupsCut ==
    ASSUME NEW I, IsFiniteSet(I), I \subseteq Nat, NEW S \in SUBSET I,
           I # {} => \E t \in S : \A i \in I : t <= i
    PROVE  /\ Cutting(Groups(I, S), Cardinality(S), I, S)
           /\ Len(Groups(I, S)) = Cardinality(S)
<1> DEFINE Upto(i) == {t \in S : t <= i}
           Rank(i) == Cardinality(Upto(i))
           n == Cardinality(S)
           G == Groups(I, S)
<1>1. IsFiniteSet(S) /\ n \in Nat /\ S \subseteq Nat
    BY FS_Subset, FS_CardinalityType
<1>2. G = [k \in 1 .. n |-> {i \in I : Rank(i) = k}]
    BY DEF Groups
<1>3. \A i : IsFiniteSet(Upto(i)) /\ Rank(i) \in Nat /\ Rank(i) <= n
  <2>1. \A i : Upto(i) \in SUBSET S
    OBVIOUS
  <2> HIDE DEF Upto
  <2> QED
    BY <1>1, <2>1, FS_Subset, FS_CardinalityType
<1>4. ASSUME NEW i \in I, NEW j \in I, i <= j
      PROVE  Rank(i) <= Rank(j)
  <2>1. \A t \in S : t <= i => t <= j
    <3>1. i \in Nat /\ j \in Nat
      OBVIOUS
    <3> QED
      BY <1>1, <1>4, <3>1
  <2>2. Upto(i) \in SUBSET Upto(j)
    BY <2>1, Zenon
  <2> HIDE DEF Upto
  <2> QED
    BY <1>3, <2>2, FS_Subset
<1>5. ASSUME NEW i \in I, NEW j \in I, NEW t \in S, i < t, t <= j
      PROVE  Rank(i) < Rank(j)
  <2>1. t \in Nat /\ i \in Nat /\ j \in Nat
    BY <1>1
  <2>2. (\A s \in S : s <= i => s <= j) /\ ~(t <= i)
    BY <1>1, <1>5, <2>1
  <2>3. Upto(i) \in SUBSET Upto(j)
    BY <2>2, Zenon
  <2>4. t \in Upto(j) /\ t \notin Upto(i)
    BY <1>5, <2>2
  <2> HIDE DEF Upto
  <2>5. Rank(i) <= Rank(j) /\ (Rank(j) = Rank(i) => Upto(j) = Upto(i))
    BY <1>3, <2>3, FS_Subset
  <2> QED
    BY <1>3, <2>4, <2>5
<1>6. ASSUME NEW i \in I
      PROVE  Rank(i) \in 1 .. n
  <2>1. PICK t \in S : t <= i
    OBVIOUS
  <2>2. Upto(i) # {}
    BY <2>1
  <2> HIDE DEF Upto
  <2>3. Rank(i) # 0
    BY <1>3, <2>2, FS_EmptySet
  <2> QED
    BY <1>1, <1>3, <2>3
<1> HIDE DEF Upto
<1>7. ASSUME NEW k \in 1 .. n
      PROVE  \E t \in S : Rank(t) = k
  <2> DEFINE f == [t \in S |-> Rank(t)]
  <2>1. f \in [S -> 1 .. n]
    BY <1>6
  <2>2. ASSUME NEW s \in S, NEW t \in S, f[s] = f[t] PROVE s = t
    <3>1. s \in Nat /\ t \in Nat /\ Rank(s) = Rank(t) /\ Rank(s) \in Nat
      BY <1>1, <1>3, <2>2
    <3>2. ~(s < t) /\ ~(t < s)
      BY <1>5, <3>1
    <3> QED
      BY <3>1, <3>2
  <2>3. f \in Injection(S, 1 .. n)
    BY <2>1, <2>2 DEF Injection, IsInjective
  <2>4. IsFiniteSet(1 .. n) /\ Cardinality(1 .. n) = n
    <3>1. 1 \in Int /\ n \in Int /\ (IF 1 > n THEN 0 ELSE n - 1 + 1) = n
      BY <1>1
    <3> QED
      BY <3>1, FS_Interval
  <2>5. f \in Surjection(S, 1 .. n)
    <3> HIDE DEF f
    <3> QED
      BY <1>1, <2>3, <2>4, FS_Injection
  <2> QED
    BY <2>5 DEF Surjection
<1> HIDE DEF Rank, n, G
<1>8. \A k \in 1 .. n : G[k] = {i \in I : Rank(i) = k}
    BY <1>2
<1>9. Cutting(G, n, I, S)
  <2>1. \A k \in 1 .. n : G[k] \subseteq I /\ G[k] # {}
    BY <1>7, <1>8
  <2>2. \A i \in I : \E k \in 1 .. n : i \in G[k]
    BY <1>6, <1>8
  <2>3. ASSUME NEW k \in 1 .. n, NEW l \in 1 .. n, NEW i \in G[k], NEW j \in G[l], k < l
        PROVE  i < j
    <3>1. i \in I /\ j \in I /\ Rank(i) = k /\ Rank(j) = l
      BY <1>8
    <3>2. ~(j <= i)
      BY <1>1, <1>4, <2>3, <3>1
    <3> QED
      BY <3>1, <3>2
  <2>4. ASSUME NEW k \in 1 .. n, NEW i \in G[k], NEW j \in G[k], NEW t \in S
        PROVE  ~(i < t /\ t <= j)
    <3>1. i \in I /\ j \in I /\ Rank(i) = k /\ Rank(j) = k
      BY <1>8
    <3> QED
      BY <1>1, <1>5, <3>1
  <2> QED
    BY <1>1, <2>1, <2>2, <2>3, <2>4 DEF Cutting
<1>10. Len(G) = n
    BY <1>1, <1>2
<1> QED
    BY <1>9, <1>10 DEF n, G

-----------------------------------------------------------------------------
(* The characters of groups of lines *)

(* Every finite set of numbers has a greatest one, which Max chooses.        *)
LEMMA MaxIsGreatest ==
    ASSUME NEW D, D \subseteq Nat, IsFiniteSet(D), D # {}
    PROVE  Max(D) \in D /\ \A d \in D : d <= Max(D)
<1> DEFINE Above(x) == {d \in D : x < d}
           Sizes == {Cardinality(Above(x)) : x \in D}
<1>1. \A x \in D : IsFiniteSet(Above(x)) /\ Cardinality(Above(x)) \in Nat
  <2>1. \A x \in D : Above(x) \in SUBSET D
    OBVIOUS
  <2> HIDE DEF Above
  <2> QED
    BY <2>1, FS_Subset, FS_CardinalityType
<1>2. Sizes \subseteq Nat /\ Sizes # {}
    BY <1>1
<1>3. PICK m \in D : \A d \in D : Cardinality(Above(m)) <= Cardinality(Above(d))
  <2> HIDE DEF Above
  <2>1. PICK c \in Sizes : \A s \in Sizes : c <= s
    BY <1>2, LeastNumber
  <2> QED
    BY <2>1
<1>4. ASSUME NEW d \in D, m < d PROVE FALSE
  <2>1. \A e \in D : d < e => m < e
    <3>1. d \in Nat /\ m \in Nat
      OBVIOUS
    <3> QED
      BY <1>4, <3>1
  <2>2. Above(d) \in SUBSET Above(m)
    BY <2>1, Zenon
  <2>3. d \in Above(m) /\ d \notin Above(d)
    BY <1>4
  <2> HIDE DEF Above
  <2>4. Cardinality(Above(d)) <= Cardinality(Above(m))
        /\ (Cardinality(Above(m)) = Cardinality(Above(d)) => Above(m) = Above(d))
    BY <1>1, <2>2, FS_Subset
  <2>5. Cardinality(Above(m)) <= Cardinality(Above(d))
    BY <1>3
  <2> QED
    BY <1>1, <2>3, <2>4, <2>5
<1>5. \A d \in D : m >= d
    BY <1>4
<1> QED
    BY <1>5 DEF Max


-----------------------------------------------------------------------------
(* Where the lines and the groups of lines are in the text *)

(* The kept lines are finitely many numbers.                                 *)
LEMMA KeptTyped ==
    ASSUME file \in Files
    PROVE  /\ Kept \subseteq Nat /\ IsFiniteSet(Kept)
           /\ \A i \in Kept : i \in All /\ i \in Nat
<1>1. Kept \in SUBSET All /\ All \subseteq Nat /\ IsFiniteSet(All)
    BY KeptLines, LinesTyped
<1> QED
    BY <1>1, FS_Subset

(* A part of the kept lines goes from its first to its last.                 *)
LEMMA IntervalSpans ==
    ASSUME file \in Files, NEW J \in SUBSET Kept, J # {}
    PROVE  /\ Min(J) \in J /\ Max(J) \in J
           /\ \A j \in J : Min(J) <= j /\ j <= Max(J)
           /\ Interval(J) \in [from : Nat, to : Nat]
           /\ IsText(Interval(J))
           /\ Interval(J).from = Start(Min(J)) /\ Interval(J).to = End(Max(J))
<1>1. J \subseteq Nat /\ IsFiniteSet(J)
    BY KeptTyped, FS_Subset
<1>2. /\ Min(J) \in J /\ Max(J) \in J
      /\ \A j \in J : Min(J) <= j /\ j <= Max(J)
    BY <1>1, MinIsLeast, MaxIsGreatest
<1> DEFINE lo == Min(J)
           hi == Max(J)
<1>3. lo \in Kept /\ hi \in Kept /\ lo \in Nat /\ hi \in Nat /\ lo <= hi
    BY <1>1, <1>2
<1> HIDE DEF lo, hi
<1>4. /\ Start(lo) \in Nat /\ End(lo) \in Nat /\ Start(hi) \in Nat /\ End(hi) \in Nat
      /\ Start(lo) <= End(lo) + 1 /\ Start(hi) <= End(hi) + 1
      /\ lo < hi => End(lo) + 1 < Start(hi)
    BY <1>3, StartsApart
<1>5. Start(lo) <= End(hi) + 1
    BY <1>3, <1>4
<1>6. Interval(J) = [from |-> Start(lo), to |-> End(hi)]
    BY DEF Interval, lo, hi
<1> QED
    BY <1>2, <1>4, <1>5, <1>6 DEF IsText, lo, hi

(* Which of the lines that have a text are in it.                            *)
LEMMA IntervalLines ==
    ASSUME file \in Files, NEW J \in SUBSET Kept, J # {},
           NEW i \in Kept, NEW x \in Start(i) .. End(i)
    PROVE  /\ x \in Nat
           /\ Interval(J).from <= x <=> Min(J) <= i
           /\ x <= Interval(J).to <=> i <= Max(J)
<1> DEFINE lo == Min(J)
           hi == Max(J)
<1>1. /\ lo \in Kept /\ hi \in Kept
      /\ Interval(J).from = Start(lo) /\ Interval(J).to = End(hi)
    BY IntervalSpans
<1> HIDE DEF lo, hi
<1>2. i \in Nat /\ lo \in Nat /\ hi \in Nat
    BY <1>1, KeptTyped
<1>3. /\ Start(i) \in Nat /\ End(i) \in Nat /\ x \in Int /\ Start(i) <= x /\ x <= End(i)
    BY StartsApart
<1>4. /\ Start(lo) \in Nat /\ End(lo) \in Nat /\ Start(lo) <= End(lo) + 1
      /\ lo < i => End(lo) + 1 < Start(i)
      /\ i < lo => End(i) + 1 < Start(lo)
    BY <1>1, StartsApart
<1>5. /\ Start(hi) \in Nat /\ End(hi) \in Nat /\ Start(hi) <= End(hi) + 1
      /\ hi < i => End(hi) + 1 < Start(i)
      /\ i < hi => End(i) + 1 < Start(hi)
    BY <1>1, StartsApart
<1>6. Start(lo) <= x <=> lo <= i
    BY <1>2, <1>3, <1>4
<1>7. x <= End(hi) <=> i <= hi
    BY <1>2, <1>3, <1>5
<1> QED
    BY <1>1, <1>3, <1>6, <1>7 DEF lo, hi

(* Every character is in exactly one line, and on its page.                  *)
LEMMA CharacterLine ==
    ASSUME file \in Files
    PROVE  /\ Characters \subseteq Nat
           /\ \A i \in Kept : \A x \in Start(i) .. End(i) :
                  x \in Characters /\ PageAt[x] = Lines[i].page
           /\ \A x \in Characters : \E i \in Kept : x \in Start(i) .. End(i)
<1>1. Characters \subseteq Nat
    BY StartsApart DEF Characters
<1>2. \A x \in Characters : \E i \in Kept : x \in Start(i) .. End(i)
    BY DEF Characters
<1>3. ASSUME NEW i \in Kept, NEW x \in Start(i) .. End(i)
      PROVE  x \in Characters /\ PageAt[x] = Lines[i].page
  <2> DEFINE D == {j \in Kept : x \in Start(j) .. End(j)}
  <2>1. x \in Characters
    BY DEF Characters
  <2>2. ASSUME NEW j \in D PROVE j = i
    <3>1. j \in Nat /\ i \in Nat /\ j \in Kept
      BY KeptTyped
    <3>2. /\ Start(i) \in Nat /\ End(i) \in Nat /\ Start(j) \in Nat /\ End(j) \in Nat
          /\ i < j => End(i) + 1 < Start(j)
          /\ j < i => End(j) + 1 < Start(i)
      BY <3>1, StartsApart
    <3>3. x \in Int /\ Start(i) <= x /\ x <= End(i) /\ Start(j) <= x /\ x <= End(j)
      BY <3>2
    <3> QED
      BY <3>1, <3>2, <3>3
  <2>3. D \subseteq Nat /\ i \in D
    BY KeptTyped
  <2> HIDE DEF D
  <2>4. Min(D) = i
    BY <2>2, <2>3, MinIsLeast
  <2>5. PageAt[x] = Lines[Min(D)].page
    BY <2>1 DEF PageAt, D
  <2> QED
    BY <2>1, <2>4, <2>5
<1> QED
    BY <1>1, <1>2, <1>3

-----------------------------------------------------------------------------
(* The sections that a parser finds *)

Consecutive(I) == \A i, j \in I, m \in Kept : i <= m /\ m <= j => m \in I

OnOnePage(I) ==
    parser \in {"pdf", "ocr"} => \A i, j \in I : Lines[i].page = Lines[j].page

Filled(I) == {i \in I : ~Blank(i)}

ParagraphStarts(I) ==
    {i \in Filled(I) : \A j \in I : j < i /\ ~Blank(j) => \E k \in j + 1 .. i - 1 : k \in I}

(* The paragraphs of a section, if it has several.                           *)
LEMMA ParagraphGroups ==
    ASSUME file \in Files, NEW I \in SUBSET Kept, ParagraphsOf(I) # <<>>
    PROVE  \E n, G : /\ Cutting(G, n, Filled(I), ParagraphStarts(I))
                     /\ ParagraphsOf(I) = [k \in 1 .. n |-> Interval(G[k])]
<1> DEFINE full == Filled(I)
           S == ParagraphStarts(I)
           G == Groups(full, S)
<1>1. ParagraphsOf(I) = IF full = I THEN <<>> ELSE [k \in 1 .. Len(G) |-> Interval(G[k])]
    BY Zenon DEF ParagraphsOf, Filled, ParagraphStarts
<1>2. full \in SUBSET Kept /\ S \in SUBSET full
    BY DEF Filled, ParagraphStarts
<1>3. IsFiniteSet(full) /\ full \subseteq Nat
    BY <1>2, KeptTyped, FS_Subset
<1>4. ASSUME full # {} PROVE \E t \in S : \A i \in full : t <= i
  <2>1. PICK t \in full : \A i \in full : t <= i
    BY <1>3, <1>4, LeastNumber
  <2>2. \A j \in I : j \in Nat
    BY KeptTyped
  <2>3. \A j \in I : j < t /\ ~Blank(j) => FALSE
    BY <1>3, <2>1, <2>2 DEF Filled
  <2>4. t \in S
    BY <2>1, <2>3 DEF ParagraphStarts
  <2> QED
    BY <2>1, <2>4
<1> HIDE DEF full, S
<1>5. Cutting(G, Cardinality(S), full, S) /\ Len(G) = Cardinality(S)
    BY <1>2, <1>3, <1>4, GroupsCut
<1> HIDE DEF G
<1>6. ParagraphsOf(I) = [k \in 1 .. Cardinality(S) |-> Interval(G[k])]
    BY <1>1, <1>5
<1> QED
    BY <1>5, <1>6 DEF full, S

(* Consecutive lines, of one page if pages matter, make a section.           *)
LEMMA SectionFound ==
    ASSUME file \in Files, NEW I \in SUBSET Kept, I # {}, Consecutive(I), OnOnePage(I)
    PROVE  /\ IsSection(AsSection(I))
           /\ SectionOf(Characters, PageAt, AsSection(I))
           /\ AsSection(I).from = Interval(I).from /\ AsSection(I).to = Interval(I).to
<1> DEFINE s == AsSection(I)
           lo == Min(I)
           hi == Max(I)
<1>1. /\ lo \in I /\ hi \in I /\ lo \in Kept /\ hi \in Kept
      /\ \A j \in I : lo <= j /\ j <= hi
      /\ Interval(I) \in [from : Nat, to : Nat] /\ IsText(Interval(I))
    BY IntervalSpans
<1>2. /\ s.from = Interval(I).from /\ s.to = Interval(I).to
      /\ s.paras = ParagraphsOf(I)
      /\ s.page = IF parser = "pdf" \/ parser = "ocr" THEN Lines[lo].page ELSE NoPage
    BY DEF AsSection
<1> HIDE DEF s, lo, hi
<1>3. s.page \in Pages \cup {NoPage}
    BY <1>1, <1>2, KeptTyped, LinesTyped
<1>4. IsText(s)
    BY <1>1, <1>2 DEF IsText
<1>5. ASSUME NEW i \in Kept, NEW x \in Start(i) .. End(i), Within(x, s)
      PROVE  i \in I /\ s.page \in {NoPage, PageAt[x]} /\ ~Blank(i)
  <2>1. Min(I) <= i /\ i <= Max(I)
    BY <1>2, <1>5, IntervalLines DEF Within
  <2>2. i \in I
    BY <1>1, <2>1 DEF Consecutive, lo, hi
  <2>3. PageAt[x] = Lines[i].page
    BY CharacterLine
  <2>4. Start(i) <= End(i)
    BY StartsApart
  <2>5. ~Blank(i)
    BY <2>4, StartsApart
  <2> QED
    BY <1>1, <1>2, <2>2, <2>3, <2>5 DEF OnOnePage
<1>6. CASE ParagraphsOf(I) = <<>>
  <2>1. s.paras = <<>> /\ Paragraphs(s) = <<[from |-> s.from, to |-> s.to]>>
    BY <1>2, <1>6 DEF Paragraphs
  <2>2. Len(Paragraphs(s)) = 1 /\ Paragraphs(s)[1] = [from |-> s.from, to |-> s.to]
    BY <2>1
  <2>3. s.from \in Nat /\ s.to \in Nat
    BY <1>1, <1>2
  <2>4. \A k \in 1 .. 1 : k = 1
    OBVIOUS
  <2>5. IsSection(s)
    BY <1>3, <1>4, <2>1 DEF IsSection
  <2>6. ASSUME NEW x \in Characters, Within(x, s)
        PROVE  /\ s.page \in {NoPage, PageAt[x]}
               /\ \E k \in 1 .. Len(Paragraphs(s)) : Within(x, Paragraphs(s)[k])
    <3>1. PICK i \in Kept : x \in Start(i) .. End(i)
      BY CharacterLine
    <3>2. s.page \in {NoPage, PageAt[x]}
      BY <1>5, <2>6, <3>1
    <3>3. 1 \in 1 .. Len(Paragraphs(s)) /\ Within(x, Paragraphs(s)[1])
      BY <2>2, <2>6 DEF Within
    <3> QED
      BY <3>2, <3>3
  <2>7. /\ \A k \in 1 .. Len(Paragraphs(s)) :
              s.from <= Paragraphs(s)[k].from /\ Paragraphs(s)[k].to <= s.to
        /\ \A k, l \in 1 .. Len(Paragraphs(s)) :
              k < l => Paragraphs(s)[k].to < Paragraphs(s)[l].from
    BY <2>2, <2>3, <2>4
  <2>8. SectionOf(Characters, PageAt, s)
    BY <2>6, <2>7, Zenon DEF SectionOf
  <2> QED
    BY <1>2, <2>5, <2>8 DEF s
<1>7. CASE ParagraphsOf(I) # <<>>
  <2>1. PICK n, G : /\ Cutting(G, n, Filled(I), ParagraphStarts(I))
                    /\ ParagraphsOf(I) = [k \in 1 .. n |-> Interval(G[k])]
    BY <1>7, ParagraphGroups
  <2>2. /\ n \in Nat
        /\ \A k \in 1 .. n : G[k] \in SUBSET I /\ G[k] # {} /\ G[k] \in SUBSET Kept
    BY <2>1 DEF Cutting, Filled
  <2>3. Paragraphs(s) = [k \in 1 .. n |-> Interval(G[k])]
    BY <1>2, <1>7, <2>1 DEF Paragraphs
  <2>4. Len(Paragraphs(s)) = n /\ \A k \in 1 .. n : Paragraphs(s)[k] = Interval(G[k])
    BY <2>2, <2>3
  <2>5. \A k \in 1 .. n : /\ Interval(G[k]) \in [from : Nat, to : Nat]
                          /\ IsText(Interval(G[k]))
                          /\ Min(G[k]) \in G[k] /\ Max(G[k]) \in G[k]
                          /\ Interval(G[k]).from = Start(Min(G[k]))
                          /\ Interval(G[k]).to = End(Max(G[k]))
    BY <2>2, IntervalSpans
  <2>6. IsSection(s)
    <3>1. s.paras \in Seq([from : Nat, to : Nat])
      BY <1>2, <2>1, <2>2, <2>5
    <3>2. Len(s.paras) = n /\ \A k \in 1 .. n : s.paras[k] = Interval(G[k])
      BY <1>2, <2>1, <2>2
    <3> QED
      BY <1>3, <1>4, <2>5, <3>1, <3>2 DEF IsSection
  <2>7. ASSUME NEW k \in 1 .. n
        PROVE  s.from <= Paragraphs(s)[k].from /\ Paragraphs(s)[k].to <= s.to
    <3> DEFINE a == Min(G[k])
               b == Max(G[k])
    <3>1. a \in I /\ b \in I /\ a \in Kept /\ b \in Kept
      BY <2>2, <2>5
    <3>2. Paragraphs(s)[k].from = Start(a) /\ Paragraphs(s)[k].to = End(b)
      BY <2>4, <2>5
    <3> HIDE DEF a, b
    <3>3. s.from = Start(lo) /\ s.to = End(hi)
      BY <1>2, IntervalSpans DEF lo, hi
    <3>4. /\ lo \in Nat /\ hi \in Nat /\ a \in Nat /\ b \in Nat
          /\ lo <= a /\ b <= hi
      BY <1>1, <3>1, KeptTyped
    <3>5. /\ Start(lo) \in Nat /\ End(lo) \in Nat /\ Start(a) \in Nat /\ Start(lo) <= End(lo) + 1
          /\ lo < a => End(lo) + 1 < Start(a)
      BY <1>1, <3>1, StartsApart
    <3>6. /\ End(b) \in Nat /\ End(hi) \in Nat /\ Start(hi) \in Nat /\ Start(hi) <= End(hi) + 1
          /\ b < hi => End(b) + 1 < Start(hi)
      BY <1>1, <3>1, StartsApart
    <3>7. Start(lo) <= Start(a)
      BY <3>4, <3>5
    <3>8. End(b) <= End(hi)
      BY <3>4, <3>6
    <3> QED
      BY <3>2, <3>3, <3>7, <3>8
  <2>8. ASSUME NEW k \in 1 .. n, NEW l \in 1 .. n, k < l
        PROVE  Paragraphs(s)[k].to < Paragraphs(s)[l].from
    <3> DEFINE a == Min(G[l])
               b == Max(G[k])
    <3>1. b \in G[k] /\ a \in G[l] /\ a \in Kept /\ b \in Kept
      BY <2>2, <2>5
    <3>2. Paragraphs(s)[k].to = End(b) /\ Paragraphs(s)[l].from = Start(a)
      BY <2>4, <2>5
    <3> HIDE DEF a, b
    <3>3. b < a
      BY <2>1, <2>8, <3>1 DEF Cutting
    <3>4. End(b) \in Nat /\ Start(a) \in Nat /\ End(b) + 1 < Start(a)
      BY <3>1, <3>3, StartsApart
    <3> QED
      BY <3>2, <3>4
  <2>9. ASSUME NEW x \in Characters, Within(x, s)
        PROVE  /\ s.page \in {NoPage, PageAt[x]}
               /\ \E k \in 1 .. n : Within(x, Paragraphs(s)[k])
    <3>1. PICK i \in Kept : x \in Start(i) .. End(i)
      BY CharacterLine
    <3>2. s.page \in {NoPage, PageAt[x]} /\ i \in Filled(I)
      BY <1>5, <2>9, <3>1 DEF Filled
    <3>3. PICK k \in 1 .. n : i \in G[k]
      BY <2>1, <3>2 DEF Cutting
    <3>4. Min(G[k]) <= i /\ i <= Max(G[k])
      BY <2>2, <3>3, IntervalSpans
    <3>5. Within(x, Interval(G[k]))
      BY <2>2, <3>1, <3>4, IntervalLines DEF Within
    <3> QED
      BY <2>4, <3>2, <3>5
  <2>10. SectionOf(Characters, PageAt, s)
    BY <2>4, <2>7, <2>8, <2>9, Zenon DEF SectionOf
  <2> QED
    BY <1>2, <2>6, <2>10 DEF s
<1> QED
    BY <1>6, <1>7

(* What the chunking is given: sections in order, with all characters of     *)
(* the lines of I.                                                           *)
Sheets(S, I) ==
    /\ Len(S) \in Nat
    /\ \A k \in 1 .. Len(S) : /\ IsSection(S[k])
                              /\ SectionOf(Characters, PageAt, S[k])
                              /\ \E i \in I : S[k].from = Start(i)
                              /\ \E i \in I : S[k].to = End(i)
    /\ \A k, l \in 1 .. Len(S) : k < l => S[k].to < S[l].from
    /\ \A k \in 1 .. Len(S), l \in 1 .. Len(S), x \in Characters :
            l = k + 1 => ~(S[k].to < x /\ x < S[l].from)
    /\ \A i \in I : \A x \in Start(i) .. End(i) : \E k \in 1 .. Len(S) : Within(x, S[k])

(* The sections of a document have all the text that was kept, in order.     *)
LEMMA SectionsLaidOut ==
    ASSUME file \in Files, parser \in Parsers
    PROVE  Sheets(Sections, Kept)
<1> DEFINE G == Groups(Kept, Cuts)
           n == Cardinality(Cuts)
<1>1. Cuts \in SUBSET Kept /\ IsFiniteSet(Kept) /\ Kept \subseteq Nat
    BY KeptTyped DEF Cuts
<1>2. /\ \A i \in Kept : i \in Nat /\ Lines[i].page \in Nat
      /\ \A i, j \in Kept : i <= j => Lines[i].page <= Lines[j].page
    BY KeptTyped, LinesTyped
<1>3. ASSUME Kept # {} PROVE \E t \in Cuts : \A i \in Kept : t <= i
  <2>1. PICK t \in Kept : \A i \in Kept : t <= i
    BY <1>1, <1>3, LeastNumber
  <2>2. \A j \in Kept : ~(j < t)
    BY <1>2, <2>1
  <2>3. t \in Cuts
    BY <2>2 DEF Cuts, FirstOfPage
  <2> QED
    BY <2>1, <2>3
<1>4. Cutting(G, n, Kept, Cuts) /\ Len(G) = n
    BY <1>1, <1>3, GroupsCut
<1>5. Sections = [k \in 1 .. n |-> AsSection(G[k])]
    BY <1>4 DEF Sections
<1> HIDE DEF G, n
<1>6. n \in Nat /\ \A k \in 1 .. n : G[k] \in SUBSET Kept /\ G[k] # {}
    BY <1>4 DEF Cutting
<1>7. ASSUME NEW k \in 1 .. n
      PROVE  Consecutive(G[k]) /\ OnOnePage(G[k])
  <2>1. ASSUME NEW i \in G[k], NEW j \in G[k], NEW m \in Kept, i <= m, m <= j
        PROVE  m \in G[k]
    <3>1. PICK l \in 1 .. n : m \in G[l]
      BY <1>4 DEF Cutting
    <3>2. i \in Nat /\ j \in Nat /\ m \in Nat
      BY <1>2, <1>6
    <3>3. ~(l < k) /\ ~(k < l)
      BY <1>4, <2>1, <3>1, <3>2 DEF Cutting
    <3>4. l = k
      BY <1>6, <3>3
    <3> QED
      BY <3>1, <3>4
  <2>2. ASSUME parser \in {"pdf", "ocr"}, NEW i \in G[k], NEW j \in G[k], i <= j
        PROVE  Lines[i].page = Lines[j].page
    <3> SUFFICES ASSUME Lines[i].page # Lines[j].page PROVE FALSE
      OBVIOUS
    <3> DEFINE D == {m \in Kept : Lines[m].page = Lines[j].page}
    <3>1. i \in Kept /\ j \in Kept
      BY <1>6
    <3>2. D \subseteq Nat /\ D # {}
      BY <1>1, <3>1
    <3>3. PICK t \in D : \A m \in D : t <= m
      BY <3>2, LeastNumber
    <3>4. t \in Kept /\ Lines[t].page = Lines[j].page /\ t <= j
      BY <3>1, <3>3
    <3>5. \A m \in Kept : m < t => Lines[m].page # Lines[t].page
      BY <1>2, <3>3, <3>4
    <3>6. t \in Cuts
      BY <3>4, <3>5 DEF Cuts, FirstOfPage
    <3>7. ~(t <= i)
      BY <1>2, <2>2, <3>1, <3>4
    <3>8. i < t
      BY <1>2, <3>1, <3>4, <3>7
    <3> QED
      BY <1>4, <3>4, <3>6, <3>8 DEF Cutting
  <2>3. OnOnePage(G[k])
    <3>1. \A i, j \in G[k] : i <= j \/ j <= i
      BY <1>2, <1>6
    <3> QED
      BY <2>2, <3>1 DEF OnOnePage
  <2> QED
    BY <2>1, <2>3 DEF Consecutive
<1>8. \A k \in 1 .. n : /\ IsSection(AsSection(G[k]))
                        /\ SectionOf(Characters, PageAt, AsSection(G[k]))
                        /\ AsSection(G[k]).from = Start(Min(G[k]))
                        /\ AsSection(G[k]).to = End(Max(G[k]))
                        /\ Min(G[k]) \in G[k] /\ Max(G[k]) \in G[k]
                        /\ Min(G[k]) \in Kept /\ Max(G[k]) \in Kept
    BY <1>6, <1>7, SectionFound, IntervalSpans
<1>9. Len(Sections) = n /\ \A k \in 1 .. n : Sections[k] = AsSection(G[k])
    BY <1>5, <1>6
<1>10. ASSUME NEW k \in 1 .. n, NEW l \in 1 .. n, k < l
       PROVE  Sections[k].to < Sections[l].from
  <2> DEFINE a == Min(G[l])
             b == Max(G[k])
  <2>1. b \in G[k] /\ a \in G[l] /\ a \in Kept /\ b \in Kept
    BY <1>8
  <2>2. Sections[k].to = End(b) /\ Sections[l].from = Start(a)
    BY <1>8, <1>9
  <2> HIDE DEF a, b
  <2>3. b < a
    BY <1>4, <1>10, <2>1 DEF Cutting
  <2>4. End(b) \in Nat /\ Start(a) \in Nat /\ End(b) + 1 < Start(a)
    BY <2>1, <2>3, StartsApart
  <2> QED
    BY <2>2, <2>4
<1>11. ASSUME NEW i \in Kept, NEW x \in Start(i) .. End(i), NEW k \in 1 .. n
       PROVE  /\ Sections[k].from <= x <=> Min(G[k]) <= i
              /\ x <= Sections[k].to <=> i <= Max(G[k])
  <2>1. /\ Interval(G[k]).from <= x <=> Min(G[k]) <= i
        /\ x <= Interval(G[k]).to <=> i <= Max(G[k])
    BY <1>6, IntervalLines
  <2>2. Sections[k].from = Interval(G[k]).from /\ Sections[k].to = Interval(G[k]).to
    BY <1>9 DEF AsSection
  <2> QED
    BY <2>1, <2>2
<1>12. ASSUME NEW k \in 1 .. n, NEW l \in 1 .. n, NEW x \in Characters,
              l = k + 1, Sections[k].to < x, x < Sections[l].from
       PROVE  FALSE
  <2>1. PICK i \in Kept : x \in Start(i) .. End(i)
    BY CharacterLine
  <2>2. /\ x \in Nat /\ i \in Nat
        /\ Sections[k].to \in Nat /\ Sections[l].from \in Nat
        /\ Max(G[k]) \in Nat /\ Min(G[l]) \in Nat
    <3>1. /\ Max(G[k]) \in Kept /\ Min(G[l]) \in Kept
          /\ Sections[k].to = End(Max(G[k])) /\ Sections[l].from = Start(Min(G[l]))
      BY <1>8, <1>9
    <3>2. End(Max(G[k])) \in Nat /\ Start(Min(G[l])) \in Nat
      BY <3>1, StartsApart
    <3> QED
      BY <1>2, <3>1, <3>2, CharacterLine
  <2>3. ~(i <= Max(G[k])) /\ ~(Min(G[l]) <= i)
    BY <1>11, <1>12, <2>1, <2>2
  <2>4. PICK m \in 1 .. n : i \in G[m]
    BY <1>4 DEF Cutting
  <2>5. m # k /\ m # l
    BY <1>6, <2>2, <2>3, <2>4, IntervalSpans
  <2>6. m < k \/ l < m
    BY <1>6, <1>12, <2>5
  <2>7. CASE m < k
    <3>1. i < Max(G[k])
      BY <1>4, <1>8, <2>4, <2>7 DEF Cutting
    <3> QED
      BY <2>2, <2>3, <3>1
  <2>8. CASE l < m
    <3>1. Min(G[l]) < i
      BY <1>4, <1>8, <2>4, <2>8 DEF Cutting
    <3> QED
      BY <2>2, <2>3, <3>1
  <2> QED
    BY <2>6, <2>7, <2>8
<1>13. ASSUME NEW i \in Kept, NEW x \in Start(i) .. End(i)
       PROVE  \E k \in 1 .. n : Within(x, Sections[k])
  <2>1. PICK k \in 1 .. n : i \in G[k]
    BY <1>4 DEF Cutting
  <2>2. Min(G[k]) <= i /\ i <= Max(G[k])
    BY <1>6, <2>1, IntervalSpans
  <2> QED
    BY <1>11, <2>2 DEF Within
<1>14. \A k \in 1 .. n : /\ IsSection(Sections[k])
                         /\ SectionOf(Characters, PageAt, Sections[k])
                         /\ \E i \in Kept : Sections[k].from = Start(i)
                         /\ \E i \in Kept : Sections[k].to = End(i)
    BY <1>8, <1>9
<1> QED
    BY <1>6, <1>9, <1>10, <1>12, <1>13, <1>14 DEF Sheets

(* The page of an OCR run, if it has any text.                               *)
LEMMA PageLaidOut ==
    ASSUME file \in Files, parser = "ocr", NEW p \in PagesOf, ScanOf(p) # {}
    PROVE  Sheets(<<AsSection(ScanOf(p))>>, ScanOf(p))
<1> DEFINE I == ScanOf(p)
           S == <<AsSection(I)>>
<1>1. Kept = UNION {ScanOf(q) : q \in PagesOf}
    BY DEF Kept, IsMarkdown
<1>2. \A q, i : i \in ScanOf(q) => Lines[i].page = q
    BY DEF ScanOf, Trimmed
<1>3. I \in SUBSET Kept /\ I # {}
    BY <1>1
<1> HIDE DEF I
<1>4. Consecutive(I)
  <2> SUFFICES ASSUME NEW i \in I, NEW j \in I, NEW m \in Kept, i <= m, m <= j
               PROVE  m \in I
    BY DEF Consecutive
  <2>1. PICK q \in PagesOf : m \in ScanOf(q)
    BY <1>1
  <2>2. Lines[m].page = q /\ Lines[i].page = p /\ Lines[j].page = p
    BY <1>2, <2>1 DEF I
  <2>3. i \in All /\ j \in All /\ m \in All
    BY <1>3, KeptTyped
  <2>4. Lines[i].page <= Lines[m].page /\ Lines[m].page <= Lines[j].page
    BY <2>3, LinesTyped
  <2>5. Lines[i].page \in Nat /\ Lines[m].page \in Nat /\ Lines[j].page \in Nat
    BY <2>3, LinesTyped
  <2>6. p = q
    BY <2>2, <2>4, <2>5
  <2> QED
    BY <2>1, <2>6 DEF I
<1>5. OnOnePage(I)
    BY <1>2 DEF OnOnePage, I
<1>6. /\ IsSection(AsSection(I)) /\ SectionOf(Characters, PageAt, AsSection(I))
      /\ AsSection(I).from = Interval(I).from /\ AsSection(I).to = Interval(I).to
    BY <1>3, <1>4, <1>5, SectionFound
<1>7. /\ Min(I) \in I /\ Max(I) \in I
      /\ \A i \in I : Min(I) <= i /\ i <= Max(I)
      /\ Interval(I).from = Start(Min(I)) /\ Interval(I).to = End(Max(I))
    BY <1>3, IntervalSpans
<1>8. Len(S) = 1 /\ S[1] = AsSection(I)
    OBVIOUS
<1>9. \A k \in 1 .. 1 : k = 1
    OBVIOUS
<1>10. \A i \in I : \A x \in Start(i) .. End(i) : Within(x, AsSection(I))
    BY <1>3, <1>6, <1>7, IntervalLines DEF Within
<1> HIDE DEF S
<1>11. \A i \in I : \A x \in Start(i) .. End(i) : \E k \in 1 .. Len(S) : Within(x, S[k])
  <2>1. 1 \in 1 .. Len(S)
    BY <1>8
  <2> QED
    BY <1>8, <1>10, <2>1
<1>12. \A k \in 1 .. Len(S) : /\ IsSection(S[k])
                              /\ SectionOf(Characters, PageAt, S[k])
                              /\ \E i \in I : S[k].from = Start(i)
                              /\ \E i \in I : S[k].to = End(i)
    BY <1>6, <1>7, <1>8, <1>9
<1>13. /\ Len(S) \in Nat
       /\ \A k, l \in 1 .. Len(S) : ~(k < l) /\ l # k + 1
    BY <1>8, <1>9
<1> QED
    BY <1>11, <1>12, <1>13 DEF Sheets, S, I

-----------------------------------------------------------------------------
(* The inductive invariant of the run *)

(* Before the first text is chunked there is nothing to lose.                *)
LEMMA IdleText ==
    IdleInv /\ phase = "idle" => ChunkInv /\ TextInv(Characters, PageAt)
<1> SUFFICES ASSUME IdleInv, phase = "idle" PROVE ChunkInv /\ TextInv(Characters, PageAt)
    OBVIOUS
<1>1. /\ batch = <<>> /\ chunks = <<>> /\ output = <<>>
      /\ buffer = NoBuffer /\ para = 0 /\ offset = 0 /\ at = 1
    BY DEF IdleInv
<1>2. buffer.len = 0 /\ Flushed = <<>> /\ ~Splitting /\ Len(batch) = 0 /\ Len(output) = 0
    BY <1>1 DEF Flushed, NoBuffer, Splitting
<1>3. \A k : k \notin 1 .. 0
    OBVIOUS
<1>4. ChunkInv
    BY <1>1, <1>2, <1>3, NoBufferBounded DEF ChunkInv, BatchOK, PlaceOK, SliceOK, ResultOK
<1>5. Len(Flushed) = 0
    BY <1>2
<1>6. LaidOut(Characters, PageAt)
    BY <1>2, <1>3 DEF LaidOut
<1>7. PieceInv(Characters, PageAt)
    BY <1>3, <1>5 DEF PieceInv, Rising
<1>8. OutputInv(Characters, PageAt)
    BY <1>2, <1>3 DEF OutputInv, Rising
<1> QED
    BY <1>1, <1>2, <1>4, <1>6, <1>7, <1>8 DEF TextInv, PhaseInv, GapInv, CoverInv, DoneInv

(* The chunking starts on sections that are in order, behind what has been   *)
(* returned so far.                                                          *)
LEMMA SplitStarts ==
    ASSUME NEW T, NEW P, NEW S, T \subseteq Nat, ChunkInv, PhaseInv, OutputInv(T, P),
           phase \in {"idle", "done"}, Split(S),
           Len(S) \in Nat,
           \A k \in 1 .. Len(S) : IsSection(S[k]) /\ SectionOf(T, P, S[k]),
           \A k, l \in 1 .. Len(S) : k < l => S[k].to < S[l].from,
           \A k \in 1 .. Len(S), l \in 1 .. Len(S), x \in T :
                l = k + 1 => ~(S[k].to < x /\ x < S[l].from),
           \A k \in 1 .. Len(output), l \in 1 .. Len(S) : output[k].from < S[l].from
    PROVE  ChunkInv' /\ TextInv(T, P)'
<1>1. /\ batch' = S /\ at' = 1 /\ chunks' = <<>> /\ phase' = "splitting"
      /\ UNCHANGED <<para, offset, buffer, output>>
    BY DEF Split
<1>2. para = 0 /\ offset = 0 /\ buffer.len = 0
    BY DEF PhaseInv, ChunkInv, PlaceOK, SliceOK, ResultOK, Bounded, Splitting
<1>3. Flushed' = <<>>
    BY <1>1, <1>2 DEF Flushed
<1>4. ChunkInv'
    BY <1>1, <1>2 DEF ChunkInv, BatchOK, PlaceOK, SliceOK, ResultOK
<1>5. LaidOut(T, P)'
    BY <1>1 DEF LaidOut
<1>6. PhaseInv' /\ GapInv(T)' /\ DoneInv(T)'
    BY <1>1, <1>2 DEF PhaseInv, GapInv, DoneInv
<1>7. PieceInv(T, P)'
  <2>1. Len(Flushed)' = 0 /\ \A k : k \notin 1 .. 0
    BY <1>3
  <2> QED
    BY <2>1 DEF PieceInv, Rising
<1>8. CoverInv(T)'
  <2> SUFFICES ASSUME NEW k \in 1 .. Len(S), NEW x \in T, Within(x, S[k]), Passed(k, x)'
               PROVE  FALSE
    BY <1>1 DEF CoverInv
  <2>1. Front' = S[1].from
    BY <1>1, <1>2 DEF Front, Section
  <2>2. k = 1 /\ x < S[1].from
    BY <1>1, <2>1 DEF Passed
  <2>3. S[1].from \in Nat /\ x \in Nat /\ S[1].from <= x
    BY <2>2 DEF IsSection, IsText, Within
  <2> QED
    BY <2>2, <2>3
<1>9. OutputInv(T, P)'
    BY <1>1 DEF OutputInv
<1> QED
    BY <1>4, <1>5, <1>6, <1>7, <1>8, <1>9 DEF TextInv

(* What an OCR run keeps is what it found on each page.                      *)
LEMMA OcrLines ==
    ASSUME parser = "ocr"
    PROVE  \A i \in Kept : Lines[i].page \in PagesOf /\ i \in ScanOf(Lines[i].page)
BY DEF Kept, IsMarkdown, ScanOf, Trimmed

(* The invariant holds at first.                                             *)
LEMMA ParsingInit == Init => ParsingInv
<1> SUFFICES ASSUME Init PROVE ParsingInv
    OBVIOUS
<1>1. file \in Files /\ parser = "none" /\ phase = "idle" /\ batch = <<>> /\ output = <<>>
    BY DEF Init
<1>2. IdleInv
    BY DEF Init, IdleInv
<1>3. LinesInv
  <2>1. Len(batch) = 0 /\ Len(output) = 0 /\ \A k : k \notin 1 .. 0
    BY <1>1
  <2>2. \A i : ~HandedOver(i)
    BY <1>1 DEF HandedOver
  <2> QED
    BY <2>1, <2>2 DEF LinesInv
<1> QED
    BY <1>1, <1>2, <1>3, IdleText DEF ParsingInv

(* The plan decides what is kept; nothing is handed over yet.                *)
LEMMA ChoosePlanParses ==
    ASSUME ParsingInv, ChoosePlan
    PROVE  ParsingInv'
<1>1. /\ parser = "none" /\ phase = "idle" /\ file' = file
      /\ pages' = IF parser' = "ocr" THEN PagesOf ELSE {}
      /\ parser' = Plan(file)
      /\ UNCHANGED <<batch, at, para, offset, buffer, chunks, phase, output>>
    BY DEF ChoosePlan, chunkVars, ParsingInv, IdleInv
<1>2. PagesOf' = PagesOf /\ Lines' = Lines
    BY <1>1 DEF PagesOf, All, Lines
<1>3. IdleInv'
    BY <1>1, <1>2 DEF ParsingInv, IdleInv
<1>4. ChunkInv' /\ TextInv(Characters, PageAt)'
  <2>1. (IdleInv /\ phase = "idle")' => (ChunkInv /\ TextInv(Characters, PageAt))'
    BY IdleText, PTL
  <2> QED
    BY <1>1, <1>3, <2>1
<1>5. LinesInv'
  <2>1. Len(batch') = 0 /\ Len(output') = 0 /\ \A k : k \notin 1 .. 0
    BY <1>1 DEF ParsingInv, IdleInv
  <2>2. (Kept \subseteq All)'
    BY KeptLines, PTL
  <2>3. ASSUME NEW i \in Kept' PROVE ~HandedOver(i)'
    <3>1. Lines[i].page \in PagesOf
      BY <1>2, <2>2 DEF PagesOf, All
    <3> QED
      BY <1>1, <1>2, <3>1 DEF HandedOver
  <2> QED
    BY <2>1, <2>3 DEF LinesInv
<1> QED
    BY <1>1, <1>3, <1>4, <1>5 DEF ParsingInv

(* All sections of the document are handed over at once.                     *)
LEMMA FindSectionsParses ==
    ASSUME ParsingInv, FindSections
    PROVE  ParsingInv'
<1>1. /\ parser \in Parsers /\ phase = "idle" /\ phase' = "splitting"
      /\ UNCHANGED <<file, parser, pages>>
      /\ batch' = Sections /\ UNCHANGED output
      /\ Split(Sections)
    BY DEF FindSections, Split
<1>2. file \in Files /\ IdleInv /\ ChunkInv /\ TextInv(Characters, PageAt)
    BY DEF ParsingInv
<1>3. output = <<>> /\ Len(output) = 0 /\ \A k : k \notin 1 .. 0
    BY <1>1, <1>2 DEF IdleInv
<1>4. /\ Kept' = Kept /\ Lines' = Lines
      /\ \A i : Start(i)' = Start(i) /\ End(i)' = End(i)
      /\ Characters' = Characters /\ PageAt' = PageAt
    BY <1>1, SameFile
<1>5. Sheets(Sections, Kept)
    BY <1>1, <1>2, SectionsLaidOut
<1>6. PICK T : T = Characters
    OBVIOUS
<1>7. PICK P : P = PageAt
    OBVIOUS
<1>8. PICK S : S = Sections
    OBVIOUS
<1>9. ChunkInv' /\ TextInv(T, P)'
  <2>1. T \subseteq Nat
    BY <1>2, <1>6, CharacterLine
  <2>2. PhaseInv /\ OutputInv(T, P)
    BY <1>2, <1>6, <1>7 DEF TextInv
  <2>3. Split(S)
    BY <1>1, <1>8
  <2>4. /\ Len(S) \in Nat
        /\ \A k \in 1 .. Len(S) : IsSection(S[k]) /\ SectionOf(T, P, S[k])
        /\ \A k, l \in 1 .. Len(S) : k < l => S[k].to < S[l].from
        /\ \A k \in 1 .. Len(S), l \in 1 .. Len(S), x \in T :
                l = k + 1 => ~(S[k].to < x /\ x < S[l].from)
    BY <1>5, <1>6, <1>7, <1>8 DEF Sheets
  <2> QED
    BY <1>1, <1>2, <1>3, <2>1, <2>2, <2>3, <2>4, SplitStarts
<1>10. TextInv(Characters, PageAt)'
  <2>1. T = Characters' /\ P = PageAt'
    BY <1>4, <1>6, <1>7
  <2> QED
    BY <1>9, <2>1
<1>11. IdleInv'
  <2>1. PagesOf' = PagesOf
    BY <1>4 DEF PagesOf, All
  <2> QED
    BY <1>1, <1>2, <2>1 DEF IdleInv, Parsers
<1>12. LinesInv'
  <2>1. \A i \in Kept : HandedOver(i)'
    BY <1>1 DEF HandedOver, Parsers
  <2>2. ChunkPhase'
    BY <1>1 DEF ChunkPhase
  <2>3. \A i \in Kept : \A x \in Start(i) .. End(i) :
             \E k \in 1 .. Len(batch') : Within(x, batch'[k])
    BY <1>1, <1>5 DEF Sheets
  <2> QED
    BY <1>4, <2>1, <2>2, <2>3 DEF LinesInv
<1> QED
    BY <1>1, <1>2, <1>9, <1>10, <1>11, <1>12 DEF ParsingInv

(* A page of an OCR run is behind the pages that are still to be read.       *)
LEMMA ReadPageParses ==
    ASSUME ParsingInv, ReadPage
    PROVE  ParsingInv'
<1> DEFINE p == Min(pages)
           I == ScanOf(p)
<1>1. /\ parser = "ocr" /\ phase \in {"idle", "done"} /\ pages # {}
      /\ pages' = pages \ {p}
      /\ UNCHANGED <<file, parser, others>>
      /\ IF I # {} THEN Split(<<AsSection(I)>>) ELSE UNCHANGED chunkVars
    BY DEF ReadPage
<1>2. file \in Files /\ IdleInv /\ ChunkInv /\ TextInv(Characters, PageAt) /\ LinesInv
    BY DEF ParsingInv
<1>3. /\ Kept' = Kept /\ Lines' = Lines
      /\ \A i : Start(i)' = Start(i) /\ End(i)' = End(i)
      /\ Characters' = Characters /\ PageAt' = PageAt
    BY <1>1, SameFile
<1>4. PagesOf' = PagesOf /\ PagesOf \subseteq Nat
  <2>1. \A i \in All : Lines[i].page \in Nat
    BY <1>2, LinesTyped
  <2> QED
    BY <1>3, <2>1 DEF PagesOf, All
<1>5. p \in pages /\ p \in PagesOf /\ \A q \in pages : p <= q
    BY <1>1, <1>2, <1>4, MinIsLeast DEF IdleInv
<1> HIDE DEF p, I
<1>6. \A i \in Kept : Lines[i].page = p <=> i \in I
  <2>1. \A i \in Kept : i \in ScanOf(Lines[i].page)
    BY <1>1, OcrLines
  <2>2. \A i \in I : Lines[i].page = p
    BY DEF I, ScanOf, Trimmed
  <2> QED
    BY <2>1, <2>2 DEF I
<1>7. I \in SUBSET Kept
    BY <1>1, <1>5 DEF I, Kept, IsMarkdown
<1>8. \A i : /\ HandedOver(i) <=> Lines[i].page \notin pages
             /\ HandedOver(i)' <=> Lines[i].page \notin pages \/ Lines[i].page = p
    BY <1>1, <1>3 DEF HandedOver
<1>9. ~ChunkPhase
    BY <1>1 DEF ChunkPhase
<1>10. PICK T : T = Characters
    OBVIOUS
<1>11. PICK P : P = PageAt
    OBVIOUS
<1>12. T = Characters' /\ P = PageAt' /\ TextInv(T, P)
    BY <1>2, <1>3, <1>10, <1>11
<1>13. CASE I = {}
  <2>1. UNCHANGED <<batch, at, para, offset, buffer, chunks, phase, output>>
    BY <1>1, <1>13 DEF chunkVars
  <2>2. TextInv(Characters, PageAt)'
    <3>1. TextInv(T, P)'
      BY <1>1, <1>12, <1>13, StutterKeeps
    <3> QED
      BY <1>12, <3>1
  <2>3. ChunkInv'
    BY <1>1, <1>2, <1>13, ChunkInvStep
  <2>4. IdleInv'
    BY <1>1, <1>2, <1>4, <2>1 DEF IdleInv
  <2>5. \A i \in Kept : HandedOver(i)' <=> HandedOver(i)
    BY <1>6, <1>8, <1>13
  <2>6. LinesInv'
    <3>1. ASSUME NEW i \in Kept
          PROVE  IF HandedOver(i)'
                 THEN \A x \in Start(i) .. End(i) : Caught(output', x)
                 ELSE /\ \A k \in 1 .. Len(batch')  : batch'[k].to < Start(i)
                      /\ \A k \in 1 .. Len(output') : output'[k].from < Start(i)
      BY <1>2, <1>9, <2>1, <2>5 DEF LinesInv
    <3> QED
      BY <1>3, <3>1 DEF LinesInv
  <2> QED
    BY <1>1, <1>2, <2>2, <2>3, <2>4, <2>6 DEF ParsingInv
<1>14. CASE I # {}
  <2> DEFINE S0 == <<AsSection(I)>>
  <2>1. Sheets(S0, I)
    BY <1>1, <1>2, <1>5, <1>14, PageLaidOut DEF I
  <2>2. Split(S0)
    BY <1>1, <1>14
  <2> HIDE DEF S0
  <2>3. batch' = S0 /\ phase' = "splitting" /\ output' = output
    BY <2>2 DEF Split
  <2>4. \A i \in I : i \in Kept /\ ~HandedOver(i) /\ HandedOver(i)'
    BY <1>5, <1>6, <1>7, <1>8
  <2>5. PICK S : S = S0
    OBVIOUS
  <2>6. \A k \in 1 .. Len(output), l \in 1 .. Len(S) : output[k].from < S[l].from
    BY <1>2, <2>1, <2>4, <2>5 DEF Sheets, LinesInv
  <2>7. ChunkInv' /\ TextInv(T, P)'
    <3>1. T \subseteq Nat
      BY <1>2, <1>10, CharacterLine
    <3>2. PhaseInv /\ OutputInv(T, P)
      BY <1>12 DEF TextInv
    <3>3. /\ Len(S) \in Nat
          /\ \A k \in 1 .. Len(S) : IsSection(S[k]) /\ SectionOf(T, P, S[k])
          /\ \A k, l \in 1 .. Len(S) : k < l => S[k].to < S[l].from
          /\ \A k \in 1 .. Len(S), l \in 1 .. Len(S), x \in T :
                  l = k + 1 => ~(S[k].to < x /\ x < S[l].from)
      BY <1>10, <1>11, <2>1, <2>5 DEF Sheets
    <3>4. Split(S)
      BY <2>2, <2>5
    <3> QED
      BY <1>1, <1>2, <2>6, <3>1, <3>2, <3>3, <3>4, SplitStarts
  <2>8. TextInv(Characters, PageAt)'
    BY <1>12, <2>7
  <2>9. IdleInv'
    BY <1>1, <1>2, <1>4, <2>3 DEF IdleInv
  <2>10. ASSUME NEW i \in Kept, HandedOver(i)', NEW x \in Start(i) .. End(i)
         PROVE  Caught(output', x) \/ \E k \in 1 .. Len(batch') : Within(x, batch'[k])
    <3>1. CASE i \in I
      BY <2>1, <2>3, <3>1 DEF Sheets
    <3>2. CASE i \notin I
      <4>1. HandedOver(i)
        BY <1>6, <1>8, <2>10, <3>2
      <4> QED
        BY <1>2, <1>9, <2>3, <4>1 DEF LinesInv
    <3> QED
      BY <3>1, <3>2
  <2>11. ASSUME NEW i \in Kept, ~HandedOver(i)'
         PROVE  /\ \A k \in 1 .. Len(batch')  : batch'[k].to < Start(i)
                /\ \A k \in 1 .. Len(output') : output'[k].from < Start(i)
    <3>1. ~HandedOver(i) /\ Lines[i].page \in pages /\ Lines[i].page # p
      BY <1>8, <2>11
    <3>2. \A k \in 1 .. Len(output') : output'[k].from < Start(i)
      BY <1>2, <2>3, <3>1 DEF LinesInv
    <3>3. ASSUME NEW j \in I PROVE End(j) < Start(i)
      <4>1. /\ j \in Kept /\ Lines[j].page = p
            /\ i \in Nat /\ j \in Nat /\ i \in All /\ j \in All
        BY <1>2, <1>6, <1>7, KeptTyped
      <4>2. Lines[i].page \in Nat /\ p \in Nat /\ p <= Lines[i].page
        BY <1>4, <1>5, <1>2, <3>1, <4>1, LinesTyped
      <4>3. ~(i <= j)
        <5>1. i <= j => Lines[i].page <= Lines[j].page
          BY <1>2, <4>1, LinesTyped
        <5> QED
          BY <3>1, <4>1, <4>2, <5>1
      <4>4. j < i
        BY <4>1, <4>3
      <4>5. End(j) \in Nat /\ Start(i) \in Nat /\ End(j) + 1 < Start(i)
        BY <1>2, <4>1, <4>4, StartsApart
      <4> QED
        BY <4>5
    <3>4. \A k \in 1 .. Len(batch') : batch'[k].to < Start(i)
      BY <2>1, <2>3, <3>3 DEF Sheets
    <3> QED
      BY <3>2, <3>4
  <2>12. LinesInv'
    <3>1. ChunkPhase'
      BY <2>3 DEF ChunkPhase
    <3> QED
      BY <1>3, <2>10, <2>11, <3>1 DEF LinesInv
  <2> QED
    BY <1>1, <1>2, <2>7, <2>8, <2>9, <2>12 DEF ParsingInv
<1> QED
    BY <1>13, <1>14

(* The steps of the chunking.                                                *)
LEMMA ChunkPhases ==
    ASSUME ChunkNext
    PROVE  ChunkPhase /\ phase' \in {"splitting", "overlapping", "done"}
BY DEF ChunkNext, ChunkPhase, Splitting, OpenLarge, TakeParagraph, TakeSlice, CloseLarge,
       Pack, Replace, Finish, ApplyOverlap

(* What has been handed over stays in the batch until it is returned.        *)
LEMMA ChunkParses ==
    ASSUME ParsingInv, ChunkNext, UNCHANGED parseVars
    PROVE  ParsingInv'
<1>1. /\ file \in Files /\ IdleInv /\ ChunkInv /\ TextInv(Characters, PageAt) /\ LinesInv
      /\ UNCHANGED <<file, parser, pages, others>>
    BY DEF ParsingInv, parseVars
<1>2. /\ Kept' = Kept /\ Lines' = Lines
      /\ \A i : Start(i)' = Start(i) /\ End(i)' = End(i)
      /\ Characters' = Characters /\ PageAt' = PageAt
    BY <1>1, SameFile
<1>3. ChunkPhase /\ phase' \in {"splitting", "overlapping", "done"}
    BY ChunkPhases
<1>4. ChunkInv'
    BY <1>1, ChunkInvStep
<1>5. PICK T : T = Characters
    OBVIOUS
<1>6. PICK P : P = PageAt
    OBVIOUS
<1>7. T = Characters' /\ P = PageAt' /\ TextInv(T, P) /\ T \subseteq Nat
    BY <1>1, <1>2, <1>5, <1>6, CharacterLine
<1>8. TextInv(T, P)'
    BY <1>1, <1>7, TextStep
<1>9. /\ batch' = batch
      /\ Len(output) \in Nat /\ Len(output') \in Nat /\ Len(output) <= Len(output')
      /\ \A k \in 1 .. Len(output) : output'[k] = output[k]
      /\ \A k \in 1 .. Len(output') : k > Len(output) =>
           \E l \in 1 .. Len(batch) : Within(output'[k].from, batch[l])
    BY <1>1, <1>7, OutputStep
<1>10. TextInv(Characters, PageAt)'
    BY <1>7, <1>8
<1>11. IdleInv'
  <2>1. PagesOf' = PagesOf
    BY <1>2 DEF PagesOf, All
  <2> QED
    BY <1>1, <1>3, <2>1 DEF IdleInv, ChunkPhase
<1>12. \A i : HandedOver(i)' <=> HandedOver(i)
    BY <1>1, <1>2, <1>3 DEF HandedOver, ChunkPhase
<1>13. ASSUME NEW i \in Kept, HandedOver(i), NEW x \in Start(i) .. End(i)
       PROVE  \/ Caught(output', x)
              \/ ChunkPhase' /\ \E k \in 1 .. Len(batch') : Within(x, batch'[k])
  <2>1. CASE Caught(output, x)
    <3>1. PICK k \in 1 .. Len(output) : Within(x, output[k])
      BY <2>1 DEF Caught
    <3>2. k \in 1 .. Len(output') /\ Within(x, output'[k])
      BY <1>9, <3>1
    <3> QED
      BY <3>2 DEF Caught
  <2>2. CASE \E k \in 1 .. Len(batch) : Within(x, batch[k])
    <3>1. CASE phase' = "done"
      <4>1. x \in T
        BY <1>1, <1>5, CharacterLine
      <4>2. DoneInv(T)'
        BY <1>8 DEF TextInv
      <4> QED
        BY <1>9, <2>2, <3>1, <4>1, <4>2 DEF DoneInv
    <3>2. CASE phase' # "done"
      BY <1>3, <1>9, <2>2, <3>2 DEF ChunkPhase
    <3> QED
      BY <3>1, <3>2
  <2> QED
    BY <1>1, <1>13, <2>1, <2>2 DEF LinesInv
<1>14. ASSUME NEW i \in Kept, ~HandedOver(i)
       PROVE  /\ \A k \in 1 .. Len(batch')  : batch'[k].to < Start(i)
              /\ \A k \in 1 .. Len(output') : output'[k].from < Start(i)
  <2>1. /\ \A k \in 1 .. Len(batch)  : batch[k].to < Start(i)
        /\ \A k \in 1 .. Len(output) : output[k].from < Start(i)
    BY <1>1, <1>14 DEF LinesInv
  <2>2. ASSUME NEW k \in 1 .. Len(output') PROVE output'[k].from < Start(i)
    <3>1. CASE k <= Len(output)
      BY <1>9, <2>1, <3>1
    <3>2. CASE k > Len(output)
      <4>1. PICK l \in 1 .. Len(batch) : Within(output'[k].from, batch[l])
        BY <1>9, <3>2
      <4>2. batch[l].to \in Nat /\ Start(i) \in Nat
        BY <1>1, StartsApart DEF ChunkInv, BatchOK, IsSection, IsText
      <4>3. output'[k].from \in Nat
        <5>1. output'[k] \in Bounded(MaxChars + MaxTail)
          BY <1>4 DEF ChunkInv, ResultOK
        <5> QED
          BY <5>1 DEF Bounded
      <4> QED
        BY <2>1, <4>1, <4>2, <4>3 DEF Within
    <3>3. k \in Nat
      BY <1>9
    <3> QED
      BY <1>9, <3>1, <3>2, <3>3
  <2> QED
    BY <1>9, <2>1, <2>2
<1>15. LinesInv'
    BY <1>2, <1>12, <1>13, <1>14 DEF LinesInv
<1> QED
    BY <1>1, <1>4, <1>10, <1>11, <1>15 DEF ParsingInv

(* Every step of the run keeps it.                                           *)
LEMMA ParsingStep == ParsingInv /\ [Next]_vars => ParsingInv'
<1> SUFFICES ASSUME ParsingInv, [Next]_vars PROVE ParsingInv'
    OBVIOUS
<1>1. CASE UNCHANGED vars
  <2>1. /\ UNCHANGED <<file, parser, pages>> /\ UNCHANGED chunkVars
        /\ UNCHANGED <<batch, at, para, offset, buffer, chunks, phase, output>>
    BY <1>1 DEF vars, parseVars, chunkVars
  <2>2. /\ file \in Files /\ IdleInv /\ ChunkInv /\ TextInv(Characters, PageAt) /\ LinesInv
    BY DEF ParsingInv
  <2>3. /\ Kept' = Kept /\ Lines' = Lines
        /\ \A i : Start(i)' = Start(i) /\ End(i)' = End(i)
        /\ Characters' = Characters /\ PageAt' = PageAt
    BY <2>1, SameFile
  <2>4. PICK T : T = Characters
    OBVIOUS
  <2>5. PICK P : P = PageAt
    OBVIOUS
  <2>6. TextInv(T, P)'
    BY <2>1, <2>2, <2>4, <2>5, StutterKeeps
  <2>7. TextInv(Characters, PageAt)'
    BY <2>3, <2>4, <2>5, <2>6
  <2>8. ChunkInv'
    BY <2>1, <2>2, ChunkInvStep
  <2>9. IdleInv'
    BY <2>1, <2>2, <2>3 DEF IdleInv, PagesOf, All
  <2>10. LinesInv'
    BY <2>1, <2>2, <2>3 DEF LinesInv, HandedOver, ChunkPhase
  <2> QED
    BY <2>1, <2>2, <2>7, <2>8, <2>9, <2>10 DEF ParsingInv
<1> QED
    BY <1>1, ChoosePlanParses, FindSectionsParses, ReadPageParses, ChunkParses DEF Next

-----------------------------------------------------------------------------
(* What the run promises *)

(* The parser has kept the lines that a reader expects.                      *)
LEMMA ExpectedKept ==
    ASSUME file \in Files, parser \in Parsers \cup {"ocr"}, NEW i \in Expected, ~Blank(i)
    PROVE  i \in Kept
<1>1. i \in All /\ i \in Nat /\ i <= i /\ Lines[i].page \in PagesOf
  <2>1. i \in All
    BY DEF Expected
  <2> QED
    BY <2>1, LinesTyped DEF PagesOf
<1>2. ASSUME NEW J, i \in J PROVE i \in Trimmed(J)
    BY <1>1, <1>2 DEF Trimmed
<1>3. Lines[i].scan => i \in ScanOf(Lines[i].page)
    BY <1>1, <1>2 DEF ScanOf
<1>4. CASE parser = "ocr"
    BY <1>1, <1>3, <1>4 DEF Expected, Kept, IsMarkdown
<1>5. CASE parser = "pdf"
  <2>1. CASE Layer(i)
    <3>1. i \in LayerOf(Lines[i].page)
      BY <1>1, <2>1 DEF LayerOf
    <3>2. i \in PdfLines(Lines[i].page)
      BY <3>1 DEF PdfLines
    <3> QED
      BY <1>1, <1>5, <3>2 DEF Kept, IsMarkdown
  <2>2. CASE Lines[i].scan /\ UsesOcr(Lines[i].page) /\ LayerOf(Lines[i].page) = {}
    <3>1. i \in PdfLines(Lines[i].page)
      BY <1>3, <2>2 DEF PdfLines
    <3> QED
      BY <1>1, <1>5, <3>1 DEF Kept, IsMarkdown
  <2> QED
    BY <1>5, <2>1, <2>2 DEF Expected
<1>6. CASE parser = "unstructured"
    BY <1>1, <1>6 DEF Expected, Kept, IsMarkdown
<1>7. CASE parser = "simple"
  <2>1. i \in Trimmed(All)
    BY <1>1, <1>2
  <2> QED
    BY <1>1, <1>7, <2>1 DEF Kept
<1> QED
    BY <1>4, <1>5, <1>6, <1>7 DEF Parsers

(* Every document, whatever its lines and the limits: no character of an     *)
(* expected line is lost (chunking.py, pdf.py, simple.py).                   *)
THEOREM TextIsKept == Spec => []TextKept
<1>1. ParsingInv => TextKept
  <2> SUFFICES ASSUME ParsingInv PROVE TextKept
      OBVIOUS
  <2>1. file \in Files /\ ChunkInv /\ LinesInv /\ OutputInv(Characters, PageAt)
    BY DEF ParsingInv, TextInv
  <2>2. ASSUME Parsed, NEW i \in Expected, ~Blank(i)
        PROVE  i \in Kept /\ \A x \in Start(i) .. End(i) :
                                 \E k \in 1 .. Len(output) : Within(x, output[k])
    <3>1. i \in Kept
      BY <2>1, <2>2, ExpectedKept DEF Parsed
    <3>2. HandedOver(i) /\ ~ChunkPhase
      BY <2>2 DEF Parsed, HandedOver, ChunkPhase
    <3>3. \A x \in Start(i) .. End(i) : Caught(output, x)
      BY <2>1, <3>1, <3>2 DEF LinesInv
    <3> QED
      BY <3>1, <3>3 DEF Caught
  <2>3. ASSUME NEW k \in 2 .. Len(output) PROVE output[k - 1].from < output[k].from
    <3>1. Len(output) \in Nat
      BY <2>1 DEF ChunkInv, ResultOK
    <3>2. k - 1 \in 1 .. Len(output) /\ k \in 1 .. Len(output) /\ k - 1 < k
      BY <3>1
    <3> QED
      BY <2>1, <3>2 DEF OutputInv, Rising
  <2> QED
    BY <2>2, <2>3 DEF TextKept
<1> QED
    BY <1>1, ParsingInit, ParsingStep, PTL DEF Spec

(* No chunk names a page that part of its own text is not on.                *)
THEOREM PagesAreHonest == Spec => []PagesHonest
<1>1. ParsingInv => PagesHonest
  <2> SUFFICES ASSUME ParsingInv, NEW k \in 1 .. Len(output), output[k].page # NoPage,
                      NEW i \in Kept, ~Blank(i),
                      Start(i) <= output[k].to, End(i) >= output[k].from
               PROVE  Lines[i].page = output[k].page
      BY DEF PagesHonest
  <2> DEFINE c == output[k]
             x == IF Start(i) <= c.from THEN c.from ELSE Start(i)
  <2>1. file \in Files /\ ChunkInv /\ OutputInv(Characters, PageAt)
    BY DEF ParsingInv, TextInv
  <2>2. Start(i) \in Nat /\ End(i) \in Nat /\ Start(i) <= End(i)
    BY <2>1, StartsApart
  <2>3. c.from \in Nat /\ c.to \in Nat
    <3>1. c \in Bounded(MaxChars + MaxTail)
      BY <2>1 DEF ChunkInv, ResultOK
    <3> QED
      BY <3>1 DEF Bounded
  <2>4. c.from <= c.to /\ Honest(Characters, PageAt, c)
    BY <2>1 DEF OutputInv
  <2> HIDE DEF c
  <2>5. x \in Start(i) .. End(i) /\ c.from <= x /\ x <= c.to
    BY <2>2, <2>3, <2>4 DEF c
  <2> HIDE DEF x
  <2>6. x \in Characters /\ PageAt[x] = Lines[i].page
    BY <2>1, <2>5, CharacterLine
  <2> QED
    BY <2>4, <2>5, <2>6 DEF Honest, Within, c
<1> QED
    BY <1>1, ParsingInit, ParsingStep, PTL DEF Spec

(* The chunks of a document are as short as those of any other call of       *)
(* split_by_sections.                                                        *)
THEOREM DocumentChunksBounded == Spec => []ChunksBounded
<1>1. ParsingInv => ChunkInv
    BY DEF ParsingInv
<1> QED
    BY <1>1, ChunksFit, ParsingInit, ParsingStep, PTL DEF Spec
=============================================================================
