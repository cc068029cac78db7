---------------------------- MODULE DocumentParsing ----------------------------
(***************************************************************************)
(* From an uploaded file to its text chunks: the ingest plan               *)
(* (planner/ingest.py), the dispatch on it (ingest/parser.py), the parsers *)
(* for plain text and markdown, for PDF with or without OCR, and for what  *)
(* the unstructured library reads (ingest/parsers), and the chunking of    *)
(* the sections they find.                                                 *)
(*                                                                         *)
(* A document is a sequence of lines (elements, for unstructured): its     *)
(* kind, its length, 0 for a blank line, its page, and whether it is in    *)
(* the text layer or only an OCR run reads it.  A parser keeps some of the *)
(* lines and cuts between them; kept lines are joined by a newline.        *)
(***************************************************************************)
EXTENDS Chunking, FiniteSetsExt

CONSTANTS
    Files,       (* [mime, override, extension, lines]                      *)
    OcrThreshold (* OCR_TEXT_THRESHOLD                                      *)

(* Documents are read page by page.                                          *)
ASSUME FilesAssumption ==
    /\ Pages \subseteq Nat
    /\ \A f \in Files :
         /\ f.lines \in Seq([kind : {"text", "heading", "table", "image"}, len : Nat,
                              page : Pages, scan : BOOLEAN])
         /\ \A i, j \in DOMAIN f.lines : i <= j => f.lines[i].page <= f.lines[j].page

VARIABLES
    file,
    parser,      (* selected_parser and pdf_mode, or why there is none      *)
    pages,       (* WITH_OCR: pages still to be read                        *)
    others       (* tables and images, which become chunks of their own     *)

parseVars == <<file, parser, pages, others>>
vars      == <<chunkVars, parseVars>>

Lines == file.lines

All == 1 .. Len(Lines)

Blank(i) == Lines[i].len = 0

Kind(i) == Lines[i].kind

(* Text of the layer; a table or an image is no line of it.                  *)
Layer(i) == ~Lines[i].scan /\ Kind(i) \in {"text", "heading"}

PagesOf == {Lines[i].page : i \in All}

-----------------------------------------------------------------------------
(* planner/ingest.py, parser.py *)

Parsers == {"simple", "pdf", "unstructured"}

(* An override is taken at its word; a file is classified by the MIME type   *)
(* guessed from its name.                                                    *)
Plan(f) ==
    CASE f.override = "ocr"     -> "ocr"
      [] f.override = "mineru"  -> "ParseError"
      [] f.override \in Parsers -> f.override
      [] f.override # "none"    -> "ValueError"
      [] f.mime = "pdf"         -> "pdf"
      [] f.mime \in {"plain", "markdown"} -> "simple"
      [] OTHER                  -> "unstructured"

(* A stored file is parsed from a temporary copy without an extension; only  *)
(* the path of a legacy job has one.                                         *)
IsMarkdown == parser = "simple" /\ file.extension = "md"

-----------------------------------------------------------------------------
(* What the parsers keep, and where they cut *)

Trimmed(I) == {i \in I : /\ \E j \in I : j <= i /\ ~Blank(j)
                         /\ \E j \in I : i <= j /\ ~Blank(j)}

TextLength(I) ==
    MapThenSumSet(LAMBDA i : Lines[i].len, I) + (IF I = {} THEN 0 ELSE Cardinality(I) - 1)

LayerOf(p) == {i \in All : Lines[i].page = p /\ Layer(i)}
ScanOf(p)  == Trimmed({i \in All : Lines[i].page = p /\ Lines[i].scan})

(* The page has too little text of its own, and OCR finds enough.            *)
UsesOcr(p) ==
    /\ TextLength(Trimmed(LayerOf(p))) < OcrThreshold
    /\ TextLength(ScanOf(p)) >= OcrThreshold

(* The page text, OCR or not, counts only if there is no line in the layer.  *)
PdfLines(p) ==
    IF LayerOf(p) # {} THEN LayerOf(p)
    ELSE IF UsesOcr(p) THEN ScanOf(p) ELSE {}

Kept ==
    CASE parser = "pdf"          -> UNION {PdfLines(p) : p \in PagesOf}
      [] parser = "ocr"          -> UNION {ScanOf(p) : p \in PagesOf}
      [] parser = "unstructured" -> {i \in All : ~Blank(i) /\ Layer(i)}
      [] IsMarkdown              -> Trimmed(All)
      [] OTHER                   -> {i \in All : ~Blank(i)}

FirstOfPage(i) == \A j \in Kept : j < i => Lines[j].page # Lines[i].page

(* An element in between that is not text, or two blank lines.               *)
BreakBefore(i) ==
    CASE parser = "pdf"          -> FALSE
      [] parser = "unstructured" -> \E j \in All : /\ j < i /\ ~Blank(j) /\ j \notin Kept
                                                   /\ \A k \in j + 1 .. i - 1 : Blank(k)
      [] IsMarkdown              -> FALSE
      [] OTHER                   -> i > 2 /\ Blank(i - 1) /\ Blank(i - 2)

Cuts == {i \in Kept : FirstOfPage(i) \/ (Kind(i) = "heading" /\ ~Blank(i)) \/ BreakBefore(i)}

(* A line's place among the lines that are kept, each followed by a newline. *)
Start(i) == 1 + MapThenSumSet(LAMBDA j : Lines[j].len + 1, {j \in Kept : j < i})
End(i)   == (Start(i) + Lines[i].len) - 1

(* A section or paragraph: consecutive kept lines.                           *)
Interval(I) == [from |-> Start(Min(I)), to |-> End(Max(I))]

(* The groups of lines of I that each begin at one of the starts: line i is  *)
(* in the group of the last start that is not after it.                      *)
Groups(I, starts) ==
    [k \in 1 .. Cardinality(starts) |-> {i \in I : Cardinality({t \in starts : t <= i}) = k}]

(* Blank lines inside a section separate its paragraphs.                     *)
ParagraphsOf(I) ==
    LET full   == {i \in I : ~Blank(i)}
        starts == {i \in full : \A j \in I : j < i /\ ~Blank(j) => \E k \in j + 1 .. i - 1 : k \in I}
    IN  IF full = I THEN <<>>
        ELSE LET groups == Groups(full, starts)
             IN  [k \in 1 .. Len(groups) |-> Interval(groups[k])]

AsSection(I) ==
    [from  |-> Interval(I).from, to |-> Interval(I).to,
     paras |-> ParagraphsOf(I),
     page  |-> IF parser = "pdf" \/ parser = "ocr" THEN Lines[Min(I)].page ELSE NoPage]

Sections ==
    LET groups == Groups(Kept, Cuts)
    IN  [k \in 1 .. Len(groups) |-> AsSection(groups[k])]

-----------------------------------------------------------------------------
(* The run *)

Init ==
    /\ file \in Files
    /\ parser = "none"
    /\ pages = {} /\ others = {}
    /\ batch = <<>> /\ at = 1 /\ para = 0 /\ offset = 0
    /\ buffer = NoBuffer
    /\ chunks = <<>> /\ output = <<>>
    /\ phase = "idle"

(* create_source_plan and the dispatch of parse_document.                    *)
ChoosePlan ==
    /\ parser = "none"
    /\ parser' = Plan(file)
    /\ pages' = IF parser' = "ocr" THEN PagesOf ELSE {}
    /\ UNCHANGED <<chunkVars, file, others>>

Split(sections) ==
    /\ batch' = sections
    /\ at' = 1
    /\ chunks' = <<>>
    /\ phase' = "splitting"
    /\ UNCHANGED <<para, offset, buffer, output>>

(* Tables are skipped on a PDF page that was read by OCR; an element without *)
(* a text is skipped whatever it is.                                         *)
Taken(i) ==
    \/ parser = "pdf" /\ Kind(i) = "image"
    \/ parser = "pdf" /\ Kind(i) = "table" /\ ~UsesOcr(Lines[i].page)
    \/ parser = "unstructured" /\ Kind(i) \in {"image", "table"} /\ ~Blank(i)

(* parse_simple, parse_pdf and parse_unstructured up to the chunking.        *)
FindSections ==
    /\ parser \in Parsers
    /\ phase = "idle"
    /\ Split(Sections)
    /\ others' = {i \in All : Taken(i)}
    /\ UNCHANGED <<file, parser, pages>>

(* One page of _parse_pdf_ocr: its text is chunked by itself.                *)
ReadPage ==
    /\ parser = "ocr"
    /\ phase \in {"idle", "done"}
    /\ pages # {}
    /\ LET p == Min(pages) IN
         /\ pages' = pages \ {p}
         /\ IF ScanOf(p) # {} THEN Split(<<AsSection(ScanOf(p))>>)
                              ELSE UNCHANGED chunkVars
    /\ UNCHANGED <<file, parser, others>>

Next == ChoosePlan \/ FindSections \/ ReadPage \/ (ChunkNext /\ UNCHANGED parseVars)

Spec == Init /\ [][Next]_vars

-----------------------------------------------------------------------------
(* Properties *)

Parsed ==
    /\ parser \in Parsers \cup {"ocr"}
    /\ phase = "done" \/ (parser = "ocr" /\ phase = "idle")
    /\ pages = {}

(* The lines a reader of the docstrings expects in the chunks: the text of   *)
(* the layer, and what OCR finds on a page that has none; under the override *)
(* "ocr" all that OCR finds.                                                 *)
Expected ==
    IF parser = "ocr" THEN {i \in All : Lines[i].scan}
    ELSE {i \in All : \/ Layer(i)
                      \/ /\ parser = "pdf" /\ Lines[i].scan
                         /\ UsesOcr(Lines[i].page)
                         /\ LayerOf(Lines[i].page) = {}}

Within(x, c) == c.from <= x /\ x <= c.to

(* No text is lost and none is out of order: every character of every        *)
(* expected line is in a chunk, whatever is packed, broken or sliced, and    *)
(* chunks follow the document (chunking.py:61).  "with OCR fallback for      *)
(* scanned pages" (pdf.py:134) holds only for pages without any line of      *)
(* text: one line, such as a page number, and what OCR found is dropped      *)
(* (pdf.py:177).                                                             *)
TextKept ==
    /\ Parsed =>
        \A i \in Expected : ~Blank(i) =>
            i \in Kept /\ \A x \in Start(i) .. End(i) :
                              \E k \in 1 .. Len(output) : Within(x, output[k])
    /\ \A k \in 2 .. Len(output) : output[k - 1].from < output[k].from

(* A chunk that names a page has, before its overlap, only text of that      *)
(* page; a chunk packed from two pages names none (chunking.py:94).          *)
PagesHonest ==
    Parsed =>
        \A k \in 1 .. Len(output) : output[k].page # NoPage =>
            \A i \in Kept :
                ~Blank(i) /\ Start(i) <= output[k].to /\ End(i) >= output[k].from =>
                    Lines[i].page = output[k].page
=============================================================================
