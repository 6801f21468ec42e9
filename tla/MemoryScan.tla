----------------------------- MODULE MemoryScan -----------------------------
(***************************************************************************)
(* The scanners: for a word in writable memory, for pointers into a        *)
(* window, for a pattern in a module.  A region is read in windows, one    *)
(* read after the other.                                                   *)
(*                                                                         *)
(*   src/crates/batman-lod-dll/src/ops/heap_scan.rs, aob_scan.rs  "ue5"    *)
(*   src/crates/glacier-007-dll/src/scan.rs              "glacier", "aob"  *)
(*   src/crates/discover/src/pointer_scan.rs                   "pointers"  *)
(*   src/crates/core/src/pattern.rs                                        *)
(*                                                                         *)
(* Memory is a sequence of bytes from an address that starts a page; the   *)
(* widths of a word (8), a page (4096) and a window (4 MiB, 256 KiB) are   *)
(* constants, a window being a whole number of pages, a page of words.     *)
(***************************************************************************)
EXTENDS Naturals, Sequences, FiniteSets

CONSTANTS
    Word, Page, Window,
    Aligns,      \* the alignments a caller may set, small against a window
    Longest      \* bound: the bytes of the region

ASSUME ScanAssumption ==
    /\ {Word, Page, Window, Longest} \subseteq Nat \ {0}
    /\ Page % Word = 0 /\ Window % Page = 0 /\ Window > Word
    /\ Aligns \subseteq Nat \ {0} /\ Word \in Aligns
    /\ \A m \in Aligns : m + Word <= Window + 1

VARIABLES
    region,  \* its bytes, and the pages of it that can be read
    request, \* which scanner, its alignment, what it looks for
    scan     \* how far it is, what it has found, has it ended, what the feature is bound to

scanVars == <<region, request, scan>>

Bytes == {0, 1}
Wild == 2
Size == Len(region.bytes)
ByteAt(a) == region.bytes[a + 1]
PagesOf(n) == 0 .. (n - 1) \div Page
ReadableAll(from, n) == \A a \in from .. from + n - 1 : a \div Page \in region.readable

Needle == [i \in 0 .. Word - 1 |-> IF i = 0 THEN 1 ELSE 0]
HoldsNeedle(a) == \A i \in 0 .. Word - 1 : ByteAt(a + i) = Needle[i]

Patterns == UNION {[0 .. n -> Bytes \cup {Wild}] : n \in 0 .. Word}
Literals(pattern) == {i \in DOMAIN pattern : pattern[i] # Wild}

Scanners == {"ue5", "glacier", "pointers", "aob"}

ScanTypeOK ==
    /\ region \in [bytes : Seq(Bytes), readable : SUBSET PagesOf(Longest)]
    /\ request \in [by : Scanners \cup {"none"}, align : Aligns, pattern : Patterns]
    /\ scan \in [at : 0 .. Longest, hits : SUBSET (0 .. Longest), done : BOOLEAN,
                 bound : SUBSET (0 .. Longest)]
    /\ Cardinality(scan.bound) <= 1

NoScan == [at |-> 0, hits |-> {}, done |-> TRUE, bound |-> {}]

ScanInit ==
    /\ region = [bytes |-> << >>, readable |-> {}]
    /\ request = [by |-> "none", align |-> Word, pattern |-> [i \in {0} |-> Wild]] /\ scan = NoScan

\* A scanner is asked for something, and comes to a region.  A page of a listed
\* region may have gone by the time it is read.
Asks ==
    /\ request.by = "none"
    /\ \E by \in Scanners, align \in Aligns, pattern \in Patterns :
         /\ IF by = "aob" THEN Literals(pattern) # {} /\ align = Word
            ELSE pattern = request.pattern
         /\ request' = [by |-> by, align |-> align, pattern |-> pattern]
         /\ \E n \in {Longest - 1, Longest}, gone \in SUBSET PagesOf(Longest) :
              /\ Cardinality(gone) <= 1 /\ (by = "aob" => gone = {})
              /\ region' \in [bytes : [1 .. n -> Bytes], readable : {PagesOf(n) \ gone}]
    /\ scan' = [NoScan EXCEPT !.done = FALSE]

-----------------------------------------------------------------------------

Least(a, b) == IF a < b THEN a ELSE b
Most(a, b) == IF a > b THEN a ELSE b

\* The places from start on, step apart, at which a word fits into n bytes.
Steps(start, step, n) == {i \in start .. n - 1 : i + Word <= n /\ (i - start) % step = 0}

Goes(on, hits) ==
    scan' = [scan EXCEPT !.at = Least(on, Size), !.hits = @ \cup hits, !.done = on >= Size]
Stops == scan' = [scan EXCEPT !.done = TRUE]

Scanning(by) == request.by = by /\ ~scan.done /\ UNCHANGED <<region, request>>

\* heap_scan::scan: windows overlap by a word less one byte, and a window is
\* searched from its own first byte.
Ue5Window ==
    /\ Scanning("ue5")
    /\ LET n == Least(Size - scan.at, Window)
           on == IF scan.at + n < Size THEN n - (Word - 1) ELSE n
           found == {i \in Steps(0, request.align, n) :
                       /\ HoldsNeedle(scan.at + i)
                       /\ request.align = Word \/ (scan.at + i) % request.align = 0}
       IN  IF ReadableAll(scan.at, n) THEN Goes(scan.at + on, {scan.at + i : i \in found}) ELSE Stops

\* search_span: stepping from the first byte of what was read.
SpanHits(from, to) ==
    {a \in from .. to - 1 :
       a + Word <= to /\ (a - from) % request.align = 0 /\ HoldsNeedle(a)}

\* A deliberate error: a window that cannot be read is skipped as a whole.
GlacierWindow_Skips ==
    /\ Scanning("glacier")
    /\ LET to == Least(scan.at + Window, Size)
       IN  Goes(to, IF ReadableAll(scan.at, to - scan.at) THEN SpanHits(scan.at, to) ELSE {})

\* scan_range: a window that cannot be read is read again page by page.
GlacierWindow ==
    /\ Scanning("glacier")
    /\ LET to == Least(scan.at + Window, Size)
           pages == {p \in region.readable : scan.at <= p * Page /\ p * Page < to}
       IN  Goes(to, IF ReadableAll(scan.at, to - scan.at) THEN SpanHits(scan.at, to)
                    ELSE UNION {SpanHits(p * Page, Least(p * Page + Page, to)) : p \in pages})

\* scan_for_pointers_to: the first aligned place is counted from the address.
PointerChunk ==
    /\ Scanning("pointers")
    /\ LET n == Least(Size - scan.at, Window)
           first == (request.align - (scan.at % request.align)) % request.align
           found == {i \in Steps(first, request.align, n) : HoldsNeedle(scan.at + i)}
       IN  IF n < Word \/ ~ReadableAll(scan.at, n) THEN Stops
           ELSE Goes(scan.at + Most(n - (Word - 1), request.align), {scan.at + i : i \in found})

\* Pattern::scan_all: the first literal byte is looked at first.
MatchesAt(pattern, a) == \A i \in Literals(pattern) : ByteAt(a + i) = pattern[i]
Anchor(pattern) == CHOOSE i \in Literals(pattern) : \A j \in Literals(pattern) : i <= j

PatternHits(pattern, from, to) ==
    {a \in from .. to - 1 :
       /\ a + Cardinality(DOMAIN pattern) <= to
       /\ ByteAt(a + Anchor(pattern)) = pattern[Anchor(pattern)] /\ MatchesAt(pattern, a)}

\* aob: the section .text first, here the second window, then the whole image.
TextFirst ==
    /\ Scanning("aob")
    /\ LET text == PatternHits(request.pattern, Least(Window, Size), Size)
           image == PatternHits(request.pattern, 0, Size)
       IN  Goes(Size, IF text # {} THEN text ELSE image)

-----------------------------------------------------------------------------
(* A feature with a heap_scan locator: the word it looks for tells the      *)
(* structure, a field behind it must be in its band.                        *)

\* validator_passes: the field behind the word can be read and is not garbage.
Passes(a) == a + Word < Size /\ ReadableAll(a + Word, 1) /\ ByteAt(a + Word) = 0

\* resolve_via_heap_scan: bound to the only survivor, an error if there are more.
Binds ==
    /\ request.by = "glacier" /\ scan.done /\ scan.bound = {}
    /\ LET survivors == {a \in scan.hits : Passes(a)}
       IN  Cardinality(survivors) = 1 /\ scan' = [scan EXCEPT !.bound = survivors]
    /\ UNCHANGED <<region, request>>

ScanNext == Asks \/ Ue5Window \/ GlacierWindow \/ PointerChunk \/ TextFirst \/ Binds

ScanSpec == ScanInit /\ [][ScanNext]_scanVars

-----------------------------------------------------------------------------

\* Every readable place that holds the word, and those a scan looks for.
Holding == {a \in 0 .. Size - Word : ReadableAll(a, Word) /\ HoldsNeedle(a)}
Words == {a \in Holding : a % request.align = 0}

\* Across two windows, or across two pages of a window with a hole.
Across(a) ==
    LET last == a + Word - 1
        from == (a \div Window) * Window
    IN  \/ a \div Window # last \div Window
        \/ /\ a \div Page # last \div Page
           /\ ~ReadableAll(from, Least(from + Window, Size) - from)

\* The pages around a hole, the last word of a window and the first of the next, a
\* tail shorter than a word.  scan_range (Glacier) finds nothing but the word, and all
\* of them at the alignment of a word, holes or not.  At another alignment that
\* "divides the page size" (search_span) it misses the words Across only; at one that
\* does not, nothing is said of what it misses.  What a feature is bound to, at the
\* alignment of a word, is the one place in memory that passes.  The pointer scan finds
\* all of them at any alignment, unless it stopped at a hole; a pattern that is in the
\* image is found.  Of the UE5 scan HeapScanComplete speaks.
ScanComplete ==
    scan.done =>
        /\ request.by \in {"glacier", "pointers"} => scan.hits \subseteq Holding
        /\ request.by = "glacier" /\ Page % request.align = 0 =>
             scan.hits \subseteq Words /\ \A a \in Words \ scan.hits : Across(a)
        /\ request.by = "glacier" /\ request.align = Word =>
             Words = scan.hits /\ \A b \in scan.bound : {a \in Words : Passes(a)} = {b}
        /\ request.by = "pointers" => scan.hits \subseteq Words
        /\ request.by = "pointers" /\ region.readable = PagesOf(Size) => Words \subseteq scan.hits
        /\ request.by = "aob" =>
             (scan.hits = {} <=> \A a \in 0 .. Size - 1 :
                 a + Cardinality(DOMAIN request.pattern) <= Size => ~MatchesAt(request.pattern, a))

\* heap_scan.rs:21 "Scan every RW page for aligned u64 values equal to `needle`", and
\* line 65 "a needle straddling the chunk boundary is still found": the UE5 scan finds
\* every aligned word of a region that can be read.
HeapScanComplete ==
    scan.done /\ request.by = "ue5" /\ region.readable = PagesOf(Size) => Words \subseteq scan.hits
=============================================================================
