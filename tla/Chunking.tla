------------------------------ MODULE Chunking ------------------------------
(* How the text of a notebook source becomes the chunks that chat cites      *)
(* (chunking.service.ts), and which page a chunk is shown on                 *)
(* (createChunksForSource).  Pages are trimmed and joined by two characters, *)
(* blank ones too, and the whole is trimmed; what lies between empty lines   *)
(* is a block.  The splitter takes NULs and carriage returns out of the text *)
(* first, and positions are those of what is left.  A character of a chunk   *)
(* is its position in the text, or Sep when the splitter has put it there.   *)
EXTENDS Integers, Sequences, FiniteSetsExt

CONSTANTS
    Lengths,    \* bound of the model: of blocks
    Gaps,       \* bound of the model: white space between blocks of a page
    MaxBlocks,  \* bound of the model
    MaxBlank,   \* bound of the model: blank pages in a row
    MaxExtra,   \* bound of the model: NULs and carriage returns of a text
    MaxChars,
    Overlap,
    MinChunk,   \* 40 in the code
    Missing

VARIABLES
    blocks,     \* the blocks met so far: where they are, on which page
    piece,      \* the text that is being put together, or Missing
    cursor,     \* where the next window of a long block begins, or Missing
    chunks,
    ended,      \* is the text at its end?
    pageStarts, \* where the pages stored so far begin
    extra       \* characters counted for that which the splitter took out

pageVars == <<pageStarts, extra>>
chunkVars == <<blocks, piece, cursor, chunks, ended, pageVars>>

Sep == -1
Blocks == [start : Nat, end : Nat, page : Nat \ {0}]
Pieces == [text : Seq(Int), start : Nat, end : Nat]

(* Blocks are not empty, with an empty line between them; a window reaches   *)
(* further than the one before, and what it adds is long enough.             *)
ASSUME ChunkAssumption ==
    /\ Lengths \subseteq Nat \ {0} /\ Gaps \subseteq Nat \ {0, 1}
    /\ MaxBlocks \in Nat /\ MaxBlank \in Nat /\ MaxExtra \in Nat
    /\ {MaxChars, Overlap, MinChunk} \subseteq Nat \ {0}
    /\ MinChunk <= Overlap /\ Overlap < MaxChars
    /\ Missing \notin Nat /\ Missing \notin Pieces

ChunkTypeOK ==
    /\ blocks \in Seq(Blocks)
    /\ piece \in {Missing} \cup Pieces
    /\ cursor \in {Missing} \cup Nat
    /\ chunks \in Seq(Pieces)
    /\ ended \in BOOLEAN
    /\ pageStarts \in Seq(Nat)
    /\ extra \in Nat

ChunkInit ==
    /\ blocks = <<>> /\ piece = Missing /\ cursor = Missing /\ chunks = <<>>
    /\ ended = FALSE /\ pageStarts = <<>> /\ extra = 0

LastBlock == blocks[Len(blocks)]

(* The blocks that may come next: on the same page, or after some others.    *)
Upcoming ==
    IF blocks = <<>>
    THEN {[start |-> 0, end |-> n, page |-> k + 1] : n \in Lengths, k \in 0..MaxBlank}
    ELSE LET last == LastBlock
         IN  {[start |-> last.end + g, end |-> last.end + g + n, page |-> last.page] :
                  n \in Lengths, g \in Gaps}
             \cup {[start |-> last.end + 2 * k, end |-> last.end + 2 * k + n,
                    page |-> last.page + k] : n \in Lengths, k \in 1..MaxBlank + 1}

Size(b) == b.end - b.start
Part(b, from, to) == [i \in 1..(to - from) |-> b.start + from + i - 1]
Whole(b) == [text |-> Part(b, 0, Size(b)), start |-> b.start, end |-> b.end]

(* What is pushed of a text that begins at a position.                       *)
Pushed(text, from) ==
    IF Len(text) < MinChunk THEN <<>>
    ELSE <<[text |-> text, start |-> from, end |-> from + Len(text)]>>
-----------------------------------------------------------------------------
(* flush: what it pushes, and the tail it keeps to begin the next chunk.     *)
Flushed(p) == IF p = Missing THEN <<>> ELSE Pushed(p.text, p.start)

TailStart(text) ==
    Min({i \in DOMAIN text : i > Len(text) - Overlap /\ text[i] # Sep})

Kept(p) ==
    IF p = Missing THEN Missing
    ELSE LET tail == SubSeq(p.text, TailStart(p.text), Len(p.text))
         IN  IF Len(tail) < MinChunk THEN Missing
             ELSE [text |-> tail, start |-> p.end - Len(tail), end |-> p.end]

AbutsNext(p, b) ==                                                 \* mutant
    [text |-> p.text \o Part(b, 0, Size(b)), start |-> p.start, end |-> b.end]
Joined(p, b) ==
    [text |-> p.text \o <<Sep, Sep>> \o Part(b, 0, Size(b)), start |-> p.start,
     end |-> b.end]

Fits(p, b) == Len(p.text) + 2 + Size(b) <= MaxChars
-----------------------------------------------------------------------------
Meet(b) ==
    /\ ~ended /\ cursor = Missing /\ Len(blocks) < MaxBlocks
    /\ b \in Upcoming
    /\ blocks' = Append(blocks, b)
    /\ UNCHANGED <<ended, pageVars>>

LongBlock(b) ==
    /\ Meet(b) /\ Size(b) > MaxChars
    /\ chunks' = chunks \o Flushed(piece)
    /\ piece' = Missing
    /\ cursor' = 0

(* pushFixedWindow: windows that overlap, until one reaches the end.         *)
PushWindow ==
    /\ cursor # Missing
    /\ LET b == LastBlock
           to == Min({Size(b), cursor + MaxChars})
       IN  /\ chunks' = chunks \o Pushed(Part(b, cursor, to), b.start + cursor)
           /\ cursor' = IF to = Size(b) THEN Missing ELSE to - Overlap
    /\ UNCHANGED <<blocks, piece, ended, pageVars>>

FirstBlock(b) ==
    /\ Meet(b) /\ Size(b) <= MaxChars /\ piece = Missing
    /\ piece' = Whole(b)
    /\ UNCHANGED <<chunks, cursor>>

JoinBlock(b) ==
    /\ Meet(b) /\ piece # Missing /\ Fits(piece, b)
    /\ piece' = Joined(piece, b)
    /\ UNCHANGED <<chunks, cursor>>

(* The tail may again be too long with the block, and is flushed with it.    *)
SplitBefore(b) ==
    /\ Meet(b) /\ Size(b) <= MaxChars /\ piece # Missing /\ ~Fits(piece, b)
    /\ LET kept == Kept(piece)
           new == IF kept = Missing THEN Whole(b) ELSE Joined(kept, b)
       IN  IF Len(new.text) > MaxChars
           THEN chunks' = chunks \o Flushed(piece) \o Flushed(new) /\ piece' = Kept(new)
           ELSE chunks' = chunks \o Flushed(piece) /\ piece' = new
    /\ UNCHANGED cursor

EndText ==
    /\ ~ended /\ cursor = Missing /\ ended' = TRUE
    /\ chunks' = chunks \o Flushed(piece)
    /\ piece' = Kept(piece)
    /\ UNCHANGED <<blocks, cursor, pageVars>>
-----------------------------------------------------------------------------
(* createChunksForSource: where the pages begin, from their own texts, which *)
(* still hold what the splitter has taken out, ...                           *)
LastPage == IF blocks = <<>> THEN 0 ELSE LastBlock.page

PageLength(p) ==
    LET on == {i \in DOMAIN blocks : blocks[i].page = p}
    IN  IF on = {} THEN 0 ELSE blocks[Max(on)].end - blocks[Min(on)].start

StorePage ==
    /\ ended /\ Len(pageStarts) < LastPage
    /\ LET n == Len(pageStarts)
       IN  \E d \in IF n = 0 THEN {0} ELSE 0..MaxExtra - extra :
             /\ pageStarts' = Append(pageStarts,
                    IF n = 0 THEN 0 ELSE pageStarts[n] + PageLength(n) + d + 2)
             /\ extra' = extra + d
    /\ UNCHANGED <<blocks, piece, cursor, chunks, ended>>

(* ... and the page of a position in the trimmed text.                       *)
PageOf(position) == Max({p \in DOMAIN pageStarts : pageStarts[p] <= position})

ChunkNext ==
    \/ \E b \in Upcoming : LongBlock(b) \/ FirstBlock(b) \/ JoinBlock(b) \/ SplitBefore(b)
    \/ PushWindow \/ EndText \/ StorePage

ChunkSpec == ChunkInit /\ [][ChunkNext]_chunkVars
-----------------------------------------------------------------------------
(* Properties.                                                               *)

CharsIn(p) == {p.text[k] : k \in DOMAIN p.text}
InChunks(cs) == UNION {CharsIn(cs[i]) : i \in DOMAIN cs}
Read == InChunks(chunks) \cup (IF piece = Missing THEN {} ELSE CharsIn(piece))
Positions(b) == b.start..b.end - 1

(* Splitting, joining and overlapping leave nothing out but blocks that are  *)
(* too short to be a chunk.                                                  *)
NothingLeftOut ==
    \A i \in DOMAIN blocks :
        Size(blocks[i]) >= MinChunk /\ (cursor = Missing \/ i < Len(blocks)) =>
            Positions(blocks[i]) \subseteq Read

(* Chunks are in the order of the text, each as long as one may be with the  *)
(* tail of the one before it.                                                *)
LongestChunk == MaxChars + Overlap + 2
Ordered(cs) ==
    \A i \in 2..Len(cs) :
        cs[i - 1].start <= cs[i].start /\ cs[i - 1].end <= cs[i].end
ChunksInOrder ==
    /\ \A i \in DOMAIN chunks : Len(chunks[i].text) <= LongestChunk
    /\ Ordered(chunks)

(* "MUST match how fullText is constructed": what is cited from a chunk is   *)
(* where its offsets and its pages say, as long as no page is blank, no      *)
(* other gap is wider than the separator and, for the pages, none before the *)
(* last holds a character that the splitter takes out.                       *)
Regular(bs) ==
    /\ bs # <<>> => bs[1].page = 1
    /\ \A i \in 2..Len(bs) : bs[i].start - bs[i - 1].end = 2
Holds(b, c) == b.start <= c /\ c < b.end
CharsInPlace(p) == \A k \in DOMAIN p.text : p.text[k] \in {Sep, p.start + k - 1}
EvidenceIsInPlace ==
    Regular(blocks) =>
        \A i \in DOMAIN chunks :
            LET c == chunks[i]
            IN  /\ CharsInPlace(c)
                /\ ended /\ Len(pageStarts) = LastPage /\ extra = 0 =>
                     \E j, k \in DOMAIN blocks :
                        /\ Holds(blocks[j], c.text[1]) /\ PageOf(c.start) = blocks[j].page
                        /\ Holds(blocks[k], c.text[Len(c.text)])
                        /\ PageOf(c.end - 1) = blocks[k].page
-----------------------------------------------------------------------------
(* The inductive invariant of the three: the blocks are apart and their      *)
(* pages in order, ...                                                       *)
BlocksApart(bs) ==
    /\ bs # <<>> => bs[1].start = 0
    /\ \A i \in DOMAIN bs : bs[i].start < bs[i].end
    /\ \A i, j \in DOMAIN bs :
           i < j => bs[i].end + 2 <= bs[j].start /\ bs[i].page <= bs[j].page
    /\ \A i \in 2..Len(bs) :
           bs[i].start - bs[i - 1].end = 2 => bs[i].page <= bs[i - 1].page + 1

(* ... what is put together, and every chunk, comes from them and begins and *)
(* ends in one, ...                                                          *)
Genuine(p, bs) ==
    /\ p \in Pieces /\ p.text # <<>>
    /\ p.text[1] # Sep /\ p.text[Len(p.text)] # Sep
    /\ \A k \in DOMAIN p.text :
           p.text[k] = Sep \/ \E j \in DOMAIN bs : Holds(bs[j], p.text[k])
    /\ p.start + Len(p.text) <= p.end
    /\ Regular(bs) => p.start + Len(p.text) = p.end /\ CharsInPlace(p)

PieceInv ==
    piece # Missing =>
        /\ cursor = Missing /\ blocks # <<>> /\ piece.end = LastBlock.end
        /\ Genuine(piece, blocks) /\ Len(piece.text) <= MaxChars

GoodChunks(cs, bs) ==
    /\ \A i \in DOMAIN cs :
           /\ Genuine(cs[i], bs) /\ cs[i].end = cs[i].start + Len(cs[i].text)
           /\ Len(cs[i].text) <= LongestChunk
    /\ Ordered(cs)

CursorInv ==
    cursor # Missing =>
        /\ ~ended /\ blocks # <<>> /\ Size(LastBlock) > MaxChars
        /\ cursor + Overlap < Size(LastBlock)

(* ... no chunk reaches beyond what comes next, ...                          *)
NoneBeyond(cs, from, to) == \A i \in DOMAIN cs : cs[i].start <= from /\ cs[i].end <= to
OrderInv ==
    /\ piece # Missing =>
         NoneBeyond(chunks, piece.start, piece.start + Len(piece.text))
    /\ cursor # Missing =>
         NoneBeyond(chunks, LastBlock.start + cursor, LastBlock.start + cursor + Overlap)
    /\ piece = Missing /\ cursor = Missing /\ chunks # <<>> =>
         blocks # <<>> /\ NoneBeyond(chunks, LastBlock.end, LastBlock.end)

(* ... a block is in the chunks, or in a piece that will be one, or is read, *)
Safe(b, cs, p) ==
    \/ Positions(b) \subseteq InChunks(cs)
    \/ p # Missing /\ Len(p.text) >= MinChunk /\ Positions(b) \subseteq CharsIn(p)
CoverInv ==
    /\ \A i \in DOMAIN blocks :
         Size(blocks[i]) >= MinChunk /\ (cursor = Missing \/ i < Len(blocks)) =>
             Safe(blocks[i], chunks, piece)
    /\ cursor # Missing =>
         \A c \in LastBlock.start..LastBlock.start + cursor - 1 : c \in InChunks(chunks)

(* ... and a page begins with its first block.                               *)
PagesInv ==
    /\ ended \/ pageStarts = <<>>
    /\ Len(pageStarts) <= LastPage
    /\ Regular(blocks) /\ extra = 0 =>
         \A p \in DOMAIN pageStarts :
            \E i \in DOMAIN blocks :
               /\ blocks[i].page = p /\ blocks[i].start = pageStarts[p]
               /\ \A j \in DOMAIN blocks : blocks[j].page = p => i <= j

ChunkInv ==
    /\ ChunkTypeOK /\ BlocksApart(blocks) /\ PieceInv /\ GoodChunks(chunks, blocks)
    /\ CursorInv /\ OrderInv /\ CoverInv /\ PagesInv
=============================================================================
