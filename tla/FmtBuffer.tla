----------------------------- MODULE FmtBuffer -----------------------------
(***************************************************************************)
(* The growable output buffer of the bundled fmt library: Buffer,          *)
(* MemoryBuffer with its inline array and its moves, and FixedBuffer.      *)
(* A buffer is [ptr, size, capacity, data]: ptr is Inline or the heap      *)
(* block that holds the data, and data has one cell per element of the     *)
(* storage, Junk where nothing was stored yet.                             *)
(***************************************************************************)
EXTENDS Naturals, Sequences, FiniteSets

CONSTANTS
    SIZE,         \* elements of the inline array (INLINE_BUFFER_SIZE is 500)
    Buffers,      \* the MemoryBuffer objects of the program
    MaxSize,      \* bound on the size of a buffer
    MaxReport     \* bound on the length of an error message

VARIABLES
    bufs,         \* the objects: a record, or Dead
    heap,         \* block -> the number of elements it was allocated with
    moved,        \* the objects whose content was moved away
    appended,     \* ghost: what was appended to each object
    badFree,      \* a block was freed twice or with a wrong size
    stream,       \* the FormatBuf an operator<< writes to
    report        \* a system error being turned into text

bufferVars == <<bufs, heap, moved, appended, badFree>>
streamVars == <<stream, report>>

Junk == "?"
Inline == 0
Dead == [ptr |-> Inline, size |-> 0, capacity |-> 0, data |-> << >>]
Blocks == 1..(Cardinality(Buffers) + 1)

Storage(n) == [i \in 1..n |-> Junk]

\* MemoryBuffer(), BasicMemoryWriter()
MemoryBuffer == [ptr |-> Inline, size |-> 0, capacity |-> SIZE,
                 data |-> Storage(SIZE)]

\* The capacity grow asks the allocator for.
NewCapacity(b, size) ==
    LET half == b.capacity + b.capacity \div 2
    IN  IF size > half THEN size ELSE half

\* MemoryBuffer::grow into block new: only the first size_ elements are copied.
grow(b, size, new) ==
    LET n == NewCapacity(b, size)
    IN  [b EXCEPT !.ptr = new, !.capacity = n,
                  !.data = [i \in 1..n |-> IF i <= b.size THEN b.data[i] ELSE Junk]]

reserve(b, capacity, new) ==
    IF capacity > b.capacity THEN grow(b, capacity, new) ELSE b

resize(b, size, new) == [reserve(b, size, new) EXCEPT !.size = size]

\* FixedBuffer::grow throws: an ArrayWriter keeps what fits and nothing else.
FixedFits(b, size) == size <= b.capacity

\* Buffer::append; push_back is append of one element.
append(b, s, new) ==
    LET g == reserve(b, b.size + Len(s), new)
    IN  [g EXCEPT !.size = b.size + Len(s),
                  !.data = [i \in 1..g.capacity |->
                               IF i \in (b.size + 1)..(b.size + Len(s))
                               THEN s[i - b.size] ELSE g.data[i]]]

\* BasicWriter::str, data and size: what a reader of the buffer gets.
str(b) == SubSeq(b.data, 1, b.size)

\* BasicWriter::c_str: room for the terminating null, which is not counted.
c_str(b, new) ==
    LET g == reserve(b, b.size + 1, new)
    IN  [g EXCEPT !.data[b.size + 1] = Junk]

----------------------------------------------------------------------------

\* Objects that may be used: constructed, and not moved from since.
Usable == {b \in Buffers : bufs[b] # Dead} \ moved

FreshBlock == CHOOSE k \in Blocks : k \notin DOMAIN heap

Free(h, b) == [k \in DOMAIN h \ {b.ptr} |-> h[k]]

\* deallocate(): a heap block goes back with the capacity it is recorded with.
Mismatch(h, b) == b.ptr # Inline /\ (b.ptr \notin DOMAIN h \/ h[b.ptr] # b.capacity)

BufferInit ==
    /\ bufs = [b \in Buffers |-> Dead]
    /\ heap = << >>
    /\ moved = {}
    /\ appended = [b \in Buffers |-> << >>]
    /\ badFree = FALSE

Construct(b) ==
    /\ bufs[b] = Dead
    /\ bufs' = [bufs EXCEPT ![b] = MemoryBuffer]
    /\ appended' = [appended EXCEPT ![b] = << >>]
    /\ UNCHANGED <<heap, moved, badFree>>

\* The object becomes new; when it grew, the old block is freed.
Store(b, new) ==
    LET old == bufs[b] IN
    /\ bufs' = [bufs EXCEPT ![b] = new]
    /\ IF new.ptr = old.ptr THEN UNCHANGED <<heap, badFree>>
       ELSE LET kept == Free(heap, old)
            IN  /\ heap' = [k \in DOMAIN kept \cup {new.ptr} |->
                               IF k = new.ptr THEN new.capacity ELSE kept[k]]
                /\ badFree' = (badFree \/ Mismatch(heap, old))
    /\ UNCHANGED moved

Appended(b, n) ==
    LET s == [i \in 1..n |-> b] IN
    /\ b \in Usable /\ bufs[b].size + Len(s) <= MaxSize
    /\ Store(b, append(bufs[b], s, FreshBlock))
    /\ appended' = [appended EXCEPT ![b] = @ \o s]

CStr(b) ==
    /\ b \in Usable
    /\ Store(b, c_str(bufs[b], FreshBlock))
    /\ UNCHANGED appended

\* What lies beyond size_ is not read again, so it may as well be Junk.
Clear(b) ==
    /\ b \in Usable /\ bufs[b].size > 0
    /\ Store(b, [bufs[b] EXCEPT !.size = 0, !.data = Storage(bufs[b].capacity)])
    /\ appended' = [appended EXCEPT ![b] = << >>]

\* move(other): the heap block changes hands, inline data is copied.
Taken(other) ==
    IF other.ptr = Inline
    THEN [other EXCEPT !.data = [i \in 1..SIZE |-> IF i <= other.size THEN other.data[i]
                                                  ELSE Junk]]
    ELSE other

\* Mutant of LeftBehind: the other object keeps its pointer to the block.
LeftBehindOwning(other) == other

\* What move leaves of the other object: its inline array, under its old capacity.
LeftBehind(other) == [other EXCEPT !.ptr = Inline, !.data = Storage(SIZE)]

\* The move constructor (b is new) and the move assignment (b gives up its own block).
Move(b, other) ==
    /\ other \in Usable /\ b # other
    /\ bufs' = [bufs EXCEPT ![b] = Taken(bufs[other]), ![other] = LeftBehind(bufs[other])]
    /\ LET old == IF bufs[b] = Dead THEN MemoryBuffer ELSE bufs[b]
       IN  /\ heap' = Free(heap, old)
           /\ badFree' = (badFree \/ Mismatch(heap, old))
    /\ moved' = (moved \cup {other}) \ {b}
    /\ appended' = [appended EXCEPT ![b] = appended[other]]

Destroy(b) ==
    /\ bufs[b] # Dead
    /\ bufs' = [bufs EXCEPT ![b] = Dead]
    /\ heap' = Free(heap, bufs[b])
    /\ badFree' = (badFree \/ Mismatch(heap, bufs[b]))
    /\ moved' = moved \ {b}
    /\ appended' = [appended EXCEPT ![b] = << >>]

BufferNext ==
    \E b \in Buffers :
        \/ Construct(b) \/ CStr(b) \/ Clear(b) \/ Destroy(b)
        \/ \E n \in 1..2 : Appended(b, n)
        \/ \E other \in Buffers : Move(b, other)

----------------------------------------------------------------------------
(* FormatBuf: a stream buffer over a MemoryBuffer that is resized only when *)
(* it overflows.                                                           *)

StreamInit == stream = [buf |-> MemoryBuffer, pptr |-> 0, epptr |-> SIZE, put |-> 0]

Poke(b, at, c) == [b EXCEPT !.data[at + 1] = c]

\* Mutant: the content is not counted before the buffer grows.
overflow_NotResized(st) ==
    LET r == reserve(st.buf, st.pptr * 2, st.buf.ptr + 1)
    IN  [st EXCEPT !.buf = Poke(r, st.pptr, "x"), !.pptr = @ + 1, !.epptr = st.pptr * 2]

\* overflow(ch): make what is there the content, double, store the character.
overflow(st) ==
    LET r == reserve(resize(st.buf, st.pptr, st.buf.ptr + 1), st.pptr * 2, st.buf.ptr + 1)
    IN  [st EXCEPT !.buf = Poke(r, st.pptr, "x"), !.pptr = @ + 1, !.epptr = st.pptr * 2]

\* sputc(ch), external: into the put area, or through overflow.
PutChar ==
    /\ stream.put < 3 * MaxSize
    /\ stream' = [(IF stream.pptr < stream.epptr
                   THEN [stream EXCEPT !.buf = Poke(@, stream.pptr, "x"), !.pptr = @ + 1]
                   ELSE overflow(stream)) EXCEPT !.put = @ + 1]
    /\ UNCHANGED report

----------------------------------------------------------------------------
(* format_system_error: the text of an error code, where strerror_r, the   *)
(* allocator and the writer may all fail.  Texts are lengths; SEP and      *)
(* ERROR_STR count 1 each and an error code 1.                             *)

ErrorCodeSize == 3

ReportInit ==
    \E message \in 0..MaxReport, system \in 1..MaxReport :
        report = [pc |-> "strerror", size |-> SIZE, message |-> message, system |-> system,
                  out |-> 0, has |-> {}, allocated |-> FALSE]

\* safe_strerror: a text that fills the buffer is taken for a truncated one,
\* unless the library has a string of its own for it.
safe_strerror ==
    /\ report.pc = "strerror"
    /\ \/ report' = [report EXCEPT !.pc = "found"]
       \/ report' = [report EXCEPT !.pc = "code"]
       \/ report.system >= report.size - 1 /\ report' = [report EXCEPT !.pc = "grow"]
    /\ UNCHANGED stream

Grow ==
    /\ report.pc = "grow"
    /\ \/ report' = [report EXCEPT !.pc = "strerror", !.size = @ * 2]
       \/ report' = [report EXCEPT !.pc = "code"]     \* bad_alloc is caught
    /\ UNCHANGED stream

\* out << message << ": " << system_message, which may throw on the way.
WriteMessage ==
    LET size == report.message + 1 + report.system IN
    /\ report.pc = "found"
    /\ \/ report' = [report EXCEPT !.pc = "done", !.out = size, !.has = {"message", "system"},
                                   !.allocated = size > SIZE]
       \/ /\ size > SIZE
          /\ report' = [report EXCEPT !.pc = "code", !.out = report.message, !.has = {"message"}]
    /\ UNCHANGED stream

\* format_error_code: clears the writer and leaves the message out if the
\* whole would not fit into the inline array.
format_error_code ==
    LET fits == report.message + ErrorCodeSize <= SIZE IN
    /\ report.pc = "code"
    /\ report' = [report EXCEPT !.pc = "done",
                                !.out = ErrorCodeSize - 1 + (IF fits THEN report.message + 1 ELSE 0),
                                !.has = {"code"} \cup (IF fits THEN {"message"} ELSE {})]
    /\ UNCHANGED stream

StreamNext == PutChar \/ safe_strerror \/ Grow \/ WriteMessage \/ format_error_code

----------------------------------------------------------------------------

\* Growth and moves lose nothing and leak nothing: every object that may be
\* used holds what was appended to it in storage as large as it believes, every
\* heap block belongs to exactly one object, and deallocate (grow, the move
\* assignment, the destructor) never frees a block twice or with a wrong size.
BuffersOwnTheirStorage ==
    /\ ~badFree
    /\ \A b \in Usable :
          /\ str(bufs[b]) = appended[b]
          /\ Len(bufs[b].data) = bufs[b].capacity
          /\ bufs[b].ptr # Inline => heap[bufs[b].ptr] = bufs[b].capacity
    /\ \A k \in DOMAIN heap : Cardinality({b \in Buffers : bufs[b].ptr = k}) = 1

\* A stream written through FormatBuf holds every character put into it, and the
\* put area never reaches past the storage; an error report always ends with the
\* system's text or with the error code, and the latter needs no allocation
\* (the assertion in format_error_code).
StreamsAndReportsComplete ==
    /\ stream.pptr = stream.put
    /\ \A i \in 1..stream.pptr : stream.buf.data[i] = "x"
    /\ stream.epptr <= stream.buf.capacity
    /\ report.pc = "done" =>
          /\ "system" \in report.has \/ "code" \in report.has
          /\ "code" \in report.has => report.out <= SIZE /\ ~report.allocated
=============================================================================
