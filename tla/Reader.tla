------------------------------- MODULE Reader -------------------------------
(***************************************************************************)
(* The byte cursor of sentinel/reader.py: a buffer of len bytes, a read    *)
(* position that only a successful call moves, and the exception the last  *)
(* call raised.  What the bytes are is the business of the modules that    *)
(* extend this one: a sequential reader meets every byte at most once, so  *)
(* they let a read return any value its field can hold.                    *)
(***************************************************************************)
EXTENDS Integers

CONSTANT MaxChunk           \* DEFAULT_MAX_CHUNK: the most one read may return

\* Every scalar the format reads is at most eight bytes wide.
ASSUME MaxChunkAssumption == MaxChunk \in Nat /\ MaxChunk >= 8

VARIABLES
    len,                    \* size of the buffer
    pos,                    \* next byte to read
    raised                  \* exception of the last call, with its offset

readerVars == <<len, pos, raised>>

Exceptions == {"Eof", "OverAlloc", "BadString"}
Quiet == [exc |-> "none", at |-> 0]
Raising(e, at) == [exc |-> e, at |-> at]

Remaining == len - pos

ReaderInit(sizes) == len \in sizes /\ pos = 0 /\ raised = Quiet

(***************************************************************************)
(* read_exact(n).  The end of the buffer is tested before the chunk limit: *)
(* a length that the file cannot hold is truncation however large it is.   *)
(***************************************************************************)
CrossesEnd(n) == n >= 0 /\ pos + n > len
Grants(n) == n >= 0 /\ pos + n <= len /\ n <= MaxChunk

Advance(n) ==
    /\ Grants(n)
    /\ pos' = pos + n
    /\ raised' = Quiet
    /\ UNCHANGED len

\* Mutation: the chunk limit is tested before the end of the buffer.
RefuseChunkFirst(n) ==
    /\ ~Grants(n)
    /\ raised' = Raising(IF n > MaxChunk THEN "OverAlloc" ELSE "Eof", pos)
    /\ UNCHANGED <<len, pos>>

Refuse(n) ==
    /\ ~Grants(n)
    /\ raised' = Raising(IF CrossesEnd(n) THEN "Eof" ELSE "OverAlloc", pos)
    /\ UNCHANGED <<len, pos>>

ReadExact(n) == Advance(n) \/ Refuse(n)

\* Mutation: the offset of the exception is the cursor, past the bad bytes.
BadTextAtCursor(n) ==
    /\ Grants(n)
    /\ n > 0
    /\ pos' = pos + n
    /\ raised' = Raising("BadString", pos')
    /\ UNCHANGED len

(***************************************************************************)
(* string_from(n) when the n bytes are not UTF-8: they are consumed, and   *)
(* the exception points back at the first of them.                         *)
(***************************************************************************)
AdvanceOverBadText(n) ==
    /\ Grants(n)
    /\ n > 0
    /\ pos' = pos + n
    /\ raised' = Raising("BadString", pos' - n)
    /\ UNCHANGED len
=============================================================================
