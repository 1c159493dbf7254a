---------------------------- MODULE HttpRequest -----------------------------
(***************************************************************************)
(* How a client's thread reads one request into a buffer that grows: the   *)
(* header in pieces until its end is seen, then as much of the body as the *)
(* header says.  Sizes are small numbers that stand for the real ones:     *)
(* StartCap for 65536, MaxSize for MAX_REQ_SIZE, a power of two times it.  *)
(***************************************************************************)
EXTENDS Integers, FiniteSetsExt

CONSTANTS StartCap, MaxSize

ASSUME RequestAssumption ==
  /\ StartCap \in Nat \ {0} /\ MaxSize \in Nat /\ StartCap <= MaxSize

VARIABLES
  reading,    \* head, size, body, route, or the answer: alloc, bad, large, incomplete, gone
  cap,        \* the buffer has cap + 1 bytes
  off,        \* how many of them are filled
  bodyAt,     \* where the header's blank line ends, or 0
  bodyLen     \* what Content-Length says

requestVars == <<reading, cap, off, bodyAt, bodyLen>>

RequestInit ==
  /\ reading = "head" /\ cap = StartCap /\ off = 0
  /\ bodyAt = 0 /\ bodyLen = 0

\* http_grow_buf(): doubled until it is enough, never more than MaxSize.
Grown(need) ==
  IF need <= cap THEN cap
  ELSE Min({MaxSize} \cup {size \in need..MaxSize : \E k \in 1..need : size = cap * 2^k})

\* parse_content_length_header(): a number, 0 without one, and anything larger
\* than a request may be is MaxSize + 1.
ContentLengths == 0..(MaxSize + 1)

AnswerWith(why) == reading' = why /\ UNCHANGED <<cap, off, bodyAt, bodyLen>>

\* The buffer is full of header, the connection ends or is silent for too long,
\* or there is no memory to go on.
HeadStops ==
  /\ reading = "head"
  /\ \/ off >= MaxSize /\ AnswerWith("bad")
     \/ off < MaxSize /\ AnswerWith(IF off = 0 THEN "gone" ELSE "bad")
     \/ off < MaxSize /\ off >= cap /\ AnswerWith("alloc")

\* One recv(); a blank line of two or four characters may be in what came, and
\* some of the body after it.
ReadHead ==
  /\ reading = "head" /\ off < MaxSize
  /\ cap' = IF off >= cap THEN Grown(off + 1) ELSE cap
  /\ off' \in (off + 1)..cap'
  /\ \/ UNCHANGED <<reading, bodyAt>>
     \/ /\ bodyAt' \in {n \in (off + 1)..off' : n >= 2}
        /\ reading' = "size"
  /\ UNCHANGED bodyLen

\* Mutant of CheckSize: the header before the body is not counted.
CheckSizeAlone ==
  /\ reading = "size"
  /\ \E len \in ContentLengths :
       \/ len > MaxSize /\ AnswerWith("large")
       \/ /\ len <= MaxSize
          /\ cap' = Grown(bodyAt + len) /\ bodyLen' = len /\ reading' = "body"
          /\ UNCHANGED <<off, bodyAt>>

\* The size is checked before it is used, and the buffer grown at once.
CheckSize ==
  /\ reading = "size"
  /\ \E len \in ContentLengths :
       \/ /\ bodyAt >= MaxSize \/ len > MaxSize - bodyAt - 1
          /\ AnswerWith("large")
       \/ /\ bodyAt < MaxSize /\ len <= MaxSize - bodyAt - 1
          /\ \/ AnswerWith("alloc")
             \/ /\ cap' = Grown(bodyAt + len) /\ bodyLen' = len /\ reading' = "body"
                /\ UNCHANGED <<off, bodyAt>>

HasBody == off - bodyAt >= bodyLen

ReadBody ==
  /\ reading = "body" /\ ~HasBody /\ off < MaxSize /\ off < cap
  /\ off' \in (off + 1)..cap
  /\ UNCHANGED <<reading, cap, bodyAt, bodyLen>>

\* The connection ends first; a buffer that is full looks the same to recv().
BodyStops ==
  /\ reading = "body" /\ ~HasBody
  /\ IF off >= MaxSize THEN AnswerWith("large") ELSE AnswerWith("incomplete")

\* A zero is put after the body, and the request line is taken apart.
Route ==
  /\ reading = "body" /\ HasBody
  /\ AnswerWith("route") \/ AnswerWith("bad")

\* The thread is over, and the next one begins.
NextRequest ==
  /\ reading \notin {"head", "size", "body"}
  /\ reading' = "head" /\ cap' = StartCap /\ off' = 0 /\ bodyAt' = 0 /\ bodyLen' = 0

RequestNext ==
  HeadStops \/ ReadHead \/ CheckSize \/ ReadBody \/ BodyStops \/ Route \/ NextRequest

-----------------------------------------------------------------------------
\* The types of a request and its buffer.
RequestTypeOK ==
  /\ reading \in {"head", "size", "body", "route", "alloc", "bad", "large", "incomplete", "gone"}
  /\ cap \in StartCap..MaxSize

\* Nothing is read or written outside the cap + 1 bytes of the buffer: neither
\* what recv() fills, nor the zeros after the header and the body, although the
\* size of the body is the client's word; and a request that is routed is whole.
InBuffer ==
  /\ off <= cap /\ bodyAt <= off
  /\ reading \in {"body", "route"} => bodyAt + bodyLen <= cap
  /\ reading = "route" => bodyAt + bodyLen <= off
=============================================================================
