----------------------------- MODULE HttpRange -----------------------------
(***************************************************************************)
(* What one kept-alive connection carries when files are downloaded in     *)
(* ranges (AppHandler._send_file in app.py): how a Range header is         *)
(* answered, and the bytes the client takes for the body it was announced, *)
(* while the file grows or is truncated, or turns out not to be readable.  *)
(* A byte is named by its position; Foreign is one that is no byte of the  *)
(* file.  Slots, cuts and the transfer registry are in HttpDownloads.      *)
(***************************************************************************)
EXTENDS Integers

CONSTANTS Bound,     \* bound: sizes and the numbers of a Range header
          Chunk      \* bytes of one read (1 MiB)

ASSUME BoundAssumption == Bound \in Nat
ASSUME ChunkAssumption == Chunk \in Nat \ {0}

VARIABLES size,   \* the size of the file
          phase,  \* the thread: "idle", "open", "send"
          req,    \* the request being answered
          total,  \* file_size, from the stat
          pos,    \* the position of the open file
          left,   \* remaining
          alive,  \* the connection is open
          due,    \* bytes of the announced body the client still waits for
          body    \* what it took for the others

rangeVars == <<size, phase, req, total, pos, left, alive, due, body>>

Foreign == -1
ErrorBytes == 2  \* an error page is longer than one byte; two stand for it

\* A header the parser refuses (several ranges, no number), none at all, the
\* last n bytes, or those from a (the empty left side is 0) or from a to b.
Requests(N) ==
    [kind : {"none", "refused"}]
    \union [kind : {"suffix"}, n : -N..N]
    \union [kind : {"from"}, a : 0..N]
    \union [kind : {"fromto"}, a : 0..N, b : -N..N]

AtLeast(a, b) == IF a < b THEN b ELSE a
AtMost(a, b) == IF a < b THEN a ELSE b

\* start and end as the code computes them, and its exits with 416.
Start(r, n) == CASE r.kind = "suffix" -> AtLeast(n - r.n, 0)
                 [] r.kind \in {"from", "fromto"} -> r.a
                 [] OTHER -> 0
EndOpen(r, n) == IF r.kind = "fromto" THEN AtMost(r.b, n) - 1 ELSE n - 1  \* mutant
EndBeyond(r, n) == IF r.kind = "fromto" THEN r.b ELSE n - 1  \* mutant
End(r, n) == IF r.kind = "fromto" THEN AtMost(r.b, n - 1) ELSE n - 1
Refused(r, n) == \/ r.kind = "refused"
                 \/ r.kind = "suffix" /\ r.n <= 0
                 \/ r.kind # "none" /\ (Start(r, n) >= n \/ End(r, n) < Start(r, n))

\* What the request asks for, from the meaning of a range.
Wanted(r, n) ==
    {p \in 0..(n - 1) : CASE r.kind = "none" -> TRUE
                          [] r.kind = "suffix" -> p >= n - r.n
                          [] r.kind = "from" -> p >= r.a
                          [] r.kind = "fromto" -> r.a <= p /\ p <= r.b
                          [] OTHER -> FALSE}

-----------------------------------------------------------------------------
RangeInit == /\ size \in 0..Bound
             /\ phase = "idle" /\ req = [kind |-> "none"] /\ total = 0
             /\ pos = 0 /\ left = 0
             /\ alive = TRUE /\ due = 0 /\ body = {}

\* A client that has its answer asks again; a range that cannot be is
\* answered without a body.
Ask == /\ phase = "idle" /\ alive /\ due = 0
       /\ \E r \in Requests(Bound) :
            /\ req' = r /\ total' = size /\ body' = {}
            /\ IF ~Refused(r, size)
               THEN /\ phase' = "open" /\ pos' = Start(r, size)
                    /\ left' = End(r, size) - Start(r, size) + 1
                    /\ due' = End(r, size) - Start(r, size) + 1
               ELSE phase' = "idle" /\ pos' = 0 /\ left' = 0 /\ due' = 0
       /\ UNCHANGED <<size, alive>>

OpenRange == /\ phase = "open" /\ phase' = "send"
             /\ UNCHANGED <<size, req, total, pos, left, alive, due, body>>

\* The headers are out when the file turns out to be unreadable or gone, or a
\* read fails, and the error page follows: the client takes it for the body.
ReadFails == /\ phase' = "idle"
             /\ phase = "open" \/ (phase = "send" /\ left > 0)
             /\ body' = IF due > 0 THEN body \union {Foreign} ELSE body
             /\ due' = AtLeast(due - ErrorBytes, 0)
             /\ alive' = (due >= ErrorBytes)  \* else it cannot read on
             /\ UNCHANGED <<size, req, total, pos, left>>

\* Mutant: the chunk is not cut to what is left.
SendWholeChunk == /\ phase = "send" /\ left > 0 /\ pos < size
                  /\ LET m == AtMost(Chunk, size - pos)
                     IN  /\ body' = body \union (pos..(pos + m - 1))
                         /\ pos' = pos + m /\ left' = left - m /\ due' = due - m
                  /\ UNCHANGED <<size, phase, req, total, alive>>

\* A chunk is cut to what is left; at the end of a file that was truncated
\* the thread stops short and leaves the connection open.
SendChunk == /\ phase = "send" /\ left > 0 /\ pos < size
             /\ LET m == AtMost(AtMost(Chunk, size - pos), left)
                IN  /\ body' = body \union (pos..(pos + m - 1))
                    /\ pos' = pos + m /\ left' = left - m /\ due' = due - m
             /\ UNCHANGED <<size, phase, req, total, alive>>

Finish == /\ phase = "send" /\ (left <= 0 \/ pos >= size) /\ phase' = "idle"
          /\ UNCHANGED <<size, req, total, pos, left, alive, due, body>>

\* The write fails or times out, or downloads are cut: the thread closes.
BreakConnection == /\ phase = "send" /\ left > 0
                   /\ phase' = "idle" /\ alive' = FALSE
                   /\ UNCHANGED <<size, req, total, pos, left, due, body>>

\* Mutant: the connection has no timeout.
NoIdleTimeout == FALSE

\* No request within the keep-alive timeout.
IdleTimeout == /\ phase = "idle" /\ alive /\ alive' = FALSE
               /\ UNCHANGED <<size, phase, req, total, pos, left, due, body>>

ConnectAgain == /\ ~alive /\ alive' = TRUE /\ due' = 0 /\ body' = {}
                /\ req' = [kind |-> "none"] /\ total' = 0 /\ pos' = 0 /\ left' = 0
                /\ UNCHANGED <<size, phase>>

\* Another program appends to the file or truncates it.
Change == /\ size' \in {size - 1, size + 1} /\ size' \in 0..Bound
          /\ UNCHANGED <<phase, req, total, pos, left, alive, due, body>>

SendRange == OpenRange \/ ReadFails \/ SendChunk \/ Finish \/ BreakConnection

RangeNext == Ask \/ SendRange \/ IdleTimeout \/ ConnectAgain \/ Change

\* The thread runs, and its waits for the socket are bounded; nobody has to
\* ask, to reconnect or to change the file.
RangeFairness == WF_rangeVars(SendRange) /\ WF_rangeVars(IdleTimeout)

RangeSpec == RangeInit /\ [][RangeNext]_rangeVars
FairRangeSpec == RangeSpec /\ RangeFairness

-----------------------------------------------------------------------------
RangeTypeOK == /\ size \in 0..Bound
               /\ phase \in {"idle", "open", "send"}
               /\ req \in Requests(Bound) /\ total \in 0..Bound
               /\ pos \in 0..Bound /\ left \in 0..Bound /\ due \in 0..Bound
               /\ alive \in BOOLEAN /\ body \subseteq -1..Bound

(***************************************************************************)
(* Resuming works: what the client holds of a body is the wanted bytes     *)
(* before a position, none missing and no other, whatever is appended to   *)
(* the file or truncated from it meanwhile; so a client that was cut off   *)
(* may ask for the rest.  Only the page of an error met after the headers  *)
(* may be mixed with them.                                                 *)
(***************************************************************************)
Resumable == \E p \in 0..Bound :
                body \ {Foreign} = {q \in Wanted(req, total) : q < p}

(***************************************************************************)
(* A client that waits for no more, and got no error page, has all it      *)
(* asked for: the length that was announced is that of the range.          *)
(***************************************************************************)
Complete == due = 0 /\ Foreign \notin body => body = Wanted(req, total)

(***************************************************************************)
(* No client waits for ever for bytes the file no longer has: the          *)
(* connection is closed at last.                                           *)
(***************************************************************************)
NoHang == due > 0 ~> due = 0 \/ ~alive
=============================================================================
