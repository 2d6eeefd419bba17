---------------------------- MODULE ManagedDdns ----------------------------
(* The managed DDNS service (scripts/managed_ddns_service.py): a process of  *)
(* its own with a thread per request and one SQLite connection that all of   *)
(* them share.  A statement that changes the database opens a transaction on *)
(* the connection; a commit by any thread commits what all of them changed.  *)
(* The commands issue, revoke and expire-scan are other processes with their *)
(* own connection: they find the database locked while a transaction is open.*)
EXTENDS Integers, FiniteSets, Sequences

CONSTANTS
    Workers,    \* request threads
    Tokens,     \* tokens that may be issued
    Donors, DonorOf,
    Messages,   \* Ko-fi messages, each sent to the webhook until it is answered
    SenderOf,   \* their donors
    Payments,   \* the messages that are payments
    None,
    Days,       \* days for which tokens are issued; 0 for no end
    Delta, Grace, Interval,  \* billing days, grace days, min_interval_sec
    MaxTime,    \* bound: the clock
    MaxSent,    \* bound: deliveries of all messages
    MaxUpdates  \* bound: update requests, revocations, expiry scans and crashes

ASSUME ManagedAssumption ==
    /\ DonorOf \in [Tokens -> Donors] /\ SenderOf \in [Messages -> Donors]
    /\ Payments \subseteq Messages
    /\ None \notin Tokens \cup Messages
    /\ Days \subseteq Nat /\ Delta \in Nat \ {0} /\ Grace \in Nat /\ Interval \in Nat

VARIABLES
    now,
    db,        \* the tables as the shared connection sees them
    disk,      \* the tables as they were last committed
    open,      \* a transaction is open on the shared connection
    frame,     \* the requests under way
    sent,      \* deliveries made
    due,       \* per message: was it delivered, and the donor's tokens then
    together,  \* a webhook request ran beside another request
    used       \* how much of MaxUpdates has been used

vars == <<now, db, disk, open, frame, sent, due, together, used>>

(* A row of `tokens`; expires is 0 for NULL.  `credits` is not a column: it  *)
(* counts, for each message, how often it has extended the token.            *)
Row == [issued : BOOLEAN, enabled : BOOLEAN, status : {"active", "expired"},
        expires : Nat, last : Int, credits : [Messages -> Nat]]
Tables == [tokens : [Tokens -> Row], events : SUBSET Messages]
Unissued == [issued |-> FALSE, enabled |-> FALSE, status |-> "active",
             expires |-> 0, last |-> -1, credits |-> [m \in Messages |-> 0]]
Idle == [pc |-> "idle", msg |-> None, token |-> None, rows |-> << >>, todo |-> {}, at |-> 0]

Init ==
    /\ now = 1
    /\ db = [tokens |-> [t \in Tokens |-> Unissued], events |-> {}]
    /\ disk = db
    /\ open = FALSE
    /\ frame = [w \in Workers |-> Idle]
    /\ sent = 0 /\ used = 0
    /\ due = [m \in Messages |-> [seen |-> FALSE, tokens |-> {}]]
    /\ together = FALSE

Goes(w, f) == frame' = [frame EXCEPT ![w] = f]
Ends(w)    == Goes(w, Idle)
Executes(tables) == db' = tables /\ open' = TRUE
commit == disk' = db /\ open' = FALSE /\ UNCHANGED db
Use == used < MaxUpdates /\ used' = used + 1

-----------------------------------------------------------------------------
(* _handle_kofi_webhook *)

IssuedTo(d) == {t \in Tokens : db.tokens[t].issued /\ DonorOf[t] = d}
AloneIs(w) == \A v \in Workers \ {w} : frame[v].pc = "idle"

\* Mutant: without the look for an earlier delivery.
HookUnchecked(w) ==
    /\ frame[w].pc = "idle" /\ sent < MaxSent
    /\ sent' = sent + 1
    /\ \E m \in Messages :
         /\ due' = [due EXCEPT ![m] = [seen |-> TRUE, tokens |-> IssuedTo(SenderOf[m])]]
         /\ Goes(w, [Idle EXCEPT !.pc = IF m \in Payments THEN "rows" ELSE "insert",
                                 !.msg = m, !.at = now])
    /\ together' = (together \/ ~AloneIs(w))
    /\ UNCHANGED <<now, db, disk, open, used>>

\* A delivery with the right verification token, a message id and a donor;
\* the others are refused before the database is asked.
HookCheck(w) ==
    /\ frame[w].pc = "idle" /\ sent < MaxSent
    /\ sent' = sent + 1
    /\ \E m \in Messages :
         /\ due' = IF due[m].seen THEN due
                   ELSE [due EXCEPT ![m] = [seen |-> TRUE, tokens |-> IssuedTo(SenderOf[m])]]
         /\ IF m \in db.events THEN Ends(w)              \* "duplicate": true
            ELSE Goes(w, [Idle EXCEPT !.pc = IF m \in Payments THEN "rows" ELSE "insert",
                                      !.msg = m, !.at = now])
    /\ together' = (together \/ ~AloneIs(w))
    /\ UNCHANGED <<now, db, disk, open, used>>

\* Mutant: only tokens that are in force are extended.
HookRowsEnabled(w) ==
    /\ frame[w].pc = "rows"
    /\ LET mine == {t \in IssuedTo(SenderOf[frame[w].msg]) : db.tokens[t].enabled}
       IN  Goes(w, [frame[w] EXCEPT !.pc = "extend", !.todo = mine, !.at = now,
                      !.rows = [t \in mine |-> db.tokens[t].expires]])
    /\ UNCHANGED <<now, db, disk, open, sent, due, together, used>>

HookRows(w) ==
    /\ frame[w].pc = "rows"
    /\ LET mine == IssuedTo(SenderOf[frame[w].msg])
       IN  Goes(w, [frame[w] EXCEPT !.pc = "extend", !.todo = mine, !.at = now,
                      !.rows = [t \in mine |-> db.tokens[t].expires]])
    /\ UNCHANGED <<now, db, disk, open, sent, due, together, used>>

\* Paid time goes on from the end of the paid period, the grace days aside.
Later(a, b) == IF a >= b THEN a ELSE b
\* Mutant: the time that is left is forgotten.
next_exp_from_now(current_exp, at) == at + Delta + Grace
next_exp(current_exp, at) ==
    LET base == IF current_exp > 0 THEN Later(at, current_exp - Grace) ELSE at
    IN  base + Delta + Grace

\* Whatever the row was, the token is in force until the new end.
Extended(row, end, m) ==
    [row EXCEPT !.enabled = TRUE, !.status = "active", !.expires = end,
                !.credits = [row.credits EXCEPT ![m] = @ + 1]]

HookExtend(w) ==
    /\ frame[w].pc = "extend"
    /\ \/ /\ frame[w].todo = {}
          /\ Goes(w, [frame[w] EXCEPT !.pc = "insert"])
          /\ UNCHANGED <<db, open>>
       \/ \E t \in frame[w].todo :
            /\ LET end == next_exp(frame[w].rows[t], frame[w].at)
               IN  Executes([db EXCEPT !.tokens[t] =
                               Extended(db.tokens[t], end, frame[w].msg)])
            /\ Goes(w, [frame[w] EXCEPT !.todo = @ \ {t}])
    /\ UNCHANGED <<now, disk, sent, due, together, used>>

\* The primary key refuses a second row of a message: the request ends by
\* the exception, and its transaction stays open.
HookInsert(w) ==
    /\ frame[w].pc = "insert"
    /\ open' = TRUE
    /\ IF frame[w].msg \in db.events THEN Ends(w) /\ UNCHANGED db
       ELSE /\ db' = [db EXCEPT !.events = @ \cup {frame[w].msg}]
            /\ Goes(w, [frame[w] EXCEPT !.pc = "commit"])
    /\ UNCHANGED <<now, disk, sent, due, together, used>>

HookCommit(w) ==
    /\ frame[w].pc = "commit"
    /\ commit
    /\ Ends(w)
    /\ UNCHANGED <<now, sent, due, together, used>>

-----------------------------------------------------------------------------
(* _handle_update *)

May(t) ==
    LET row == db.tokens[t]
    IN  /\ row.issued /\ row.enabled /\ row.status = "active"
        /\ row.expires > 0 => now <= row.expires
        /\ row.last >= 0 => now - row.last >= Interval

UpdateCheck(w) ==
    /\ frame[w].pc = "idle" /\ Use
    /\ \E t \in Tokens :
         May(t) /\ Goes(w, [Idle EXCEPT !.pc = "dns", !.token = t, !.at = now])
    /\ together' = (together \/ \E v \in Workers : frame[v].msg # None)
    /\ UNCHANGED <<now, db, disk, open, sent, due>>

\* update_dns over the network, then the time of the update in the token's
\* row; a failure leaves only a row in the log.
UpdateDns(w) ==
    /\ frame[w].pc = "dns"
    /\ \/ Executes([db EXCEPT !.tokens[frame[w].token].last = frame[w].at])
       \/ Executes(db)
    /\ Goes(w, [frame[w] EXCEPT !.pc = "commit"])
    /\ UNCHANGED <<now, disk, sent, due, together, used>>

-----------------------------------------------------------------------------
(* The commands: one transaction each, refused while another is open.        *)
Command(tables) ==
    /\ ~open
    /\ db' = tables /\ disk' = tables
    /\ UNCHANGED <<now, open, frame, sent, due, together>>

issue_token(t, days) ==
    /\ ~disk.tokens[t].issued /\ UNCHANGED used
    /\ Command([disk EXCEPT !.tokens[t] =
                  [Unissued EXCEPT !.issued = TRUE, !.enabled = TRUE,
                     !.expires = IF days > 0 THEN now + days ELSE 0]])

revoke_token(t) ==
    /\ disk.tokens[t].issued /\ Use
    /\ Command([disk EXCEPT !.tokens[t].enabled = FALSE])

cmd_expire_scan ==
    LET old == {t \in Tokens : LET row == disk.tokens[t]
                               IN  row.issued /\ row.enabled /\ row.expires > 0
                                   /\ row.expires < now}
    IN  Use /\ Command([disk EXCEPT !.tokens =
          [t \in Tokens |-> IF t \in old THEN [@[t] EXCEPT !.enabled = FALSE, !.status = "expired"]
                                         ELSE @[t]]])

\* The service ends and comes back: what was not committed is gone.
Crash ==
    /\ Use
    /\ db' = disk /\ open' = FALSE
    /\ frame' = [w \in Workers |-> Idle]
    /\ UNCHANGED <<now, disk, sent, due, together>>

Tick ==
    /\ now < MaxTime
    /\ now' = now + 1
    /\ UNCHANGED <<db, disk, open, frame, sent, due, together, used>>

_handle_kofi_webhook(w) ==
    HookCheck(w) \/ HookRows(w) \/ HookExtend(w) \/ HookInsert(w) \/ HookCommit(w)
_handle_update(w) == UpdateCheck(w) \/ UpdateDns(w)

Next ==
    \/ \E w \in Workers : _handle_kofi_webhook(w) \/ _handle_update(w)
    \/ \E t \in Tokens : revoke_token(t) \/ \E days \in Days : issue_token(t, days)
    \/ cmd_expire_scan
    \/ Crash \/ Tick

Spec == Init /\ [][Next]_vars

-----------------------------------------------------------------------------
(* Properties *)

TablesOf(x) ==
    /\ x.events \subseteq Messages
    /\ x.tokens \in [Tokens -> Row]

\* The state has the shape that the code gives it.
TypeOK ==
    /\ now \in 1..MaxTime /\ TablesOf(db) /\ TablesOf(disk) /\ open \in BOOLEAN
    /\ sent \in 0..MaxSent /\ used \in 0..MaxUpdates /\ together \in BOOLEAN
    /\ due \in [Messages -> [seen : BOOLEAN, tokens : SUBSET Tokens]]
    /\ \A w \in Workers :
         LET f == frame[w]
         IN  /\ f.pc \in {"idle", "rows", "extend", "insert", "commit", "dns"}
             /\ f.msg \in Messages \cup {None} /\ f.token \in Tokens \cup {None}
             /\ f.at \in Nat /\ f.todo \subseteq Tokens

(* A payment that is on record as processed (and whose later deliveries are  *)
(* answered as duplicates, managed_ddns_service.py:383-386) has extended     *)
(* every token its donor had: whatever the threads do to each other's        *)
(* transaction, and wherever the service crashes, no payment is lost.        *)
RecordedIsCredited ==
    \A m \in disk.events \cap Payments : \A t \in due[m].tokens : disk.tokens[t].credits[m] >= 1

(* "idempotency / dedup by message_id" (docs/managed-ddns-service.md:25): as *)
(* long as no webhook request runs beside another request, no message        *)
(* extends a token twice, however often it is delivered and wherever the     *)
(* service crashes.                                                          *)
CreditedOnceAlone ==
    ~together => \A t \in Tokens, m \in Messages : disk.tokens[t].credits[m] <= 1

\* The same without that condition.
CreditedOnce == \A t \in Tokens, m \in Messages : disk.tokens[t].credits[m] <= 1

(* A payment moves the end of a token that has one by the paid period at     *)
(* least (managed_ddns_service.py:397-404): neither a late payment in the    *)
(* grace days, nor one after the end, nor one far ahead of it shortens it.   *)
PaidIsExtended ==
    [][~together => \A t \in Tokens :
         LET old == db.tokens[t].expires  new == db'.tokens[t].expires
         IN  db'.tokens[t].credits # db.tokens[t].credits /\ open' /\ old > 0
               => new >= old + Delta]_vars
=============================================================================
