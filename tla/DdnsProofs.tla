----------------------------- MODULE DdnsProofs -----------------------------
(***************************************************************************)
(* No payment is lost (RecordedIsCredited of ManagedDdns.tla), for any     *)
(* number of threads, tokens, donors and messages.  The threads share one  *)
(* transaction: a commit by any of them also commits the steps of the      *)
(* others.  What makes this harmless is an order: a message is inserted    *)
(* only when every token it is due to has been extended in the same        *)
(* tables, and a token is never extended less later on.                    *)
(*                                                                         *)
(* And while no webhook request runs beside another request, no payment is *)
(* counted twice (CreditedOnceAlone) and none shortens what was paid for   *)
(* before (PaidIsExtended).                                                *)
(*                                                                         *)
(* Then the built-in DDNS (Ddns.tla and DdnsProviders.tla), for any names, *)
(* addresses, configurations and number of requests: what run_update plans *)
(* for a configuration, that every update carries such a plan through to   *)
(* its end (DdnsInv), and that an update alone at the provider is right    *)
(* about the records it found (RecordsInv).                                *)
(***************************************************************************)
EXTENDS ManagedDdns, Ddns, SequenceTheorems, TLAPS

Fields == {"pc", "msg", "token", "rows", "todo", "at"}
IsFun(f) == f = [x \in DOMAIN f |-> f[x]]
FrameOK(f) == DOMAIN f = Fields /\ IsFun(f)
Dues == [Messages -> [seen : BOOLEAN, tokens : SUBSET Tokens]]

\* How far a webhook request is with the tokens that its message is due to,
\* in the tables x.
HasCredit(m, t, x) == x.tokens[t].credits[m] >= 1
Ready(f, d, x) ==
    /\ f.pc \in {"rows", "extend", "insert"} => f.msg \in Messages /\ d[f.msg].seen
    /\ f.pc \in {"rows", "extend", "dns"} => f.at \in Nat
    /\ f.pc = "dns" => f.token \in Tokens
    /\ f.pc \in {"rows", "extend"} => f.msg \in Payments
    /\ f.pc = "extend" =>
         /\ f.todo \subseteq Tokens
         /\ \A t \in f.todo : f.rows[t] \in Nat
         /\ \A t \in d[f.msg].tokens \ f.todo : HasCredit(f.msg, t, x)
    /\ f.pc = "insert" /\ f.msg \in Payments =>
         \A t \in d[f.msg].tokens : HasCredit(f.msg, t, x)

\* Payments on record in the tables x are credited in them.
Credited(d, x) ==
    /\ \A m \in x.events : d[m].seen
    /\ \A m \in x.events \cap Payments : \A t \in d[m].tokens : HasCredit(m, t, x)
\* Whom a message is due to has an issued token.
DueIssued(d, x) ==
    \A m \in Messages : \A t \in d[m].tokens : x.tokens[t].issued /\ DonorOf[t] = SenderOf[m]

TablesInv ==
    /\ db \in Tables /\ disk \in Tables /\ now \in Nat /\ due \in Dues
    /\ ~open => db = disk
    /\ \A t \in Tokens : db.tokens[t].issued = disk.tokens[t].issued
    /\ Credited(due, db) /\ Credited(due, disk)
    /\ DueIssued(due, db)
FramesInv ==
    /\ DOMAIN frame = Workers
    /\ \A w \in Workers : FrameOK(frame[w]) /\ Ready(frame[w], due, db)
Inv == TablesInv /\ FramesInv

LEMMA IdleReady == \A d, x : FrameOK(Idle) /\ Ready(Idle, d, x)
BY DEF Idle, FrameOK, IsFun, Fields, Ready

-----------------------------------------------------------------------------
(* Tables that credit at least what others credit.                           *)

Grows(d, x, y) == \A m \in Messages : \A t \in d[m].tokens : HasCredit(m, t, x) => HasCredit(m, t, y)

LEMMA ReadyGrows ==
  ASSUME NEW f, NEW d, NEW x, NEW y, Ready(f, d, x), Grows(d, x, y)
  PROVE  Ready(f, d, y)
BY DEF Ready, Grows

LEMMA CreditedGrows ==
  ASSUME NEW d \in Dues, NEW x \in Tables, NEW y \in Tables, Credited(d, x), Grows(d, x, y),
         y.events = x.events
  PROVE  Credited(d, y)
BY DEF Credited, Grows, Tables

\* A request goes on while the tables grow or stay.
LEMMA FramesGo ==
  ASSUME FramesInv, due' = due, Grows(due, db, db'),
         NEW w \in Workers, NEW g, Goes(w, g), FrameOK(g), Ready(g, due, db')
  PROVE  FramesInv'
<1>1. \A v \in Workers \ {w} : frame'[v] = frame[v]
  BY DEF FramesInv, Goes
<1>2. frame'[w] = g /\ DOMAIN frame' = Workers
  BY DEF FramesInv, Goes
<1>3. \A v \in Workers : FrameOK(frame'[v]) /\ Ready(frame'[v], due, db')
  BY <1>1, <1>2, ReadyGrows DEF FramesInv
<1> QED
  BY <1>2, <1>3 DEF FramesInv

LEMMA GrowsSame == \A d, x : Grows(d, x, x)
BY DEF Grows

\* A request goes on and touches no table.
LEMMA OnlyFrame ==
  ASSUME Inv, NEW w \in Workers, NEW g, Goes(w, g), FrameOK(g), Ready(g, due, db),
         UNCHANGED <<now, db, disk, open, due>>
  PROVE  Inv'
<1>1. FramesInv'
  BY FramesGo, GrowsSame DEF Inv
<1>2. TablesInv'
  BY DEF Inv, TablesInv, Credited, DueIssued
<1> QED
  BY <1>1, <1>2 DEF Inv

-----------------------------------------------------------------------------
(* The webhook.                                                              *)

LEMMA CheckStep ==
  ASSUME Inv, NEW w \in Workers, HookCheck(w)
  PROVE  Inv'
<1> USE DEF Inv
<1>1. PICK m \in Messages :
        /\ due' = IF due[m].seen THEN due
                  ELSE [due EXCEPT ![m] = [seen |-> TRUE, tokens |-> IssuedTo(SenderOf[m])]]
        /\ \/ m \in db.events /\ Ends(w)
           \/ Goes(w, [Idle EXCEPT !.pc = IF m \in Payments THEN "rows" ELSE "insert",
                                   !.msg = m, !.at = now])
  BY DEF HookCheck
<1>2. UNCHANGED <<now, db, disk, open>>
  BY DEF HookCheck
<1>3. /\ due' \in Dues /\ due'[m].seen
      /\ \A n \in Messages : due[n].seen => due'[n] = due[n]
      /\ \A n \in Messages : due'[n] # due[n] => n = m /\ due'[n].tokens = IssuedTo(SenderOf[m])
  BY <1>1 DEF TablesInv, Dues, IssuedTo
<1>4. \A v \in Workers : Ready(frame[v], due', db)
  <2> SUFFICES ASSUME NEW v \in Workers PROVE Ready(frame[v], due', db)
    OBVIOUS
  <2>1. Ready(frame[v], due, db)
    BY DEF FramesInv
  <2> QED
    BY <1>3, <2>1 DEF Ready
<1>5. TablesInv'
  <2>1. Credited(due', db) /\ Credited(due', disk)
    BY <1>3 DEF TablesInv, Credited, Tables
  <2>2. DueIssued(due', db)
    BY <1>3 DEF TablesInv, DueIssued, IssuedTo
  <2> QED
    BY <1>2, <1>3, <2>1, <2>2 DEF TablesInv
<1> DEFINE g == [Idle EXCEPT !.pc = IF m \in Payments THEN "rows" ELSE "insert",
                             !.msg = m, !.at = now]
<1>6. FrameOK(g) /\ g.pc = (IF m \in Payments THEN "rows" ELSE "insert") /\ g.msg = m /\ g.at = now
  BY DEF Idle, FrameOK, IsFun, Fields
<1>7. Goes(w, g) \/ Goes(w, Idle)
  BY <1>1 DEF Ends
<1> HIDE DEF g
<1>8. Ready(g, due', db)
  BY <1>3, <1>6 DEF Ready, TablesInv
<1>9. FramesInv'
  <2>1. PICK h : Goes(w, h) /\ FrameOK(h) /\ Ready(h, due', db)
    BY <1>6, <1>7, <1>8, IdleReady
  <2>2. DOMAIN frame' = Workers /\ frame'[w] = h /\ \A v \in Workers \ {w} : frame'[v] = frame[v]
    BY <2>1 DEF FramesInv, Goes
  <2> QED
    BY <1>2, <1>4, <2>1, <2>2 DEF FramesInv
<1> QED
  BY <1>5, <1>9

LEMMA RowsStep ==
  ASSUME Inv, NEW w \in Workers, HookRows(w)
  PROVE  Inv'
<1> DEFINE f == frame[w]
           mine == IssuedTo(SenderOf[f.msg])
           g == [f EXCEPT !.pc = "extend", !.todo = mine, !.at = now,
                          !.rows = [t \in mine |-> db.tokens[t].expires]]
<1>1. f.pc = "rows" /\ Goes(w, g) /\ UNCHANGED <<now, db, disk, open, due>>
  BY DEF HookRows
<1>2. FrameOK(f) /\ Ready(f, due, db)
  BY DEF Inv, FramesInv
<1>3. /\ FrameOK(g) /\ g.pc = "extend" /\ g.msg = f.msg /\ g.todo = mine /\ g.at = now
      /\ g.rows = [t \in mine |-> db.tokens[t].expires]
  BY <1>2 DEF FrameOK, IsFun, Fields
<1>4. mine \subseteq Tokens /\ \A t \in mine : db.tokens[t].expires \in Nat
  BY DEF IssuedTo, Inv, TablesInv, Tables, Row
<1>5. f.msg \in Messages /\ due[f.msg].seen /\ f.msg \in Payments
  BY <1>1, <1>2 DEF Ready
<1>6. due[f.msg].tokens \subseteq mine
  BY <1>5 DEF IssuedTo, Inv, TablesInv, DueIssued, Dues
<1> HIDE DEF g, mine, f
<1>7. Ready(g, due, db)
  BY <1>3, <1>4, <1>5, <1>6 DEF Ready, Inv, TablesInv
<1> QED
  BY <1>1, <1>3, <1>7, OnlyFrame

\* The new end of a token is a time.
LEMMA NextExp == ASSUME NEW a \in Nat, NEW b \in Nat PROVE next_exp(a, b) \in Nat
BY ManagedAssumption DEF next_exp, Later

LEMMA ExtendedRow ==
  ASSUME NEW row \in Row, NEW n \in Nat, NEW m \in Messages
  PROVE  /\ Extended(row, n, m) \in Row /\ Extended(row, n, m).issued = row.issued
         /\ Extended(row, n, m).credits[m] >= 1
         /\ \A k \in Messages : row.credits[k] >= 1 => Extended(row, n, m).credits[k] >= 1
<1> DEFINE c == [row.credits EXCEPT ![m] = @ + 1]
<1>1. row.credits \in [Messages -> Nat]
  BY DEF Row
<1>2. c \in [Messages -> Nat] /\ c[m] >= 1 /\ \A k \in Messages : row.credits[k] >= 1 => c[k] >= 1
  BY <1>1
<1>3. Extended(row, n, m) = [row EXCEPT !.enabled = TRUE, !.status = "active", !.expires = n,
                                        !.credits = c]
  BY DEF Extended
<1> HIDE DEF c
<1>4. Extended(row, n, m) \in Row /\ Extended(row, n, m).issued = row.issued
      /\ Extended(row, n, m).credits = c
  BY <1>2, <1>3 DEF Row
<1> QED
  BY <1>2, <1>4

LEMMA ExtendStep ==
  ASSUME Inv, NEW w \in Workers, HookExtend(w)
  PROVE  Inv'
<1> DEFINE f == frame[w]
<1>1. f.pc = "extend" /\ UNCHANGED <<now, disk, due>>
  BY DEF HookExtend
<1>2. FrameOK(f) /\ Ready(f, due, db)
  BY DEF Inv, FramesInv
<1>3. CASE /\ f.todo = {} /\ Goes(w, [f EXCEPT !.pc = "insert"])
           /\ UNCHANGED <<db, open>>
  <2> DEFINE g == [f EXCEPT !.pc = "insert"]
  <2>1. FrameOK(g) /\ g.pc = "insert" /\ g.msg = f.msg /\ Goes(w, g)
    BY <1>2, <1>3 DEF FrameOK, IsFun, Fields
  <2> HIDE DEF g
  <2>2. Ready(g, due, db)
    BY <1>1, <1>2, <1>3, <2>1 DEF Ready
  <2> QED
    BY <1>1, <1>3, <2>1, <2>2, OnlyFrame
<1>4. ASSUME NEW t \in f.todo,
             Executes([db EXCEPT !.tokens[t] =
                         Extended(db.tokens[t], next_exp(f.rows[t], f.at), f.msg)]),
             Goes(w, [f EXCEPT !.todo = @ \ {t}])
      PROVE  Inv'
  <2> DEFINE g == [f EXCEPT !.todo = @ \ {t}]
             n == next_exp(f.rows[t], f.at)
             row == db.tokens[t]
             new == Extended(row, n, f.msg)
  <2>1. FrameOK(g) /\ g.pc = "extend" /\ g.msg = f.msg /\ g.rows = f.rows /\ g.at = f.at
        /\ g.todo = f.todo \ {t} /\ Goes(w, g)
    BY <1>1, <1>2, <1>4 DEF FrameOK, IsFun, Fields
  <2>2. t \in Tokens /\ f.msg \in Messages /\ n \in Nat
    BY <1>1, <1>2, NextExp DEF Ready
  <2>3. db \in Tables /\ row \in Row
    BY <2>2 DEF Inv, TablesInv, Tables
  <2>4. /\ new \in Row /\ new.issued = row.issued /\ new.credits[f.msg] >= 1
        /\ \A k \in Messages : row.credits[k] >= 1 => new.credits[k] >= 1
    <3> HIDE DEF n, row, f
    <3> QED
      BY <2>2, <2>3, ExtendedRow
  <2>5. db' = [db EXCEPT !.tokens[t] = new] /\ open'
    BY <1>4 DEF Executes
  <2> HIDE DEF g, n, new
  <2>6. /\ db' \in Tables /\ db'.events = db.events /\ db'.tokens[t] = new
        /\ \A u \in Tokens \ {t} : db'.tokens[u] = db.tokens[u]
    BY <2>2, <2>3, <2>4, <2>5 DEF Tables
  <2>7. /\ \A m \in Messages : HasCredit(m, t, db) => HasCredit(m, t, db')
        /\ HasCredit(f.msg, t, db')
    BY <2>2, <2>4, <2>6 DEF HasCredit
  <2>8. Grows(due, db, db')
    BY <2>2, <2>6, <2>7 DEF Grows, HasCredit, Inv, TablesInv, Dues
  <2>9. Ready(g, due, db')
    <3>1. Ready(f, due, db')
      BY <1>2, <2>8, ReadyGrows
    <3> QED
      BY <1>1, <2>1, <2>7, <3>1 DEF Ready
  <2>10. FramesInv'
    BY <1>1, <2>1, <2>8, <2>9, FramesGo DEF Inv
  <2>11. TablesInv'
    <3>1. Credited(due, db')
      BY <2>3, <2>6, <2>8, CreditedGrows DEF Inv, TablesInv
    <3>2. \A u \in Tokens : db'.tokens[u].issued = db.tokens[u].issued
      BY <2>4, <2>6
    <3>3. DueIssued(due, db')
      <4>1. DueIssued(due, db) /\ due \in Dues
        BY DEF Inv, TablesInv
      <4>2. \A m \in Messages : due[m].tokens \subseteq Tokens
        BY <4>1 DEF Dues
      <4> QED
        BY ONLY <3>2, <4>1, <4>2 DEF DueIssued
    <3>4. Credited(due, disk) /\ disk \in Tables /\ now \in Nat /\ due \in Dues
          /\ \A u \in Tokens : db.tokens[u].issued = disk.tokens[u].issued
      BY DEF Inv, TablesInv
    <3> QED
      BY ONLY <1>1, <2>5, <2>6, <3>1, <3>2, <3>3, <3>4 DEF TablesInv
  <2> QED
    BY <2>10, <2>11 DEF Inv
<1> QED
  BY <1>3, <1>4 DEF HookExtend

LEMMA InsertStep ==
  ASSUME Inv, NEW w \in Workers, HookInsert(w)
  PROVE  Inv'
<1> DEFINE f == frame[w]
<1>1. f.pc = "insert" /\ open' = TRUE /\ UNCHANGED <<now, disk, due>>
  BY DEF HookInsert
<1>2. FrameOK(f) /\ Ready(f, due, db)
  BY DEF Inv, FramesInv
<1>3. /\ db \in Tables /\ disk \in Tables /\ now \in Nat /\ due \in Dues
      /\ \A t \in Tokens : db.tokens[t].issued = disk.tokens[t].issued
      /\ Credited(due, db) /\ Credited(due, disk) /\ DueIssued(due, db)
  BY DEF Inv, TablesInv
<1>4. f.msg \in Messages /\ due[f.msg].seen
      /\ (f.msg \in Payments => \A t \in due[f.msg].tokens : HasCredit(f.msg, t, db))
  BY <1>1, <1>2 DEF Ready
<1>5. CASE Ends(w) /\ UNCHANGED db
  <2>1. FramesInv'
    BY <1>1, <1>5, IdleReady, GrowsSame, FramesGo DEF Ends, Inv
  <2>2. TablesInv'
    BY ONLY <1>1, <1>3, <1>5 DEF TablesInv
  <2> QED
    BY <2>1, <2>2 DEF Inv
<1>6. CASE /\ db' = [db EXCEPT !.events = @ \cup {f.msg}]
           /\ Goes(w, [f EXCEPT !.pc = "commit"])
  <2> DEFINE g == [f EXCEPT !.pc = "commit"]
  <2>1. FrameOK(g) /\ g.pc = "commit" /\ Goes(w, g)
    BY <1>2, <1>6 DEF FrameOK, IsFun, Fields
  <2> HIDE DEF g
  <2>2. db' \in Tables /\ db'.tokens = db.tokens /\ db'.events = db.events \cup {f.msg}
    BY <1>3, <1>4, <1>6 DEF Tables
  <2>3. Grows(due, db, db') /\ DueIssued(due, db')
    BY <1>3, <2>2 DEF Grows, HasCredit, DueIssued
  <2>4. Ready(g, due, db')
    BY <2>1 DEF Ready
  <2>5. FramesInv'
    BY <1>1, <2>1, <2>3, <2>4, FramesGo DEF Inv
  <2>6. Credited(due, db')
    BY <1>3, <1>4, <2>2 DEF Credited, HasCredit
  <2>7. TablesInv'
    BY ONLY <1>1, <1>3, <2>2, <2>3, <2>6 DEF TablesInv
  <2> QED
    BY <2>5, <2>7 DEF Inv
<1> QED
  BY <1>5, <1>6 DEF HookInsert

\* Committing makes the tables on disk those of the connection, whoever
\* changed them.
LEMMA CommitStep ==
  ASSUME Inv, NEW w \in Workers, HookCommit(w)
  PROVE  Inv'
<1>1. disk' = db /\ open' = FALSE /\ UNCHANGED <<now, db, due>> /\ Ends(w)
  BY DEF HookCommit, commit
<1>2. FramesInv'
  BY <1>1, IdleReady, GrowsSame, FramesGo DEF Ends, Inv
<1>3. TablesInv'
  BY <1>1 DEF Inv, TablesInv, Credited, DueIssued
<1> QED
  BY <1>2, <1>3 DEF Inv

-----------------------------------------------------------------------------
(* Updates, commands, crashes.                                               *)

LEMMA UpdateCheckStep ==
  ASSUME Inv, NEW w \in Workers, UpdateCheck(w)
  PROVE  Inv'
<1>1. PICK t \in Tokens : Goes(w, [Idle EXCEPT !.pc = "dns", !.token = t, !.at = now])
  BY DEF UpdateCheck
<1>2. UNCHANGED <<now, db, disk, open, due>>
  BY DEF UpdateCheck
<1> DEFINE g == [Idle EXCEPT !.pc = "dns", !.token = t, !.at = now]
<1>3. FrameOK(g) /\ g.pc = "dns" /\ g.token = t /\ g.at = now /\ Goes(w, g)
  BY <1>1 DEF Idle, FrameOK, IsFun, Fields
<1> HIDE DEF g
<1>4. Ready(g, due, db)
  BY <1>3 DEF Ready, Inv, TablesInv
<1> QED
  BY <1>2, <1>3, <1>4, OnlyFrame

\* A change that leaves what is issued, credited and recorded as it is.
SameBooks(x, y) ==
    /\ y \in Tables /\ y.events = x.events
    /\ \A t \in Tokens : y.tokens[t].issued = x.tokens[t].issued
                         /\ y.tokens[t].credits = x.tokens[t].credits

\* The time of an update is no matter of the books.
LEMMA UpdateBooks ==
  ASSUME Inv, NEW w \in Workers, UpdateDns(w)
  PROVE  SameBooks(db, db')
<1> DEFINE f == frame[w]
<1>1. db \in Tables /\ f.token \in Tokens /\ f.at \in Nat
  BY DEF UpdateDns, Inv, TablesInv, FramesInv, Ready
<1>2. db' = db \/ db' = [db EXCEPT !.tokens[f.token].last = f.at]
  BY DEF UpdateDns, Executes
<1>3. SameBooks(db, db)
  BY <1>1 DEF SameBooks
<1>4. ASSUME NEW t \in Tokens, NEW a \in Nat
      PROVE  SameBooks(db, [db EXCEPT !.tokens[t].last = a])
  <2> DEFINE row == db.tokens[t]
             new == [row EXCEPT !.last = a]
  <2>1. new \in Row /\ new.issued = row.issued /\ new.credits = row.credits
    BY <1>1 DEF Tables, Row
  <2>2. [db EXCEPT !.tokens[t].last = a] = [db EXCEPT !.tokens[t] = new]
    OBVIOUS
  <2> HIDE DEF new
  <2> QED
    BY <1>1, <2>1, <2>2 DEF SameBooks, Tables
<1> QED
  BY <1>1, <1>2, <1>3, <1>4

LEMMA UpdateDnsStep ==
  ASSUME Inv, NEW w \in Workers, UpdateDns(w)
  PROVE  Inv'
<1> DEFINE f == frame[w]
           g == [f EXCEPT !.pc = "commit"]
<1>1. f.pc = "dns" /\ open' = TRUE /\ UNCHANGED <<now, disk, due>> /\ Goes(w, g)
  BY DEF UpdateDns, Executes
<1>2. FrameOK(f) /\ Ready(f, due, db)
  BY DEF Inv, FramesInv
<1>3. /\ db \in Tables /\ disk \in Tables /\ now \in Nat /\ due \in Dues
      /\ \A t \in Tokens : db.tokens[t].issued = disk.tokens[t].issued
      /\ Credited(due, db) /\ Credited(due, disk) /\ DueIssued(due, db)
  BY DEF Inv, TablesInv
<1>4. FrameOK(g) /\ g.pc = "commit"
  BY <1>2 DEF FrameOK, IsFun, Fields
<1>6. SameBooks(db, db')
  BY UpdateBooks
<1> HIDE DEF g, f
<1>7. Grows(due, db, db') /\ DueIssued(due, db') /\ db' \in Tables
  <2>1. \A m \in Messages : due[m].tokens \subseteq Tokens
    BY <1>3 DEF Dues
  <2> QED
    BY <1>3, <1>6, <2>1 DEF SameBooks, Grows, HasCredit, DueIssued
<1>8. Ready(g, due, db')
  BY <1>4 DEF Ready
<1>9. FramesInv'
  BY <1>1, <1>4, <1>7, <1>8, FramesGo DEF Inv
<1>10. Credited(due, db')
  BY <1>3, <1>6, <1>7, CreditedGrows DEF SameBooks
<1>11. TablesInv'
  <2>1. \A t \in Tokens : db'.tokens[t].issued = disk.tokens[t].issued
    BY <1>3, <1>6 DEF SameBooks
  <2> QED
    BY ONLY <1>1, <1>3, <1>7, <1>10, <2>1 DEF TablesInv
<1> QED
  BY <1>9, <1>11 DEF Inv

\* A command keeps the credits of the tokens that are issued.
LEMMA CommandStep ==
  ASSUME Inv, NEW x \in Tables, Command(x), x.events = disk.events,
         \A t \in Tokens : disk.tokens[t].issued =>
             x.tokens[t].issued /\ x.tokens[t].credits = disk.tokens[t].credits
  PROVE  Inv'
<1>1. ~open /\ db' = x /\ disk' = x /\ UNCHANGED <<now, open, frame, due>>
  BY DEF Command
<1>2. /\ db = disk /\ now \in Nat /\ due \in Dues /\ disk \in Tables
      /\ Credited(due, disk) /\ DueIssued(due, disk)
  BY <1>1 DEF Inv, TablesInv
<1>3. \A m \in Messages : due[m].tokens \subseteq Tokens
  BY <1>2 DEF Dues
<1>4. Grows(due, disk, x) /\ DueIssued(due, x)
  BY <1>2, <1>3 DEF Grows, HasCredit, DueIssued
<1>5. Credited(due, x)
  BY <1>2, <1>4, CreditedGrows
<1>6. TablesInv'
  BY ONLY <1>1, <1>2, <1>4, <1>5, x \in Tables DEF TablesInv
<1>7. FramesInv'
  BY <1>1, <1>2, <1>4, ReadyGrows DEF Inv, FramesInv
<1> QED
  BY <1>6, <1>7 DEF Inv

LEMMA IssueStep ==
  ASSUME Inv, NEW t \in Tokens, NEW days \in Days, issue_token(t, days)
  PROVE  Inv'
<1> DEFINE new == [Unissued EXCEPT !.issued = TRUE, !.enabled = TRUE,
                                   !.expires = IF days > 0 THEN now + days ELSE 0]
           x == [disk EXCEPT !.tokens[t] = new]
<1>1. disk \in Tables /\ now \in Nat /\ days \in Nat
  BY ManagedAssumption DEF Inv, TablesInv
<1>2. new \in Row
  <2>1. Unissued \in Row
    BY DEF Unissued, Row
  <2>2. (IF days > 0 THEN now + days ELSE 0) \in Nat
    BY <1>1
  <2> QED
    BY <2>1, <2>2 DEF Row
<1>3. Command(x) /\ ~disk.tokens[t].issued
  BY DEF issue_token
<1> HIDE DEF new
<1>4. x \in Tables /\ x.events = disk.events /\ \A u \in Tokens \ {t} : x.tokens[u] = disk.tokens[u]
  BY <1>1, <1>2 DEF Tables
<1> HIDE DEF x
<1> QED
  BY <1>3, <1>4, CommandStep

LEMMA RevokeStep ==
  ASSUME Inv, NEW t \in Tokens, revoke_token(t)
  PROVE  Inv'
<1> DEFINE x == [disk EXCEPT !.tokens[t].enabled = FALSE]
<1>1. disk \in Tables
  BY DEF Inv, TablesInv
<1>2. Command(x)
  BY DEF revoke_token
<1>3. SameBooks(disk, x)
  <2> DEFINE row == disk.tokens[t]
             new == [row EXCEPT !.enabled = FALSE]
  <2>1. new \in Row /\ new.issued = row.issued /\ new.credits = row.credits
    BY <1>1 DEF Tables, Row
  <2>2. x = [disk EXCEPT !.tokens[t] = new]
    OBVIOUS
  <2> HIDE DEF new, x
  <2> QED
    BY <1>1, <2>1, <2>2 DEF SameBooks, Tables
<1> HIDE DEF x
<1> QED
  BY <1>2, <1>3, CommandStep DEF SameBooks

LEMMA ScanStep ==
  ASSUME Inv, cmd_expire_scan
  PROVE  Inv'
<1>1. disk \in Tables
  BY DEF Inv, TablesInv
<1>2. PICK old \in SUBSET Tokens :
        Command([disk EXCEPT !.tokens =
          [t \in Tokens |-> IF t \in old THEN [@[t] EXCEPT !.enabled = FALSE, !.status = "expired"]
                                         ELSE @[t]]])
  BY DEF cmd_expire_scan
<1> DEFINE rows == [t \in Tokens |-> IF t \in old
                      THEN [disk.tokens[t] EXCEPT !.enabled = FALSE, !.status = "expired"]
                      ELSE disk.tokens[t]]
           x == [disk EXCEPT !.tokens = rows]
<1>3. SameBooks(disk, x)
  <2>1. ASSUME NEW row \in Row
        PROVE  LET new == [row EXCEPT !.enabled = FALSE, !.status = "expired"]
               IN  new \in Row /\ new.issued = row.issued /\ new.credits = row.credits
    BY DEF Row
  <2>2. \A t \in Tokens : disk.tokens[t] \in Row
    BY <1>1 DEF Tables
  <2>3. \A t \in Tokens : rows[t] \in Row /\ rows[t].issued = disk.tokens[t].issued
                          /\ rows[t].credits = disk.tokens[t].credits
    BY <2>1, <2>2
  <2>4. rows \in [Tokens -> Row]
    BY <2>3
  <2> HIDE DEF rows
  <2> QED
    BY <1>1, <2>3, <2>4 DEF SameBooks, Tables
<1>4. Command(x)
  BY <1>2
<1> HIDE DEF x
<1> QED
  BY <1>3, <1>4, CommandStep DEF SameBooks

LEMMA CrashStep == Inv /\ Crash => Inv'
<1> SUFFICES ASSUME Inv, Crash PROVE Inv'
  OBVIOUS
<1>1. db' = disk /\ open' = FALSE /\ UNCHANGED <<now, disk, due>>
      /\ frame' = [w \in Workers |-> Idle]
  BY DEF Crash
<1>2. FramesInv'
  BY <1>1, IdleReady DEF FramesInv
<1>3. DueIssued(due, disk)
  <2>1. \A m \in Messages : due[m].tokens \subseteq Tokens
    BY DEF Inv, TablesInv, Dues
  <2> QED
    BY <2>1 DEF Inv, TablesInv, DueIssued
<1>4. /\ disk \in Tables /\ now \in Nat /\ due \in Dues /\ Credited(due, disk)
  BY DEF Inv, TablesInv
<1>5. TablesInv'
  BY ONLY <1>1, <1>3, <1>4 DEF TablesInv
<1> QED
  BY <1>2, <1>5 DEF Inv

-----------------------------------------------------------------------------
LEMMA InvInit == Init => Inv
<1> SUFFICES ASSUME Init PROVE Inv
  OBVIOUS
<1>1. Unissued \in Row
  BY DEF Unissued, Row
<1>2. db \in Tables /\ disk = db /\ open = FALSE /\ now = 1 /\ db.events = {}
      /\ due \in Dues /\ \A m \in Messages : due[m].tokens = {}
  BY <1>1 DEF Init, Tables, Dues
<1>3. TablesInv
  BY <1>2 DEF TablesInv, Credited, DueIssued
<1>4. FramesInv
  BY IdleReady DEF Init, FramesInv
<1> QED
  BY <1>3, <1>4 DEF Inv

LEMMA InvStep == Inv /\ [Next]_vars => Inv'
<1> SUFFICES ASSUME Inv, [Next]_vars PROVE Inv'
  OBVIOUS
<1>1. ASSUME NEW w \in Workers, _handle_kofi_webhook(w) PROVE Inv'
  BY <1>1, CheckStep, RowsStep, ExtendStep, InsertStep, CommitStep DEF _handle_kofi_webhook
<1>2. ASSUME NEW w \in Workers, _handle_update(w) PROVE Inv'
  BY <1>2, UpdateCheckStep, UpdateDnsStep DEF _handle_update
<1>3. ASSUME NEW t \in Tokens, revoke_token(t) PROVE Inv'
  BY <1>3, RevokeStep
<1>4. ASSUME NEW t \in Tokens, NEW days \in Days, issue_token(t, days) PROVE Inv'
  BY <1>4, IssueStep
<1>5. CASE cmd_expire_scan
  BY <1>5, ScanStep
<1>6. CASE Crash
  BY <1>6, CrashStep
<1>7. CASE Tick
  BY <1>7 DEF Tick, Inv, TablesInv, FramesInv, Credited, DueIssued
<1>8. CASE UNCHANGED vars
  BY <1>8 DEF vars, Inv, TablesInv, FramesInv, Credited, DueIssued
<1> QED
  BY <1>1, <1>2, <1>3, <1>4, <1>5, <1>6, <1>7, <1>8 DEF Next

\* A payment on record has extended every token that its donor had when it was
\* first delivered (managed_ddns_service.py:383-412).
THEOREM RecordedIsCreditedAlways == Spec => []RecordedIsCredited
<1>1. Inv => RecordedIsCredited
  BY DEF Inv, TablesInv, Credited, HasCredit, RecordedIsCredited
<1> QED
  BY InvInit, InvStep, <1>1, PTL DEF Spec
-----------------------------------------------------------------------------
(***************************************************************************)
(* What a webhook request does that no other request runs beside: no       *)
(* message extends a token twice, and none shortens it.  Until its message *)
(* is on record nobody changes what the request has read; where it stops   *)
(* half-way, the tables on disk know nothing of the message.               *)
(***************************************************************************)
Credits(x, t, m) == x.tokens[t].credits[m]
Once(x)  == \A t \in Tokens, m \in Messages : Credits(x, t, m) <= 1
Clean(x) == \A m \in Messages \ x.events : \A t \in Tokens : Credits(x, t, m) = 0

\* What a request knows of the tables x.
Steady(f, x) ==
    /\ f.pc \in {"idle", "rows", "extend", "insert", "commit", "dns"}
    /\ f.pc \in {"idle", "dns"} => f.msg = None
    /\ f.pc \in {"rows", "extend", "insert"} => f.msg \notin x.events
    /\ f.pc = "rows" => \A t \in Tokens : Credits(x, t, f.msg) = 0
    /\ f.pc = "extend" => \A t \in f.todo :
         /\ x.tokens[t].issued /\ Credits(x, t, f.msg) = 0
         /\ f.rows[t] = x.tokens[t].expires
    /\ f.pc = "commit" /\ f.msg # None => f.msg \in x.events

\* A webhook request has no request beside it; tokens are only extended for
\* messages that are on record or being worked on.
Solo == \A w \in Workers : frame[w].msg # None => \A v \in Workers \ {w} : frame[v].pc = "idle"
Pending(x) ==
    \A m \in Messages \ x.events :
      (\A w \in Workers : frame[w].msg # m) => \A t \in Tokens : Credits(x, t, m) = 0
Calm ==
    /\ Solo
    /\ \A w \in Workers : Steady(frame[w], db)
    /\ Once(db) /\ Once(disk) /\ Clean(disk) /\ Pending(db)
AloneInv == ~together => Calm

\* A request goes on alone: nobody else is under way.
LEMMA GoesAlone ==
  ASSUME Inv, NEW w \in Workers, NEW g, Goes(w, g)
  PROVE  /\ frame'[w] = g
         /\ \A v \in Workers \ {w} : frame'[v] = frame[v]
BY DEF Inv, FramesInv, Goes

\* Where nobody else works on a message, nobody is where it matters.
LEMMA OthersIdle ==
  ASSUME Calm, NEW w \in Workers, frame[w].msg # None
  PROVE  \A v \in Workers \ {w} : frame[v].pc = "idle" /\ frame[v].msg = None
BY DEF Calm, Solo, Steady

LEMMA UpdatesOnly ==
  ASSUME Calm, NEW w \in Workers, frame[w].pc # "idle", frame[w].msg = None
  PROVE  \A v \in Workers : frame[v].msg = None
BY DEF Calm, Solo

\* A webhook request moves on from one of its steps to the next, and to the
\* tables x; the others are idle.
LEMMA HookAlone ==
  ASSUME Inv, Calm, NEW w \in Workers, NEW g, Goes(w, g), frame[w].msg \in Messages,
         g.msg = frame[w].msg, Steady(g, db'), Once(db'), UNCHANGED disk,
         \A m \in Messages \ {g.msg} :
            /\ m \in db.events => m \in db'.events
            /\ m \notin db.events => \A t \in Tokens : Credits(db', t, m) = Credits(db, t, m)
  PROVE  Calm'
<1>1. frame'[w] = g /\ \A v \in Workers \ {w} : frame'[v] = frame[v]
  BY GoesAlone
<1>2. frame[w].msg # None
  BY ManagedAssumption
<1>3. \A v \in Workers \ {w} : frame[v].pc = "idle" /\ frame[v].msg = None
  BY <1>2, OthersIdle
<1>4. Solo'
  BY <1>1, <1>3 DEF Solo
<1>5. \A v \in Workers : Steady(frame'[v], db')
  BY <1>1, <1>3 DEF Steady
<1>6. Once(disk') /\ Clean(disk')
  BY DEF Calm
<1>7. Pending(db)'
  <2> SUFFICES ASSUME NEW m \in Messages \ db'.events,
                      \A v \in Workers : frame'[v].msg # m, NEW t \in Tokens
               PROVE  Credits(db', t, m) = 0
    BY DEF Pending
  <2>1. m # g.msg
    BY <1>1
  <2>2. m \notin db.events /\ Credits(db', t, m) = Credits(db, t, m)
    BY <2>1
  <2>3. \A v \in Workers : frame[v].msg # m
    BY <1>1, <2>1
  <2>4. Pending(db)
    BY DEF Calm
  <2> QED
    BY <2>2, <2>3, <2>4 DEF Pending
<1> QED
  BY <1>4, <1>5, <1>6, <1>7 DEF Calm

\* A request of an update moves on; the tables keep their books.
LEMMA UpdateAlone ==
  ASSUME Inv, Calm, NEW w \in Workers, NEW g, Goes(w, g), g.msg = None,
         \A v \in Workers : frame[v].msg = None,
         g.pc \in {"idle", "dns", "commit"},
         SameBooks(db, db'), \A v \in Workers : frame[v].pc \in {"idle", "dns", "commit"},
         disk' \in {disk, db}
  PROVE  Calm'
<1>1. frame'[w] = g /\ \A v \in Workers \ {w} : frame'[v] = frame[v]
  BY GoesAlone
<1>2. \A v \in Workers : frame'[v].msg = None /\ frame'[v].pc \in {"idle", "dns", "commit"}
  BY <1>1
<1>3. Solo'
  BY <1>2 DEF Solo
<1>4. \A v \in Workers : Steady(frame'[v], db')
  BY <1>2 DEF Steady
<1>5. Once(db) /\ Once(disk) /\ Clean(disk) /\ Pending(db)
  BY DEF Calm
<1>6. Clean(db)
  BY <1>5, ManagedAssumption DEF Clean, Pending
<1>7. Once(db') /\ Clean(db')
  BY <1>5, <1>6 DEF Once, Clean, Credits, SameBooks
<1>8. Once(disk') /\ Clean(disk')
  BY <1>5, <1>6
<1>9. Pending(db)'
  BY <1>7 DEF Pending, Clean
<1> QED
  BY <1>3, <1>4, <1>7, <1>8, <1>9 DEF Calm

\* An update under way is in one of three places.
LEMMA UpdatePlaces ==
  ASSUME Inv, Calm, NEW w \in Workers, frame[w].msg = None
  PROVE  frame[w].pc \in {"idle", "dns", "commit"}
BY ManagedAssumption DEF Inv, FramesInv, Ready, Calm, Steady

LEMMA CheckAlone ==
  ASSUME Inv, Calm, NEW w \in Workers, HookCheck(w), ~together'
  PROVE  Calm'
<1>1. \A v \in Workers : frame[v].pc = "idle" /\ frame[v].msg = None
  BY DEF HookCheck, AloneIs, Calm, Steady
<1>2. UNCHANGED <<db, disk>>
  BY DEF HookCheck
<1>3. Once(db) /\ Once(disk) /\ Clean(disk) /\ Clean(db)
  BY <1>1, ManagedAssumption DEF Calm, Clean, Pending
<1>4. PICK m \in Messages :
        \/ m \in db.events /\ Ends(w)
        \/ m \notin db.events
           /\ Goes(w, [Idle EXCEPT !.pc = IF m \in Payments THEN "rows" ELSE "insert",
                                   !.msg = m, !.at = now])
  BY DEF HookCheck
<1> DEFINE g == [Idle EXCEPT !.pc = IF m \in Payments THEN "rows" ELSE "insert",
                             !.msg = m, !.at = now]
<1>5. g.pc = (IF m \in Payments THEN "rows" ELSE "insert") /\ g.msg = m
  BY DEF Idle
<1>6. Idle.pc = "idle" /\ Idle.msg = None
  BY DEF Idle
<1>7. Goes(w, Idle) \/ (m \notin db.events /\ Goes(w, g))
  BY <1>4 DEF Ends
<1> HIDE DEF g
<1>8. PICK h : Goes(w, h) /\ (h = Idle \/ (m \notin db.events /\ h = g))
  BY <1>7
<1>9. frame'[w] = h /\ \A v \in Workers \ {w} : frame'[v] = frame[v]
  BY <1>8, GoesAlone
<1>10. Steady(h, db)
  BY <1>3, <1>5, <1>6, <1>8 DEF Steady, Clean
<1>11. Solo'
  BY <1>1, <1>9 DEF Solo
<1>12. \A v \in Workers : Steady(frame'[v], db')
  BY <1>1, <1>2, <1>9, <1>10 DEF Steady
<1>13. Pending(db)'
  BY <1>2, <1>3 DEF Pending, Clean
<1> QED
  BY <1>2, <1>3, <1>11, <1>12, <1>13 DEF Calm

LEMMA RowsAlone ==
  ASSUME Inv, Calm, NEW w \in Workers, HookRows(w)
  PROVE  Calm'
<1> DEFINE f == frame[w]
           mine == IssuedTo(SenderOf[f.msg])
           rows == [t \in mine |-> db.tokens[t].expires]
           g == [f EXCEPT !.pc = "extend", !.todo = mine, !.at = now, !.rows = rows]
<1>1. f.pc = "rows" /\ Goes(w, g) /\ UNCHANGED <<db, disk>>
  BY DEF HookRows
<1>2. FrameOK(f) /\ f.msg \in Messages
  BY <1>1 DEF Inv, FramesInv, Ready
<1>3. g.pc = "extend" /\ g.msg = f.msg /\ g.todo = mine /\ g.rows = rows
  BY <1>2 DEF FrameOK, IsFun, Fields
<1>4. \A t \in mine : t \in Tokens /\ db.tokens[t].issued /\ rows[t] = db.tokens[t].expires
  BY DEF IssuedTo
<1> HIDE DEF g, rows, mine
<1>5. Steady(f, db)
  BY DEF Calm
<1>6. Steady(g, db')
  BY <1>1, <1>3, <1>4, <1>5 DEF Steady
<1> HIDE DEF f
<1>7. Once(db')
  BY <1>1 DEF Calm
<1> QED
  BY <1>1, <1>2, <1>3, <1>6, <1>7, HookAlone DEF f

LEMMA ExtendedCredits ==
  ASSUME NEW row \in Row, NEW n \in Nat, NEW m \in Messages
  PROVE  /\ Extended(row, n, m) \in Row
         /\ Extended(row, n, m).credits[m] = row.credits[m] + 1
         /\ \A k \in Messages \ {m} : Extended(row, n, m).credits[k] = row.credits[k]
<1> DEFINE c == [row.credits EXCEPT ![m] = @ + 1]
<1>1. row.credits \in [Messages -> Nat]
  BY DEF Row
<1>2. c[m] = row.credits[m] + 1 /\ \A k \in Messages \ {m} : c[k] = row.credits[k]
  BY <1>1
<1>3. Extended(row, n, m) = [row EXCEPT !.enabled = TRUE, !.status = "active", !.expires = n,
                                        !.credits = c]
  BY DEF Extended
<1> HIDE DEF c
<1>4. Extended(row, n, m).credits = c
  BY <1>3 DEF Row
<1> QED
  BY <1>2, <1>4, ExtendedRow

LEMMA ExtendAlone ==
  ASSUME Inv, Calm, NEW w \in Workers, HookExtend(w)
  PROVE  Calm'
<1> DEFINE f == frame[w]
<1>1. f.pc = "extend" /\ UNCHANGED disk
  BY DEF HookExtend
<1>2. FrameOK(f) /\ f.msg \in Messages /\ Ready(f, due, db)
  BY <1>1 DEF Inv, FramesInv, Ready
<1>3. Steady(f, db) /\ Once(db)
  BY DEF Calm
<1>4. CASE /\ f.todo = {} /\ Goes(w, [f EXCEPT !.pc = "insert"]) /\ UNCHANGED db
  <2> DEFINE g == [f EXCEPT !.pc = "insert"]
  <2>1. g.pc = "insert" /\ g.msg = f.msg /\ Goes(w, g)
    BY <1>2, <1>4 DEF FrameOK, IsFun, Fields
  <2> HIDE DEF g
  <2>2. Steady(g, db')
    BY <1>1, <1>3, <1>4, <2>1 DEF Steady
  <2> QED
    BY <1>1, <1>2, <1>3, <1>4, <2>1, <2>2, HookAlone
<1>5. ASSUME NEW t \in f.todo,
             Executes([db EXCEPT !.tokens[t] =
                         Extended(db.tokens[t], next_exp(f.rows[t], f.at), f.msg)]),
             Goes(w, [f EXCEPT !.todo = @ \ {t}])
      PROVE  Calm'
  <2> DEFINE g == [f EXCEPT !.todo = @ \ {t}]
             n == next_exp(f.rows[t], f.at)
             row == db.tokens[t]
             new == Extended(row, n, f.msg)
  <2>1. g.pc = "extend" /\ g.msg = f.msg /\ g.rows = f.rows /\ g.todo = f.todo \ {t} /\ Goes(w, g)
    BY <1>1, <1>2, <1>5 DEF FrameOK, IsFun, Fields
  <2>2. t \in Tokens /\ f.todo \subseteq Tokens /\ n \in Nat
    BY <1>1, <1>2, NextExp DEF Ready
  <2>3. db \in Tables /\ row \in Row
    BY <2>2 DEF Inv, TablesInv, Tables
  <2>4. /\ new \in Row /\ new.credits[f.msg] = row.credits[f.msg] + 1
        /\ \A m \in Messages \ {f.msg} : new.credits[m] = row.credits[m]
    BY <1>2, <2>2, <2>3, ExtendedCredits
  <2>5. db' = [db EXCEPT !.tokens[t] = new]
    BY <1>5 DEF Executes
  <2> HIDE DEF g, n, new
  <2>6. /\ db'.events = db.events /\ db'.tokens[t] = new
        /\ \A u \in Tokens \ {t} : db'.tokens[u] = db.tokens[u]
    BY <2>2, <2>3, <2>4, <2>5 DEF Tables
  <2>7. row.credits[f.msg] = 0
    BY <1>1, <1>3 DEF Steady, Credits
  <2>8. \A m \in Messages \ {f.msg}, u \in Tokens : Credits(db', u, m) = Credits(db, u, m)
    BY <2>4, <2>6 DEF Credits
  <2>9. Once(db')
    <3> SUFFICES ASSUME NEW u \in Tokens, NEW m \in Messages PROVE Credits(db', u, m) <= 1
      BY DEF Once
    <3>1. CASE u = t /\ m = f.msg
      BY <2>4, <2>6, <2>7, <3>1 DEF Credits
    <3>2. CASE m # f.msg
      BY <1>3, <2>8, <3>2 DEF Once
    <3>3. CASE u # t
      BY <1>3, <2>6, <3>3 DEF Once, Credits
    <3> QED
      BY <3>1, <3>2, <3>3
  <2>10. Steady(g, db')
    BY <1>1, <1>3, <2>1, <2>2, <2>6 DEF Steady, Credits
  <2> HIDE DEF f
  <2> QED
    BY <1>1, <1>2, <2>1, <2>6, <2>8, <2>9, <2>10, HookAlone DEF f
<1> QED
  BY <1>4, <1>5 DEF HookExtend

LEMMA InsertAlone ==
  ASSUME Inv, Calm, NEW w \in Workers, HookInsert(w)
  PROVE  Calm'
<1> DEFINE f == frame[w]
           g == [f EXCEPT !.pc = "commit"]
<1>1. f.pc = "insert" /\ UNCHANGED disk
  BY DEF HookInsert
<1>2. FrameOK(f) /\ f.msg \in Messages
  BY <1>1 DEF Inv, FramesInv, Ready
<1>3. Steady(f, db) /\ Once(db) /\ db \in Tables
  BY DEF Calm, Inv, TablesInv
<1>4. /\ db' = [db EXCEPT !.events = @ \cup {f.msg}]
      /\ Goes(w, g)
  BY <1>1, <1>3 DEF HookInsert, Steady
<1>5. g.pc = "commit" /\ g.msg = f.msg
  BY <1>2 DEF FrameOK, IsFun, Fields
<1> HIDE DEF g
<1>6. db'.tokens = db.tokens /\ db'.events = db.events \cup {f.msg}
  BY <1>3, <1>4 DEF Tables
<1>7. Steady(g, db') /\ Once(db')
  BY <1>3, <1>5, <1>6 DEF Steady, Once, Credits
<1>8. \A m \in Messages, t \in Tokens : Credits(db', t, m) = Credits(db, t, m)
  BY <1>6 DEF Credits
<1> HIDE DEF f
<1> QED
  BY <1>1, <1>2, <1>4, <1>5, <1>6, <1>7, <1>8, HookAlone DEF f

\* What is committed is a message with all its credits, or no message's.
LEMMA CommitAlone ==
  ASSUME Inv, Calm, NEW w \in Workers, HookCommit(w)
  PROVE  Calm'
<1>1. frame[w].pc = "commit" /\ disk' = db /\ UNCHANGED db /\ Goes(w, Idle)
  BY DEF HookCommit, commit, Ends
<1>2. Once(db) /\ Pending(db) /\ Steady(frame[w], db)
  BY DEF Calm
<1>3. frame'[w] = Idle /\ \A v \in Workers \ {w} : frame'[v] = frame[v]
  BY <1>1, GoesAlone
<1>4. Idle.pc = "idle" /\ Idle.msg = None
  BY DEF Idle
<1>5. \A v \in Workers \ {w} : frame[v].msg = None
  BY <1>1 DEF Calm, Solo
<1>6. Clean(db)
  <2> SUFFICES ASSUME NEW m \in Messages \ db.events, NEW t \in Tokens
               PROVE  Credits(db, t, m) = 0
    BY DEF Clean
  <2>1. \A v \in Workers : frame[v].msg # m
    BY <1>1, <1>2, <1>5, ManagedAssumption DEF Steady
  <2> QED
    BY <1>2, <2>1 DEF Pending
<1>7. Solo'
  BY <1>3, <1>4, <1>5 DEF Solo
<1>8. \A v \in Workers : Steady(frame'[v], db')
  BY <1>1, <1>3, <1>4 DEF Steady, Calm
<1>9. Once(db') /\ Once(disk') /\ Clean(disk') /\ Pending(db)'
  BY <1>1, <1>2, <1>6 DEF Pending, Clean
<1> QED
  BY <1>7, <1>8, <1>9 DEF Calm

LEMMA UpdateStepAlone ==
  ASSUME Inv, Calm, NEW w \in Workers, _handle_update(w), ~together'
  PROVE  Calm'
<1>0. db \in Tables /\ SameBooks(db, db)
  BY DEF Inv, TablesInv, SameBooks
<1>1. CASE UpdateCheck(w)
  <2>1. PICK t \in Tokens : Goes(w, [Idle EXCEPT !.pc = "dns", !.token = t, !.at = now])
    BY <1>1 DEF UpdateCheck
  <2>2. UNCHANGED <<db, disk>> /\ \A v \in Workers : frame[v].msg = None
    BY <1>1 DEF UpdateCheck
  <2> DEFINE g == [Idle EXCEPT !.pc = "dns", !.token = t, !.at = now]
  <2>3. g.pc = "dns" /\ g.msg = None /\ Goes(w, g)
    BY <2>1 DEF Idle
  <2> HIDE DEF g
  <2>4. \A v \in Workers : frame[v].pc \in {"idle", "dns", "commit"}
    BY <2>2, UpdatePlaces
  <2> QED
    BY <1>0, <2>2, <2>3, <2>4, UpdateAlone
<1>2. CASE UpdateDns(w)
  <2> DEFINE g == [frame[w] EXCEPT !.pc = "commit"]
  <2>1. frame[w].pc = "dns" /\ Goes(w, g) /\ UNCHANGED disk
    BY <1>2 DEF UpdateDns
  <2>2. FrameOK(frame[w]) /\ frame[w].msg = None
    BY <2>1 DEF Inv, FramesInv, Calm, Steady
  <2>3. g.pc = "commit" /\ g.msg = None
    BY <2>2 DEF FrameOK, IsFun, Fields
  <2> HIDE DEF g
  <2>4. \A v \in Workers : frame[v].msg = None
    BY <2>1, <2>2, UpdatesOnly
  <2>5. \A v \in Workers : frame[v].pc \in {"idle", "dns", "commit"}
    BY <2>4, UpdatePlaces
  <2>6. SameBooks(db, db')
    BY <1>2, UpdateBooks
  <2> QED
    BY <2>1, <2>3, <2>4, <2>5, <2>6, UpdateAlone
<1> QED
  BY <1>1, <1>2 DEF _handle_update

\* A command runs when no transaction is open: what a webhook request has
\* read of the tokens it is about to extend stays as it was.
LEMMA CommandAlone ==
  ASSUME Inv, Calm, NEW x \in Tables, Command(x), x.events = disk.events,
         \A t \in Tokens :
           \/ ~disk.tokens[t].issued /\ \A m \in Messages : Credits(x, t, m) = 0
           \/ /\ x.tokens[t].issued = disk.tokens[t].issued
              /\ x.tokens[t].credits = disk.tokens[t].credits
              /\ x.tokens[t].expires = disk.tokens[t].expires
  PROVE  Calm'
<1>1. db = disk /\ db' = x /\ disk' = x /\ UNCHANGED frame
  BY DEF Command, Inv, TablesInv
<1>2. Once(db) /\ Clean(db) /\ Solo
  BY <1>1 DEF Calm
<1>3. \A t \in Tokens, m \in Messages : Credits(x, t, m) = 0 \/ Credits(x, t, m) = Credits(db, t, m)
  BY <1>1 DEF Credits
<1>4. Once(x) /\ Clean(x)
  BY <1>1, <1>2, <1>3 DEF Once, Clean
<1>5. ASSUME NEW w \in Workers PROVE Steady(frame[w], x)
  <2>1. Steady(frame[w], db) /\ Ready(frame[w], due, db)
    BY DEF Calm, Inv, FramesInv
  <2>2. frame[w].pc = "rows" => \A t \in Tokens : Credits(x, t, frame[w].msg) = 0
    BY <1>3, <2>1 DEF Steady, Ready
  <2>3. frame[w].pc = "extend" => \A t \in frame[w].todo :
            /\ x.tokens[t].issued /\ Credits(x, t, frame[w].msg) = 0
            /\ frame[w].rows[t] = x.tokens[t].expires
    BY <1>1, <1>3, <2>1 DEF Steady, Ready
  <2> QED
    BY <1>1, <2>1, <2>2, <2>3 DEF Steady
<1>6. Solo' /\ \A w \in Workers : Steady(frame'[w], db')
  BY <1>1, <1>2, <1>5 DEF Solo
<1>7. Once(db') /\ Once(disk') /\ Clean(disk')
  BY <1>1, <1>4
<1>8. Pending(db)'
  BY <1>1, <1>4 DEF Pending, Clean
<1> QED
  BY <1>6, <1>7, <1>8 DEF Calm

LEMMA IssueAlone ==
  ASSUME Inv, Calm, NEW t \in Tokens, NEW days \in Days, issue_token(t, days)
  PROVE  Calm'
<1> DEFINE end == IF days > 0 THEN now + days ELSE 0
           new == [Unissued EXCEPT !.issued = TRUE, !.enabled = TRUE, !.expires = end]
           x == [disk EXCEPT !.tokens[t] = new]
<1>1. disk \in Tables /\ end \in Nat
  BY ManagedAssumption DEF Inv, TablesInv
<1>2. new \in Row /\ \A m \in Messages : new.credits[m] = 0
  <2>1. Unissued \in Row /\ \A m \in Messages : Unissued.credits[m] = 0
    BY DEF Unissued, Row
  <2> HIDE DEF end
  <2> QED
    BY <1>1, <2>1 DEF Row
<1>3. Command(x) /\ ~disk.tokens[t].issued
  BY DEF issue_token
<1> HIDE DEF new
<1>4. /\ x \in Tables /\ x.events = disk.events /\ x.tokens[t] = new
      /\ \A u \in Tokens \ {t} : x.tokens[u] = disk.tokens[u]
  BY <1>1, <1>2 DEF Tables
<1> HIDE DEF x
<1>5. \A m \in Messages : Credits(x, t, m) = 0
  BY <1>2, <1>4 DEF Credits
<1> QED
  BY <1>3, <1>4, <1>5, CommandAlone

LEMMA RevokeAlone ==
  ASSUME Inv, Calm, NEW t \in Tokens, revoke_token(t)
  PROVE  Calm'
<1> DEFINE new == [disk.tokens[t] EXCEPT !.enabled = FALSE]
           x == [disk EXCEPT !.tokens[t] = new]
<1>1. disk \in Tables /\ Command(x)
  BY DEF Inv, TablesInv, revoke_token
<1>2. /\ new \in Row /\ new.issued = disk.tokens[t].issued
      /\ new.credits = disk.tokens[t].credits /\ new.expires = disk.tokens[t].expires
  BY <1>1 DEF Tables, Row
<1> HIDE DEF new
<1>3. /\ x \in Tables /\ x.events = disk.events /\ x.tokens[t] = new
      /\ \A u \in Tokens \ {t} : x.tokens[u] = disk.tokens[u]
  BY <1>1, <1>2 DEF Tables
<1> HIDE DEF x
<1> QED
  BY <1>1, <1>2, <1>3, CommandAlone

LEMMA ScanAlone ==
  ASSUME Inv, Calm, cmd_expire_scan
  PROVE  Calm'
<1>1. disk \in Tables
  BY DEF Inv, TablesInv
<1>2. PICK old \in SUBSET Tokens :
        Command([disk EXCEPT !.tokens =
          [t \in Tokens |-> IF t \in old THEN [@[t] EXCEPT !.enabled = FALSE, !.status = "expired"]
                                         ELSE @[t]]])
  BY DEF cmd_expire_scan
<1> DEFINE Scanned(row) == [row EXCEPT !.enabled = FALSE, !.status = "expired"]
           rows == [t \in Tokens |-> IF t \in old THEN Scanned(disk.tokens[t]) ELSE disk.tokens[t]]
           x == [disk EXCEPT !.tokens = rows]
<1>3. \A row \in Row : /\ Scanned(row) \in Row /\ Scanned(row).issued = row.issued
                       /\ Scanned(row).credits = row.credits
                       /\ Scanned(row).expires = row.expires
  BY DEF Row
<1>4. Command(x)
  BY <1>2
<1> HIDE DEF Scanned
<1>5. \A t \in Tokens : /\ rows[t] \in Row /\ rows[t].issued = disk.tokens[t].issued
                       /\ rows[t].credits = disk.tokens[t].credits
                       /\ rows[t].expires = disk.tokens[t].expires
  BY <1>1, <1>3 DEF Tables
<1>6. rows \in [Tokens -> Row]
  BY <1>5
<1> HIDE DEF rows
<1>7. x \in Tables /\ x.events = disk.events /\ x.tokens = rows
  BY <1>1, <1>6 DEF Tables
<1> HIDE DEF x
<1> QED
  BY <1>4, <1>5, <1>7, CommandAlone

LEMMA CrashAlone == ASSUME Inv, Calm, Crash PROVE Calm'
<1>1. db' = disk /\ disk' = disk /\ \A w \in Workers : frame'[w] = Idle
  BY DEF Crash
<1>2. Idle.pc = "idle" /\ Idle.msg = None
  BY DEF Idle
<1>3. Once(disk) /\ Clean(disk)
  BY DEF Calm
<1>4. Solo' /\ \A w \in Workers : Steady(frame'[w], db')
  BY <1>1, <1>2 DEF Solo, Steady
<1>5. Once(db') /\ Once(disk') /\ Clean(disk') /\ Pending(db)'
  BY <1>1, <1>3 DEF Pending, Clean
<1> QED
  BY <1>4, <1>5 DEF Calm

-----------------------------------------------------------------------------
LEMMA AloneInit == Init => AloneInv
<1> SUFFICES ASSUME Init PROVE Calm
  BY DEF AloneInv
<1>1. Idle.pc = "idle" /\ Idle.msg = None /\ \A m \in Messages : Unissued.credits[m] = 0
  BY DEF Idle, Unissued
<1>2. /\ \A w \in Workers : frame[w].pc = "idle" /\ frame[w].msg = None
      /\ db = disk /\ \A t \in Tokens, m \in Messages : Credits(db, t, m) = 0
  BY <1>1 DEF Init, Credits
<1> QED
  BY <1>2 DEF Calm, Solo, Steady, Once, Clean, Pending

\* Once two requests have run side by side, they have.
LEMMA TogetherStays == Inv /\ [Next]_vars => (together => together')
<1> SUFFICES ASSUME Inv, [Next]_vars, together PROVE together'
  OBVIOUS
<1>1. \A w \in Workers : _handle_kofi_webhook(w) => together'
  BY DEF _handle_kofi_webhook, HookCheck, HookRows, HookExtend, HookInsert, HookCommit
<1>2. \A w \in Workers : _handle_update(w) => together'
  BY DEF _handle_update, UpdateCheck, UpdateDns
<1>3. \A t \in Tokens : revoke_token(t) \/ (\E days \in Days : issue_token(t, days)) => together'
  BY DEF revoke_token, issue_token, Command
<1>4. cmd_expire_scan \/ Crash \/ Tick \/ UNCHANGED vars => together'
  BY DEF cmd_expire_scan, Command, Crash, Tick, vars
<1> QED
  BY <1>1, <1>2, <1>3, <1>4 DEF Next

LEMMA AloneStep == Inv /\ AloneInv /\ [Next]_vars => AloneInv'
<1> SUFFICES ASSUME Inv, Calm, [Next]_vars, ~together' PROVE Calm'
  BY TogetherStays DEF AloneInv
<1>1. ASSUME NEW w \in Workers, _handle_kofi_webhook(w) PROVE Calm'
  BY <1>1, CheckAlone, RowsAlone, ExtendAlone, InsertAlone, CommitAlone DEF _handle_kofi_webhook
<1>2. ASSUME NEW w \in Workers, _handle_update(w) PROVE Calm'
  BY <1>2, UpdateStepAlone
<1>3. ASSUME NEW t \in Tokens, revoke_token(t) PROVE Calm'
  BY <1>3, RevokeAlone
<1>4. ASSUME NEW t \in Tokens, NEW days \in Days, issue_token(t, days) PROVE Calm'
  BY <1>4, IssueAlone
<1>5. CASE cmd_expire_scan
  BY <1>5, ScanAlone
<1>6. CASE Crash
  BY <1>6, CrashAlone
<1>7. CASE UNCHANGED <<db, disk, frame>>
  BY <1>7 DEF Calm, Solo, Pending
<1> QED
  BY <1>1, <1>2, <1>3, <1>4, <1>5, <1>6, <1>7 DEF Next, Tick, vars

\* While no webhook request runs beside another request, no message extends a
\* token twice (managed_ddns_service.py:383-412).
THEOREM CreditedOnceAloneAlways == Spec => []CreditedOnceAlone
<1>1. AloneInv => CreditedOnceAlone
  BY DEF AloneInv, Calm, Once, Credits, CreditedOnceAlone
<1> QED
  BY InvInit, InvStep, AloneInit, AloneStep, <1>1, PTL DEF Spec

\* The paid period is added to what the token has.
LEMMA NextExpPays ==
  ASSUME NEW old \in Nat, NEW at \in Nat, old > 0
  PROVE  next_exp(old, at) >= old + Delta
BY ManagedAssumption DEF next_exp, Later

LEMMA PaidStep ==
  ASSUME Inv, Calm, [Next]_vars, NEW t \in Tokens,
         db'.tokens[t].credits # db.tokens[t].credits, open', db.tokens[t].expires > 0
  PROVE  db'.tokens[t].expires >= db.tokens[t].expires + Delta
<1>1. ASSUME db'.tokens[t].credits = db.tokens[t].credits PROVE FALSE
  BY <1>1
<1>2. PICK w \in Workers : HookExtend(w)
  <2>1. ASSUME NEW w \in Workers, HookCheck(w) \/ HookRows(w) \/ HookInsert(w) \/ HookCommit(w)
        PROVE  FALSE
    BY <1>1, <2>1 DEF HookCheck, HookRows, HookInsert, HookCommit, commit, Inv, TablesInv, Tables
  <2>2. ASSUME NEW w \in Workers, _handle_update(w) PROVE FALSE
    <3>1. SameBooks(db, db')
      BY <2>2, UpdateBooks DEF _handle_update, UpdateCheck, SameBooks, Inv, TablesInv
    <3> QED
      BY <1>1, <3>1 DEF SameBooks
  <2>3. ~open => \A x : ~Command(x)
    BY DEF Command
  <2>4. open => \A x : ~Command(x)
    BY DEF Command
  <2>5. ~Crash /\ ~Tick /\ ~UNCHANGED vars
    BY <1>1 DEF Crash, Tick, vars
  <2> QED
    BY <2>1, <2>2, <2>3, <2>4, <2>5
       DEF Next, _handle_kofi_webhook, revoke_token, issue_token, cmd_expire_scan
<1> DEFINE f == frame[w]
<1>3. PICK u \in f.todo :
        db' = [db EXCEPT !.tokens[u] = Extended(db.tokens[u], next_exp(f.rows[u], f.at), f.msg)]
  BY <1>1, <1>2 DEF HookExtend, Executes
<1>4. /\ f.at \in Nat /\ f.todo \subseteq Tokens /\ f.rows[u] = db.tokens[u].expires
      /\ f.rows[u] \in Nat /\ db \in Tables
  BY <1>2 DEF HookExtend, Inv, FramesInv, TablesInv, Ready, Calm, Steady
<1> DEFINE n == next_exp(f.rows[u], f.at)
<1>5. n \in Nat
  BY <1>4, NextExp
<1> HIDE DEF n, f
<1>6. Extended(db.tokens[u], n, f.msg).expires = n
  BY <1>4 DEF Extended, Tables, Row
<1>7. /\ db'.tokens[u] = Extended(db.tokens[u], n, f.msg)
      /\ u # t => db'.tokens[t] = db.tokens[t]
  BY <1>3, <1>4 DEF Tables, n
<1>8. u = t /\ db'.tokens[t].expires = n
  BY <1>1, <1>6, <1>7
<1>9. f.rows[u] = db.tokens[t].expires
  BY <1>4, <1>8
<1> QED
  BY <1>4, <1>8, <1>9, NextExpPays DEF n

\* A payment moves the end of a token by the paid period at least
\* (managed_ddns_service.py:397-404).
THEOREM PaidIsExtendedAlways == Spec => PaidIsExtended
<1>1. Inv /\ AloneInv /\ [Next]_vars =>
        (~together => \A t \in Tokens :
           LET old == db.tokens[t].expires  new == db'.tokens[t].expires
           IN  db'.tokens[t].credits # db.tokens[t].credits /\ open' /\ old > 0
                 => new >= old + Delta)
  BY PaidStep DEF AloneInv
<1> QED
  BY InvInit, InvStep, AloneInit, AloneStep, <1>1, PTL DEF Spec, PaidIsExtended

-----------------------------------------------------------------------------
(* The built-in DDNS.                                                        *)

Configs      == Config(Seq(Names))
Maybe4       == Addr4 \cup {NoAddress}
Maybe6       == Addr6 \cup {NoAddress}
Among(c, s)  == \E i \in DOMAIN s : s[i] = c

\* A sequence after another keeps the calls of both.
LEMMA BothLists ==
  ASSUME NEW s \in Seq(Calls), NEW t \in Seq(Calls)
  PROVE  /\ s \o t \in Seq(Calls)
         /\ \A c : Among(c, s) \/ Among(c, t) => Among(c, s \o t)
         /\ \A i \in DOMAIN (s \o t) : Among((s \o t)[i], s) \/ Among((s \o t)[i], t)
<1>1. s \o t \in Seq(Calls) /\ Len(s \o t) = Len(s) + Len(t)
  BY ConcatProperties
<1>2. \A i \in 1..Len(s) + Len(t) : (s \o t)[i] = IF i <= Len(s) THEN s[i] ELSE t[i - Len(s)]
  BY ConcatProperties
<1>3. DOMAIN (s \o t) = 1..Len(s) + Len(t) /\ DOMAIN s = 1..Len(s) /\ DOMAIN t = 1..Len(t)
      /\ Len(s) \in Nat /\ Len(t) \in Nat
  BY <1>1, LenProperties
<1>4. ASSUME NEW i \in 1..Len(s) PROVE i \in 1..Len(s) + Len(t) /\ (s \o t)[i] = s[i]
  BY <1>2, <1>3
<1>5. ASSUME NEW i \in 1..Len(t)
      PROVE  Len(s) + i \in 1..Len(s) + Len(t) /\ (s \o t)[Len(s) + i] = t[i]
  BY <1>2, <1>3
<1>6. \A c : Among(c, s) \/ Among(c, t) => Among(c, s \o t)
  BY <1>3, <1>4, <1>5 DEF Among
<1>7. ASSUME NEW i \in 1..Len(s) + Len(t)
      PROVE  \/ i \in 1..Len(s) /\ s[i] = (s \o t)[i]
             \/ i - Len(s) \in 1..Len(t) /\ t[i - Len(s)] = (s \o t)[i]
  BY <1>2, <1>3
<1> QED BY <1>1, <1>3, <1>6, <1>7 DEF Among

\* The calls for a list of names: one for each, if there is an address.
LEMMA ForEachCalls ==
  ASSUME NEW ns \in Seq(Names), NEW t \in Types, NEW a \in Addresses \cup {NoAddress}
  PROVE  /\ ForEach(ns, t, a) \in Seq(Calls)
         /\ a # NoAddress => /\ \A i \in DOMAIN ns : Among(Call(ns[i], t, a), ForEach(ns, t, a))
                             /\ ns # << >> => ForEach(ns, t, a) # << >>
<1>1. CASE a = NoAddress
  BY <1>1, EmptySeq DEF ForEach
<1>2. CASE a # NoAddress
  <2> DEFINE f == [i \in 1..Len(ns) |-> Call(ns[i], t, a)]
  <2>1. ForEach(ns, t, a) = f /\ a \in Addresses
    BY <1>2 DEF ForEach
  <2>2. Len(ns) \in Nat /\ DOMAIN ns = 1..Len(ns) /\ \A i \in 1..Len(ns) : ns[i] \in Names
    BY LenProperties, ElementOfSeq
  <2>3. \A i \in 1..Len(ns) : Call(ns[i], t, a) \in Calls
    BY <2>1, <2>2 DEF Call, Calls
  <2>4. f \in Seq(Calls)
    BY <2>2, <2>3
  <2>5. DOMAIN f = 1..Len(ns) /\ \A i \in 1..Len(ns) : f[i] = Call(ns[i], t, a)
    OBVIOUS
  <2>6. \A i \in DOMAIN ns : Among(Call(ns[i], t, a), f)
    BY <2>2, <2>5 DEF Among
  <2>7. ns # << >> => f # << >>
    <3>1. ns # << >> => 1 \in DOMAIN ns
      BY <2>2, EmptySeq
    <3>2. Among(Call(ns[1], t, a), f) => f # << >>
      BY DEF Among
    <3> HIDE DEF f
    <3> QED BY <3>1, <3>2, <2>6
  <2> HIDE DEF f
  <2> QED BY <1>2, <2>1, <2>4, <2>6, <2>7
<1> QED BY <1>1, <1>2

-----------------------------------------------------------------------------
(* What a configuration makes of the addresses.                              *)

Reasons      == {"no", "credentials", "domains", "address", "template", "provider"}
Plans        == [raised : Reasons, calls : Seq(Calls)]
Makes4(plan, names, a) == a # NoAddress => \A i \in DOMAIN names : Among(Call(names[i], "A", a), plan.calls)
Makes6(plan, names, a) == a # NoAddress => \A i \in DOMAIN names : Among(Call(names[i], "AAAA", a), plan.calls)

LEMMA ConfigFields ==
  ASSUME NEW cfg \in Configs
  PROVE  /\ cfg.enabled \in BOOLEAN /\ cfg.provider \in Providers /\ cfg.creds \in BOOLEAN
         /\ cfg.own \in BOOLEAN /\ cfg.v4 \in BOOLEAN /\ cfg.v6 \in BOOLEAN
         /\ cfg.dom4 \in Seq(Names) /\ cfg.dom6 \in Seq(Names)
         /\ cfg.nested4 \in Seq(Names) /\ cfg.nested6 \in Seq(Names)
BY DEF Configs, Config

\* One call for the single name.
LEMMA OwnCall ==
  ASSUME NEW t \in Types, NEW a \in Addresses
  PROVE  <<Call(Own, t, a)>> \in Seq(Calls)
<1>1. Call(Own, t, a) \in Calls
  BY DdnsAssumption DEF Call, Calls
<1> DEFINE c == Call(Own, t, a)
<1> HIDE DEF c
<1>2. <<c>> \in Seq(Calls)
  BY <1>1 DEF c
<1> QED BY <1>2 DEF c

LEMMA RaisesPlan == ASSUME NEW why \in Reasons \ {"no"} PROVE Raises(why) \in Plans /\ Raises(why).raised # "no"
BY EmptySeq DEF Raises, Plans, Reasons

LEMMA MakesPlan ==
  ASSUME NEW calls \in Seq(Calls)
  PROVE  Makes(calls) \in Plans /\ Makes(calls).raised = "no" /\ Makes(calls).calls = calls
BY DEF Makes, Plans, Reasons

LEMMA FamiliesPlan ==
  ASSUME NEW cfg \in Configs, NEW a4 \in Maybe4, NEW a6 \in Maybe6
  PROVE  LET plan == Families(cfg, a4, a6)
         IN  /\ plan \in Plans
             /\ plan.raised = "no" <=> cfg.creds
             /\ cfg.creds => Makes4(plan, cfg.dom4, a4) /\ Makes6(plan, cfg.dom6, a6)
<1> DEFINE s == ForEach(cfg.dom4, "A", a4)
           t == ForEach(cfg.dom6, "AAAA", a6)
<1>1. cfg.dom4 \in Seq(Names) /\ cfg.dom6 \in Seq(Names) /\ cfg.creds \in BOOLEAN
  BY ConfigFields
<1>2. "A" \in Types /\ "AAAA" \in Types /\ a4 \in Addresses \cup {NoAddress}
      /\ a6 \in Addresses \cup {NoAddress}
  BY DEF Types, Maybe4, Maybe6, Addresses
<1>3. /\ s \in Seq(Calls)
      /\ a4 # NoAddress => \A i \in DOMAIN cfg.dom4 : Among(Call(cfg.dom4[i], "A", a4), s)
  BY <1>1, <1>2, ForEachCalls
<1>4. /\ t \in Seq(Calls)
      /\ a6 # NoAddress => \A i \in DOMAIN cfg.dom6 : Among(Call(cfg.dom6[i], "AAAA", a6), t)
  BY <1>1, <1>2, ForEachCalls
<1> HIDE DEF s, t
<1>5. s \o t \in Seq(Calls) /\ \A c : Among(c, s) \/ Among(c, t) => Among(c, s \o t)
  BY <1>3, <1>4, BothLists
<1>6. CASE cfg.creds
  <2>1. Families(cfg, a4, a6) = Makes(s \o t)
    BY <1>6 DEF Families, s, t
  <2> QED BY <1>6, <2>1, <1>3, <1>4, <1>5, MakesPlan DEF Makes4, Makes6
<1>7. CASE ~cfg.creds
  <2>1. Families(cfg, a4, a6) = Raises("credentials")
    BY <1>7 DEF Families
  <2>2. "credentials" \in Reasons \ {"no"}
    BY DEF Reasons
  <2> QED BY <1>7, <2>1, <2>2, RaisesPlan
<1> QED BY <1>1, <1>6, <1>7

LEMMA NamecheapPlan ==
  ASSUME NEW cfg \in Configs, NEW a4 \in Maybe4, NEW a6 \in Maybe6
  PROVE  LET plan == Namecheap(cfg, a4, a6)
         IN  /\ plan \in Plans
             /\ plan.raised = "no" <=> cfg.creds
             /\ cfg.creds => Makes4(plan, cfg.dom4, a4)
<1> DEFINE s == ForEach(cfg.dom4, "A", a4)
<1>1. /\ s \in Seq(Calls)
      /\ a4 # NoAddress => \A i \in DOMAIN cfg.dom4 : Among(Call(cfg.dom4[i], "A", a4), s)
  BY ConfigFields, ForEachCalls DEF Types, Maybe4, Addresses
<1> HIDE DEF s
<1>2. CASE cfg.creds
  <2>1. Namecheap(cfg, a4, a6) = Makes(s)
    BY <1>2 DEF Namecheap, s
  <2> QED BY <1>2, <2>1, <1>1, MakesPlan DEF Makes4
<1>3. CASE ~cfg.creds
  <2>1. Namecheap(cfg, a4, a6) = Raises("credentials")
    BY <1>3 DEF Namecheap
  <2>2. "credentials" \in Reasons \ {"no"}
    BY DEF Reasons
  <2> QED BY <1>3, <2>1, <2>2, RaisesPlan
<1> QED BY <1>2, <1>3, ConfigFields

LEMMA NoNames == ASSUME NEW S, NEW ns \in Seq(S), ns = << >> \/ Len(ns) = 0 PROVE ns = << >> /\ DOMAIN ns = {}
BY EmptySeq

LEMMA CloudflarePlan ==
  ASSUME NEW cfg \in Configs, NEW a4 \in Maybe4, NEW a6 \in Maybe6
  PROVE  LET plan == Cloudflare(cfg, a4, a6)
         IN  /\ plan \in Plans
             /\ plan.raised = "no" => cfg.creds /\ Makes4(plan, cfg.dom4, a4) /\ Makes6(plan, cfg.dom6, a6)
             /\ cfg.creds /\ (a4 # NoAddress \/ cfg.dom4 # << >> \/ cfg.dom6 # << >>) => plan.raised = "no"
<1>1. cfg.dom4 \in Seq(Names) /\ cfg.dom6 \in Seq(Names) /\ cfg.creds \in BOOLEAN
      /\ Len(cfg.dom4) \in Nat /\ Len(cfg.dom6) \in Nat
  BY ConfigFields, LenProperties
<1>2. {"credentials", "domains"} \subseteq Reasons \ {"no"}
  BY DEF Reasons
<1>3. CASE ~cfg.creds
  <2>1. Cloudflare(cfg, a4, a6) = Raises("credentials")
    BY <1>3 DEF Cloudflare
  <2> QED BY <1>2, <1>3, <2>1, RaisesPlan
<1>4. CASE cfg.creds /\ Len(cfg.dom4) + Len(cfg.dom6) > 0
  <2>1. Cloudflare(cfg, a4, a6) = Families(cfg, a4, a6)
    BY <1>4 DEF Cloudflare
  <2> QED BY <1>4, <2>1, FamiliesPlan
<1>5. CASE cfg.creds /\ ~(Len(cfg.dom4) + Len(cfg.dom6) > 0)
  <2>0. \A m, n \in Nat : ~(m + n > 0) => m = 0 /\ n = 0
    OBVIOUS
  <2>1. Len(cfg.dom4) = 0 /\ Len(cfg.dom6) = 0
    BY <1>1, <1>5, <2>0
  <2>2. cfg.dom4 = << >> /\ DOMAIN cfg.dom4 = {} /\ cfg.dom6 = << >> /\ DOMAIN cfg.dom6 = {}
    BY <1>1, <2>1, NoNames
  <2>3. \A plan : Makes4(plan, cfg.dom4, a4) /\ Makes6(plan, cfg.dom6, a6)
    BY <2>2 DEF Makes4, Makes6
  <2>4. CASE a4 = NoAddress
    <3>1. Cloudflare(cfg, a4, a6) = Raises("domains")
      BY <1>5, <2>4 DEF Cloudflare
    <3> QED BY <1>2, <2>2, <2>4, <3>1, RaisesPlan
  <2>5. CASE a4 # NoAddress
    <3>1. Cloudflare(cfg, a4, a6) = Makes(<<Call(Own, "A", a4)>>)
      BY <1>5, <2>5 DEF Cloudflare
    <3>2. <<Call(Own, "A", a4)>> \in Seq(Calls)
      BY <2>5, OwnCall DEF Types, Maybe4, Addresses
    <3> QED BY <1>5, <2>3, <3>1, <3>2, MakesPlan
  <2> QED BY <2>4, <2>5
<1> QED BY <1>1, <1>3, <1>4, <1>5

LEMMA TrafficRoutePlan ==
  ASSUME NEW cfg \in Configs, NEW a4 \in Maybe4, NEW a6 \in Maybe6,
         a4 # NoAddress => cfg.v4, a6 # NoAddress => cfg.v6
  PROVE  LET plan == TrafficRoute(cfg, a4, a6)
         IN  /\ plan \in Plans
             /\ plan.raised = "no" => cfg.creds /\ Makes4(plan, cfg.dom4, a4) /\ Makes6(plan, cfg.dom6, a6)
             /\ cfg.creds /\ a4 # NoAddress /\ (cfg.dom4 # << >> \/ cfg.own) => plan.raised = "no"
<1>1. cfg.dom4 \in Seq(Names) /\ cfg.dom6 \in Seq(Names) /\ cfg.creds \in BOOLEAN
      /\ cfg.own \in BOOLEAN /\ cfg.v4 \in BOOLEAN /\ cfg.v6 \in BOOLEAN
  BY ConfigFields
<1>2. {"credentials", "domains", "address"} \subseteq Reasons \ {"no"}
  BY DEF Reasons
<1> DEFINE dom4 == IF cfg.dom4 # << >> THEN cfg.dom4 ELSE IF cfg.own THEN <<Own>> ELSE << >>
           four == IF cfg.v4 THEN ForEach(dom4, "A", a4) ELSE << >>
           six  == IF cfg.v6 THEN ForEach(cfg.dom6, "AAAA", a6) ELSE << >>
           calls == four \o six
<1>3. dom4 \in Seq(Names)
  BY <1>1, EmptySeq, DdnsAssumption
<1>4. (dom4 # << >> <=> cfg.dom4 # << >> \/ cfg.own) /\ (cfg.dom4 # << >> => dom4 = cfg.dom4)
  BY <1>1
<1> HIDE DEF dom4
<1>5. /\ four \in Seq(Calls)
      /\ a4 # NoAddress => /\ \A i \in DOMAIN dom4 : Among(Call(dom4[i], "A", a4), four)
                           /\ dom4 # << >> => four # << >>
  BY <1>1, <1>3, EmptySeq, ForEachCalls DEF Types, Maybe4, Addresses
<1>6. /\ six \in Seq(Calls)
      /\ a6 # NoAddress => /\ \A i \in DOMAIN cfg.dom6 : Among(Call(cfg.dom6[i], "AAAA", a6), six)
                           /\ cfg.dom6 # << >> => six # << >>
  BY <1>1, EmptySeq, ForEachCalls DEF Types, Maybe6, Addresses
<1> HIDE DEF four, six
<1>7. /\ calls \in Seq(Calls)
      /\ \A c : Among(c, four) \/ Among(c, six) => Among(c, calls)
      /\ calls = << >> => four = << >> /\ six = << >>
  BY <1>5, <1>6, BothLists, ConcatEqualIffEmpty
<1>8. TrafficRoute(cfg, a4, a6) =
        CASE ~cfg.creds -> Raises("credentials")
          [] cfg.creds /\ calls # << >> -> Makes(calls)
          [] cfg.creds /\ calls = << >> /\ cfg.v4 /\ dom4 # << >> -> Raises("address")
          [] cfg.creds /\ calls = << >> /\ cfg.v6 /\ cfg.dom6 # << >> -> Raises("address")
          [] OTHER -> IF \/ cfg.v4 /\ dom4 = << >> /\ (~cfg.v6 \/ cfg.dom6 = << >>)
                         \/ dom4 = << >> /\ cfg.dom6 = << >>
                      THEN Raises("domains") ELSE Makes(<< >>)
  BY DEF TrafficRoute, dom4, four, six
<1> HIDE DEF calls
<1>9. cfg.dom4 = << >> => DOMAIN cfg.dom4 = {}
  BY <1>1, NoNames
<1>10. cfg.dom6 = << >> => DOMAIN cfg.dom6 = {}
  BY <1>1, NoNames
<1>11. \A plan : plan.calls = calls => Makes4(plan, cfg.dom4, a4) /\ Makes6(plan, cfg.dom6, a6)
  <2> SUFFICES ASSUME NEW plan, plan.calls = calls
               PROVE  Makes4(plan, cfg.dom4, a4) /\ Makes6(plan, cfg.dom6, a6)
    OBVIOUS
  <2>1. Makes6(plan, cfg.dom6, a6)
    BY <1>6, <1>7 DEF Makes6
  <2>2. CASE cfg.dom4 # << >>
    BY <1>4, <1>5, <1>7, <2>1, <2>2 DEF Makes4
  <2>3. CASE cfg.dom4 = << >>
    BY <1>9, <2>1, <2>3 DEF Makes4
  <2> QED BY <2>2, <2>3
<1>12. CASE ~cfg.creds
  <2>1. TrafficRoute(cfg, a4, a6) = Raises("credentials")
    BY <1>8, <1>12
  <2> QED BY <1>2, <1>12, <2>1, RaisesPlan
<1>13. CASE cfg.creds /\ calls # << >>
  <2>1. TrafficRoute(cfg, a4, a6) = Makes(calls)
    BY <1>8, <1>13
  <2> QED BY <1>7, <1>11, <1>13, <2>1, MakesPlan
<1>14. CASE cfg.creds /\ calls = << >>
  <2>1. a4 # NoAddress => dom4 = << >>
    BY <1>5, <1>7, <1>14
  <2>2. a6 # NoAddress => cfg.dom6 = << >>
    BY <1>6, <1>7, <1>14
  <2>3. \A plan : Makes4(plan, cfg.dom4, a4) /\ Makes6(plan, cfg.dom6, a6)
    BY <2>1, <2>2, <1>4, <1>9, <1>10 DEF Makes4, Makes6
  <2>4. \/ \E why \in {"domains", "address"} : TrafficRoute(cfg, a4, a6) = Raises(why)
        \/ TrafficRoute(cfg, a4, a6) = Makes(<< >>)
    BY <1>8, <1>14
  <2>5. TrafficRoute(cfg, a4, a6) \in Plans
    BY <1>2, <2>4, RaisesPlan, MakesPlan, EmptySeq
  <2>6. cfg.creds /\ a4 # NoAddress /\ (cfg.dom4 # << >> \/ cfg.own) => FALSE
    BY <1>4, <2>1
  <2> QED BY <1>14, <2>3, <2>5, <2>6
<1> QED BY <1>1, <1>12, <1>13, <1>14

\* DuckDNS, No-IP and the URL template have one name, which they set or refuse.
LEMMA SinglePlan ==
  ASSUME NEW cfg \in Configs, NEW a4 \in Maybe4, NEW a6 \in Maybe6
  PROVE  \A plan \in {Duckdns(cfg, a4), Noip(cfg, a4, a6), CustomUrl(cfg, a4, a6)} :
           /\ plan \in Plans
           /\ cfg.creds /\ cfg.own /\ a4 # NoAddress => plan.raised = "no"
           /\ plan = Duckdns(cfg, a4) /\ a4 # NoAddress => plan.raised = "no"
           /\ plan = CustomUrl(cfg, a4, a6) /\ cfg.own /\ a4 # NoAddress => plan.raised = "no"
<1> DEFINE one == <<Call(Own, "A", a4)>>
           six == <<Call(Own, "AAAA", a6)>>
           either == EitherFamily(a4, a6)
<1>1. {"credentials", "template", "address"} \subseteq Reasons \ {"no"}
  BY DEF Reasons
<1>2. \A why \in {"credentials", "template", "address"} : Raises(why) \in Plans
  BY <1>1, RaisesPlan
<1>3. a4 # NoAddress => Makes(one) \in Plans /\ Makes(one).raised = "no"
  <2>1. a4 # NoAddress => one \in Seq(Calls)
    BY OwnCall DEF Types, Maybe4, Addresses
  <2> HIDE DEF one
  <2> QED BY <2>1, MakesPlan
<1>4. a6 # NoAddress => Makes(six) \in Plans
  <2>1. a6 # NoAddress => six \in Seq(Calls)
    BY OwnCall DEF Types, Maybe6, Addresses
  <2> HIDE DEF six
  <2> QED BY <2>1, MakesPlan
<1>5. EitherFamily(a4, a6) =
        CASE a4 # NoAddress -> Makes(one)
          [] a4 = NoAddress /\ a6 # NoAddress -> Makes(six)
          [] OTHER -> Raises("address")
  BY DEF EitherFamily
<1>6. Duckdns(cfg, a4) = IF a4 = NoAddress THEN Raises("address") ELSE Makes(one)
  BY DEF Duckdns
<1> HIDE DEF one, six
<1>7. either \in Plans /\ (a4 # NoAddress => either.raised = "no")
  <2>1. CASE a4 # NoAddress
    BY <1>3, <1>5, <2>1
  <2>2. CASE a4 = NoAddress /\ a6 # NoAddress
    BY <1>4, <1>5, <2>2
  <2>3. CASE a4 = NoAddress /\ a6 = NoAddress
    BY <1>2, <1>5, <2>3
  <2> QED BY <2>1, <2>2, <2>3
<1>8. Noip(cfg, a4, a6) = IF cfg.creds /\ cfg.own THEN either ELSE Raises("credentials")
  BY DEF Noip
<1>9. CustomUrl(cfg, a4, a6) = IF a4 # NoAddress \/ a6 # NoAddress
                               THEN IF cfg.own THEN either ELSE Raises("template")
                               ELSE Raises("address")
  BY DEF CustomUrl
<1> HIDE DEF either
<1>10. Duckdns(cfg, a4) \in Plans /\ (a4 # NoAddress => Duckdns(cfg, a4).raised = "no")
  BY <1>2, <1>3, <1>6
<1>11. Noip(cfg, a4, a6) \in Plans
       /\ (cfg.creds /\ cfg.own /\ a4 # NoAddress => Noip(cfg, a4, a6).raised = "no")
  BY <1>2, <1>7, <1>8
<1>12. CustomUrl(cfg, a4, a6) \in Plans
       /\ (cfg.own /\ a4 # NoAddress => CustomUrl(cfg, a4, a6).raised = "no")
  BY <1>2, <1>7, <1>9
<1> QED BY <1>10, <1>11, <1>12

\* What run_update returns is a plan, and the plan of a provider with lists of
\* names has every name of the lists whose family has an address.
LEMMA RunUpdatePlan ==
  ASSUME NEW cfg \in Configs, NEW a4 \in Maybe4, NEW a6 \in Maybe6,
         a4 # NoAddress => cfg.v4, a6 # NoAddress => cfg.v6
  PROVE  LET plan == run_update(cfg, a4, a6)
         IN  /\ plan \in Plans
             /\ plan.raised = "no" /\ cfg.provider \notin Singles =>
                  /\ Makes4(plan, cfg.dom4, a4)
                  /\ cfg.provider # "namecheap" => Makes6(plan, cfg.dom6, a6)
<1>1. CASE cfg.provider = "trafficroute"
  <2>1. run_update(cfg, a4, a6) = TrafficRoute(cfg, a4, a6)
    BY <1>1 DEF run_update
  <2> QED BY <2>1, TrafficRoutePlan
<1>2. CASE cfg.provider = "cloudflare"
  <2>1. run_update(cfg, a4, a6) = Cloudflare(cfg, a4, a6)
    BY <1>2 DEF run_update
  <2> QED BY <2>1, CloudflarePlan
<1>3. CASE cfg.provider = "namecheap"
  <2>1. run_update(cfg, a4, a6) = Namecheap(cfg, a4, a6)
    BY <1>3 DEF run_update
  <2> QED BY <1>3, <2>1, NamecheapPlan
<1>4. CASE cfg.provider \in Lists
  <2>1. run_update(cfg, a4, a6) = Families(cfg, a4, a6)
    BY <1>4 DEF run_update, Lists, Aliyun, Dnspod, Godaddy, Namesilo, Porkbun
  <2> QED BY <2>1, FamiliesPlan
<1>5. CASE cfg.provider \in Singles
  <2>1. run_update(cfg, a4, a6) \in
          {Duckdns(cfg, a4), Noip(cfg, a4, a6), CustomUrl(cfg, a4, a6)}
    BY <1>5 DEF run_update, Singles
  <2> QED BY <1>5, <2>1, SinglePlan
<1>6. CASE cfg.provider = "ddnsgo"
  <2>1. run_update(cfg, a4, a6) = Raises("provider")
    BY <1>6 DEF run_update
  <2>2. "provider" \in Reasons \ {"no"}
    BY DEF Reasons
  <2> QED BY <2>1, <2>2, RaisesPlan
<1>7. cfg.provider \in Lists \cup Singles \cup {"cloudflare", "namecheap", "trafficroute", "ddnsgo"}
  BY ConfigFields DEF Providers
<1> QED BY <1>1, <1>2, <1>3, <1>4, <1>5, <1>6, <1>7

\* What validate_config accepts is not refused for a setting.
LEMMA AcceptedPlan ==
  ASSUME NEW cfg \in Configs, NEW a4 \in Addr4, NEW a6 \in Maybe6, validate_config(cfg),
         cfg.provider # "ddnsgo", cfg.v4, a6 # NoAddress => cfg.v6, cfg.nested4 = << >>
  PROVE  run_update(cfg, a4, a6).raised = "no"
<1>0. a4 # NoAddress /\ a4 \in Maybe4
  BY DdnsAssumption DEF Maybe4, Addresses
<1>1. CASE cfg.provider = "trafficroute"
  <2>1. run_update(cfg, a4, a6) = TrafficRoute(cfg, a4, a6)
    BY <1>1 DEF run_update
  <2>2. cfg.creds /\ (cfg.dom4 # << >> \/ cfg.own)
    BY <1>1 DEF validate_config, Lists
  <2> QED BY <1>0, <2>1, <2>2, TrafficRoutePlan
<1>2. CASE cfg.provider = "cloudflare"
  <2>1. run_update(cfg, a4, a6) = Cloudflare(cfg, a4, a6)
    BY <1>2 DEF run_update
  <2>2. cfg.creds
    BY <1>2 DEF validate_config, Lists
  <2> QED BY <1>0, <2>1, <2>2, CloudflarePlan
<1>3. CASE cfg.provider = "namecheap"
  <2>1. run_update(cfg, a4, a6) = Namecheap(cfg, a4, a6)
    BY <1>3 DEF run_update
  <2>2. cfg.creds
    BY <1>3 DEF validate_config, Lists
  <2> QED BY <1>0, <2>1, <2>2, NamecheapPlan
<1>4. CASE cfg.provider \in Lists
  <2>1. run_update(cfg, a4, a6) = Families(cfg, a4, a6)
    BY <1>4 DEF run_update, Lists, Aliyun, Dnspod, Godaddy, Namesilo, Porkbun
  <2>2. cfg.creds
    BY <1>4 DEF validate_config, Lists
  <2> QED BY <1>0, <2>1, <2>2, FamiliesPlan
<1>5. CASE cfg.provider = "duckdns"
  <2>1. run_update(cfg, a4, a6) = Duckdns(cfg, a4)
    BY <1>5 DEF run_update
  <2> QED BY <1>0, <2>1, SinglePlan
<1>6. CASE cfg.provider = "noip"
  <2>1. run_update(cfg, a4, a6) = Noip(cfg, a4, a6)
    BY <1>6 DEF run_update
  <2>2. cfg.creds /\ cfg.own
    BY <1>6 DEF validate_config, Lists
  <2> QED BY <1>0, <2>1, <2>2, SinglePlan
<1>7. CASE cfg.provider = "url"
  <2>1. run_update(cfg, a4, a6) = CustomUrl(cfg, a4, a6)
    BY <1>7 DEF run_update
  <2>2. cfg.own
    BY <1>7 DEF validate_config, Lists
  <2> QED BY <1>0, <2>1, <2>2, SinglePlan
<1>8. cfg.provider \in Lists \cup {"duckdns", "noip", "url"}
                       \cup {"cloudflare", "namecheap", "trafficroute"}
  BY ConfigFields DEF Providers, Singles
<1> QED BY <1>1, <1>2, <1>3, <1>4, <1>5, <1>6, <1>7, <1>8

(* Which names a plan has: those of the lists, or the single name of the     *)
(* providers that know one.                                                  *)
Named(cfg, n) ==
    \/ \E i \in DOMAIN cfg.dom4 : n = cfg.dom4[i]
    \/ \E i \in DOMAIN cfg.dom6 : n = cfg.dom6[i]
    \/ n = Own /\ cfg.provider \in Singles \cup {"cloudflare", "trafficroute"}

LEMMA ForEachNames ==
  ASSUME NEW ns \in Seq(Names), NEW t, NEW a
  PROVE  \A c : Among(c, ForEach(ns, t, a)) => \E k \in DOMAIN ns : c.name = ns[k]
<1>1. DOMAIN ns = 1..Len(ns)
  BY LenProperties
<1>2. CASE a = NoAddress
  BY <1>2 DEF ForEach, Among
<1>3. CASE a # NoAddress
  <2>1. ForEach(ns, t, a) = [i \in 1..Len(ns) |-> Call(ns[i], t, a)]
    BY <1>3 DEF ForEach
  <2> QED BY <1>1, <2>1 DEF Among, Call
<1> QED BY <1>2, <1>3

LEMMA FamiliesNames ==
  ASSUME NEW cfg \in Configs, NEW a4 \in Maybe4, NEW a6 \in Maybe6
  PROVE  \A c : Among(c, Families(cfg, a4, a6).calls) => Named(cfg, c.name)
<1> DEFINE s == ForEach(cfg.dom4, "A", a4)
           t == ForEach(cfg.dom6, "AAAA", a6)
<1>1. cfg.dom4 \in Seq(Names) /\ cfg.dom6 \in Seq(Names)
  BY ConfigFields
<1>2. \A c : Among(c, s) \/ Among(c, t) => Named(cfg, c.name)
  BY <1>1, ForEachNames DEF Named
<1>3. s \in Seq(Calls) /\ t \in Seq(Calls)
  BY <1>1, ForEachCalls DEF Types, Maybe4, Maybe6, Addresses
<1> HIDE DEF s, t
<1>4. \A i \in DOMAIN (s \o t) : Among((s \o t)[i], s) \/ Among((s \o t)[i], t)
  BY <1>3, BothLists
<1>5. \A c : Among(c, s \o t) => Named(cfg, c.name)
  BY <1>2, <1>4 DEF Among
<1>6. Families(cfg, a4, a6).calls = s \o t \/ Families(cfg, a4, a6).calls = << >>
  BY DEF Families, Makes, Raises, s, t
<1> QED BY <1>5, <1>6 DEF Among

LEMMA OwnNames ==
  ASSUME NEW cfg \in Configs, NEW a, NEW b, NEW t,
         cfg.provider \in Singles \cup {"cloudflare", "trafficroute"}
  PROVE  /\ \A c : Among(c, <<Call(Own, t, a)>>) => Named(cfg, c.name)
         /\ \A c : Among(c, EitherFamily(a, b).calls) => Named(cfg, c.name)
<1>1. \A x, y, c : Among(c, <<Call(Own, x, y)>>) => c.name = Own
  BY DEF Among, Call
<1>2. \A c : ~Among(c, << >>)
  BY DEF Among
<1>3. EitherFamily(a, b).calls \in {<<Call(Own, "A", a)>>, <<Call(Own, "AAAA", b)>>, << >>}
  BY DEF EitherFamily, Makes, Raises
<1> QED BY <1>1, <1>2, <1>3 DEF Named

LEMMA TrafficNames ==
  ASSUME NEW cfg \in Configs, NEW a4 \in Maybe4, NEW a6 \in Maybe6, cfg.provider = "trafficroute"
  PROVE  \A c : Among(c, TrafficRoute(cfg, a4, a6).calls) => Named(cfg, c.name)
<1> DEFINE dom4 == IF cfg.dom4 # << >> THEN cfg.dom4 ELSE IF cfg.own THEN <<Own>> ELSE << >>
           four == IF cfg.v4 THEN ForEach(dom4, "A", a4) ELSE << >>
           six  == IF cfg.v6 THEN ForEach(cfg.dom6, "AAAA", a6) ELSE << >>
<1>1. cfg.dom4 \in Seq(Names) /\ cfg.dom6 \in Seq(Names)
  BY ConfigFields
<1>2. dom4 \in Seq(Names)
  BY <1>1, EmptySeq, DdnsAssumption
<1>3. \A k \in DOMAIN dom4 : Named(cfg, dom4[k])
  BY DEF Named
<1> HIDE DEF dom4
<1>4. \A c : ~Among(c, << >>)
  BY DEF Among
<1>5. \A c : Among(c, four) => Named(cfg, c.name)
  BY <1>2, <1>3, <1>4, ForEachNames
<1>6. \A c : Among(c, six) => Named(cfg, c.name)
  BY <1>1, <1>4, ForEachNames DEF Named
<1>7. four \in Seq(Calls) /\ six \in Seq(Calls)
  BY <1>1, <1>2, EmptySeq, ForEachCalls DEF Types, Maybe4, Maybe6, Addresses
<1>8. TrafficRoute(cfg, a4, a6).calls \in {four \o six, << >>}
  BY DEF TrafficRoute, Makes, Raises, dom4, four, six
<1> HIDE DEF four, six
<1>9. \A i \in DOMAIN (four \o six) : Among((four \o six)[i], four) \/ Among((four \o six)[i], six)
  BY <1>7, BothLists
<1>10. \A c : Among(c, four \o six) => Named(cfg, c.name)
  BY <1>5, <1>6, <1>9 DEF Among
<1> QED BY <1>4, <1>8, <1>10

LEMMA PlanNames ==
  ASSUME NEW cfg \in Configs, NEW a4 \in Maybe4, NEW a6 \in Maybe6
  PROVE  \A c : Among(c, run_update(cfg, a4, a6).calls) => Named(cfg, c.name)
<1>0. \A c : ~Among(c, << >>)
  BY DEF Among
<1>1. CASE cfg.provider = "trafficroute"
  <2>1. run_update(cfg, a4, a6) = TrafficRoute(cfg, a4, a6)
    BY <1>1 DEF run_update
  <2> QED BY <1>1, <2>1, TrafficNames
<1>2. CASE cfg.provider = "cloudflare"
  <2>1. run_update(cfg, a4, a6) = Cloudflare(cfg, a4, a6)
    BY <1>2 DEF run_update
  <2>2. \/ Cloudflare(cfg, a4, a6) = Families(cfg, a4, a6)
        \/ Cloudflare(cfg, a4, a6).calls \in {<<Call(Own, "A", a4)>>, << >>}
    BY DEF Cloudflare, Makes, Raises
  <2> QED BY <1>0, <1>2, <2>1, <2>2, FamiliesNames, OwnNames
<1>3. CASE cfg.provider = "namecheap"
  <2>1. run_update(cfg, a4, a6) = Namecheap(cfg, a4, a6)
    BY <1>3 DEF run_update
  <2>2. Namecheap(cfg, a4, a6).calls \in {ForEach(cfg.dom4, "A", a4), << >>}
    BY DEF Namecheap, Makes, Raises
  <2> QED BY <1>0, <2>1, <2>2, ConfigFields, ForEachNames DEF Named
<1>4. CASE cfg.provider \in Lists
  <2>1. run_update(cfg, a4, a6) = Families(cfg, a4, a6)
    BY <1>4 DEF run_update, Lists, Aliyun, Dnspod, Godaddy, Namesilo, Porkbun
  <2> QED BY <2>1, FamiliesNames
<1>5. CASE cfg.provider \in Singles
  <2>1. run_update(cfg, a4, a6) \in
          {Duckdns(cfg, a4), Noip(cfg, a4, a6), CustomUrl(cfg, a4, a6)}
    BY <1>5 DEF run_update, Singles
  <2>2. run_update(cfg, a4, a6).calls \in
          {<<Call(Own, "A", a4)>>, EitherFamily(a4, a6).calls, << >>}
    BY <2>1 DEF Duckdns, Noip, CustomUrl, Makes, Raises
  <2> QED BY <1>0, <1>5, <2>2, OwnNames
<1>6. CASE cfg.provider = "ddnsgo"
  <2>1. run_update(cfg, a4, a6).calls = << >>
    BY <1>6 DEF run_update, Raises
  <2> QED BY <1>0, <2>1
<1>7. cfg.provider \in Lists \cup Singles \cup {"cloudflare", "namecheap", "trafficroute", "ddnsgo"}
  BY ConfigFields DEF Providers
<1> QED BY <1>1, <1>2, <1>3, <1>4, <1>5, <1>6, <1>7

\* The names that the code does not split are those of the single-name calls.
LEMMA SplitsUnlessSingle ==
  ASSUME NEW p \in Providers \ {"ddnsgo"}, NEW n, SplitFails(p, n)
  PROVE  n \in Unsplit /\ p \notin Singles /\ ~(p = "cloudflare" /\ n = Own)
<1>1. CASE p \in Singles \/ (p = "cloudflare" /\ n = Own)
  <2>1. update_one(p, n) = [Blind EXCEPT !.splits = FALSE]
        \/ update_one(p, n) = [Blind EXCEPT !.splits = FALSE, !.byName = FALSE]
    BY <1>1 DEF update_one, Singles, duckdns_update_a, noip_request, url_update_get, cloudflare_update_a
  <2>2. update_one(p, n).splits = FALSE
    BY <2>1 DEF Blind
  <2> QED BY <2>2 DEF SplitFails
<1> QED BY <1>1 DEF SplitFails

-----------------------------------------------------------------------------
(* The inductive invariant.  An update that asks the provider follows a plan *)
(* that run_update made of its configuration and of addresses of families    *)
(* that are switched on, and of the calls of that plan each is done with     *)
(* success or is still to be made, unless nobody looks at the answers.       *)

Points  == {"idle", "fetch4", "fetch6", "next", "read", "write"}
JobType == [pc : Points, cfg : Configs, a4 : Maybe4, a6 : Maybe6, failed : BOOLEAN,
            todo : Seq(Calls), seen : {0, 1}, held : SUBSET Calls]
Unread  == {"aliyun", "dnspod"}   \* answers that are not looked at

Planned(j) ==
    LET plan == run_update(j.cfg, j.a4, j.a6)
    IN  /\ plan.raised = "no"
        /\ j.cfg.provider \notin Unread =>
             \A c : Among(c, plan.calls) => c \in j.held \/ Among(c, j.todo)

JobOK(j) ==
    /\ j \in JobType
    /\ j.pc # "idle" => j.cfg.provider # "ddnsgo"
    /\ (j.a4 # NoAddress => j.cfg.v4) /\ (j.a6 # NoAddress => j.cfg.v6)
    /\ j.pc \in {"next", "read", "write"} => Planned(j)
    /\ j.pc \in {"read", "write"} => j.todo # << >>

JobsInv == job = [u \in Updaters |-> job[u]] /\ \A u \in Updaters : JobOK(job[u])

PlacesInv ==
    /\ file \in [whole : BOOLEAN, cfg : Configs]
    /\ edit \in [pc : {"idle", "loaded", "torn"}, cfg : Configs]
    /\ status \in [error : BOOLEAN, ok : BOOLEAN, v4 : Maybe4, v6 : Maybe6]
    /\ public \in [v4 : Addr4, v6 : Addr6]
    /\ records \in [Names \X Types -> Seq(Addresses)]
    /\ overlapped \in BOOLEAN
    /\ misread \subseteq Names \X Types
    /\ disturbed \in 0..MaxDisturb

DdnsInv == PlacesInv /\ JobsInv

LEMMA DefaultsTyped == Defaults \in Configs
BY EmptySeq DEF Defaults, Configs, Config, Providers

LEMMA LoadedTyped == ASSUME PlacesInv PROVE load_config \in Configs
BY DefaultsTyped DEF PlacesInv, load_config

LEMMA IdleOK == JobOK(IdleJob)
<1>1. IdleJob \in JobType
  BY DefaultsTyped, EmptySeq DEF IdleJob, JobType, Points, Maybe4, Maybe6
<1>2. IdleJob.pc = "idle" /\ IdleJob.a4 = NoAddress /\ IdleJob.a6 = NoAddress
  BY DEF IdleJob
<1> QED BY <1>1, <1>2 DEF JobOK

LEMMA DisturbTyped == ASSUME PlacesInv, Disturb \/ UNCHANGED disturbed PROVE disturbed' \in 0..MaxDisturb
BY DdnsAssumption DEF PlacesInv, Disturb

LEMMA StatusTyped ==
  ASSUME PlacesInv, NEW a4 \in Maybe4, NEW a6 \in Maybe6
  PROVE  /\ set_ok(a4, a6) \in [error : BOOLEAN, ok : BOOLEAN, v4 : Maybe4, v6 : Maybe6]
         /\ set_error \in [error : BOOLEAN, ok : BOOLEAN, v4 : Maybe4, v6 : Maybe6]
BY DEF PlacesInv, set_ok, set_error

LEMMA JobsGo ==
  ASSUME JobsInv, NEW u \in Updaters, NEW j, JobOK(j), JobGoes(u, j)
  PROVE  JobsInv' /\ job'[u] = j /\ \A v \in Updaters \ {u} : job'[v] = job[v]
<1>1. job' = [job EXCEPT ![u] = j] /\ DOMAIN job = Updaters
  BY DEF JobGoes, JobsInv
<1>2. job'[u] = j /\ \A v \in Updaters \ {u} : job'[v] = job[v]
  BY <1>1
<1>3. job' = [v \in Updaters |-> job'[v]]
  BY <1>1
<1>4. \A v \in Updaters : JobOK(job'[v])
  BY <1>2 DEF JobsInv
<1> QED BY <1>2, <1>3, <1>4 DEF JobsInv

LEMMA JobsEnd ==
  ASSUME JobsInv, NEW u \in Updaters, JobEnds(u)
  PROVE  JobsInv' /\ job'[u] = IdleJob /\ \A v \in Updaters \ {u} : job'[v] = job[v]
BY IdleOK, JobsGo DEF JobEnds

\* The first of the calls that are left, and the rest.
LEMMA NextCall ==
  ASSUME NEW s \in Seq(Calls), s # << >>
  PROVE  /\ Head(s) \in Calls /\ Tail(s) \in Seq(Calls)
         /\ \A c : Among(c, s) => c = Head(s) \/ Among(c, Tail(s))
<1>1. /\ Head(s) \in Calls /\ Tail(s) \in Seq(Calls) /\ Len(Tail(s)) = Len(s) - 1
      /\ \A i \in 1..Len(Tail(s)) : Tail(s)[i] = s[i + 1]
  BY HeadTailProperties
<1>2. Len(s) \in Nat /\ DOMAIN s = 1..Len(s) /\ DOMAIN Tail(s) = 1..Len(Tail(s))
  BY <1>1, LenProperties
<1>3. Head(s) = s[1]
  OBVIOUS
<1>4. ASSUME NEW i \in 1..Len(s), i # 1 PROVE i - 1 \in DOMAIN Tail(s) /\ Tail(s)[i - 1] = s[i]
  BY <1>1, <1>2, <1>4
<1> QED BY <1>1, <1>2, <1>3, <1>4 DEF Among

\* What the code that makes a call looks at.
LEMMA UpdateOneKind ==
  ASSUME NEW p \in Providers \ {"ddnsgo"}, NEW n
  PROVE  LET how == update_one(p, n)
         IN  /\ how.reads \in BOOLEAN /\ how.byName \in BOOLEAN /\ how.looks \in BOOLEAN
             /\ ~how.looks => p \in Unread
<1> DEFINE Lax == [Reading EXCEPT !.checks = FALSE, !.looks = FALSE]
<1>1. \/ update_one(p, n) \in {Reading, Blind, [Reading EXCEPT !.byName = TRUE],
                              [Reading EXCEPT !.checks = FALSE], [Blind EXCEPT !.splits = FALSE],
                              [Blind EXCEPT !.splits = FALSE, !.byName = FALSE]}
      \/ p \in Unread /\ update_one(p, n) = Lax
  BY DEF update_one, Providers, Lists, Singles, Unread, aliyun_update_one, dnspod_update_one,
         namesilo_update_one, trafficroute_update_one, porkbun_update_one, godaddy_update_one,
         namecheap_update_one, duckdns_update_a, noip_request, url_update_get,
         cloudflare_update_one, cloudflare_update_a
<1> DEFINE How == [splits : BOOLEAN, reads : BOOLEAN, checks : BOOLEAN, byName : BOOLEAN, looks : BOOLEAN]
<1>2. Reading \in How /\ Reading.looks = TRUE
  BY DEF Reading
<1>3. Blind \in How /\ Blind.looks = TRUE
  BY DEF Blind
<1>4. \A x \in How :
        /\ [x EXCEPT !.byName = TRUE] \in How /\ [x EXCEPT !.byName = TRUE].looks = x.looks
        /\ [x EXCEPT !.checks = FALSE] \in How /\ [x EXCEPT !.checks = FALSE].looks = x.looks
        /\ [x EXCEPT !.splits = FALSE] \in How /\ [x EXCEPT !.splits = FALSE].looks = x.looks
        /\ [x EXCEPT !.splits = FALSE, !.byName = FALSE] \in How
        /\ [x EXCEPT !.splits = FALSE, !.byName = FALSE].looks = x.looks
        /\ [x EXCEPT !.checks = FALSE, !.looks = FALSE] \in How
  OBVIOUS
<1>5. update_one(p, n) \in How /\ (update_one(p, n).looks = TRUE \/ p \in Unread)
  <2> HIDE DEF How
  <2> QED BY <1>1, <1>2, <1>3, <1>4
<1> QED BY <1>5

-----------------------------------------------------------------------------
(* One lemma per action.                                                     *)

\* An update that starts has no plan and no address yet.
LEMMA BeginStep == ASSUME DdnsInv, NEW u \in Updaters, Begin(u) PROVE DdnsInv'
<1> DEFINE cfg == load_config
           j   == [IdleJob EXCEPT !.pc = "fetch4", !.cfg = cfg]
<1>1. cfg \in Configs /\ cfg.provider # "ddnsgo" /\ JobGoes(u, j)
  BY LoadedTyped DEF DdnsInv, Begin
<1> HIDE DEF cfg
<1>2. j \in JobType
  <2>1. IdleJob \in JobType
    BY IdleOK DEF JobOK
  <2>2. "fetch4" \in Points
    BY DEF Points
  <2> QED BY <1>1, <2>1, <2>2 DEF JobType
<1>3. j.pc = "fetch4" /\ j.cfg = cfg /\ j.a4 = NoAddress /\ j.a6 = NoAddress
  BY DEF IdleJob
<1>4. JobOK(j)
  BY <1>1, <1>2, <1>3 DEF JobOK
<1> HIDE DEF j
<1>5. JobsInv'
  BY <1>1, <1>4, JobsGo DEF DdnsInv
<1> QED BY <1>5 DEF DdnsInv, PlacesInv, Begin

LEMMA PingStep == ASSUME DdnsInv, NEW u \in Updaters, Ping(u) PROVE DdnsInv'
<1>1. disturbed' \in 0..MaxDisturb
  BY DisturbTyped DEF DdnsInv, Ping
<1>2. NoAddress \in Maybe4 /\ NoAddress \in Maybe6
  BY DEF Maybe4, Maybe6
<1>3. status' \in [error : BOOLEAN, ok : BOOLEAN, v4 : Maybe4, v6 : Maybe6]
  BY <1>2, StatusTyped DEF DdnsInv, Ping
<1>4. JobsInv'
  BY DEF DdnsInv, JobsInv, Ping
<1> QED BY <1>1, <1>3, <1>4 DEF DdnsInv, PlacesInv, Ping

\* The address that the chain of URLs gives is the line's, or there is none.
LEMMA FoundAddress ==
  ASSUME NEW A, NEW a \in A, NEW answers \in Answers(a)
  PROVE  FirstAddress(answers) \in {a, NoAddress}
<1> DEFINE found == {i \in DOMAIN answers : answers[i] # NoAddress}
<1>1. DOMAIN answers = {1, 2} /\ answers[1] \in {a, NoAddress} /\ answers[2] \in {a, NoAddress}
  BY DEF Answers
<1>2. CASE found = {}
  BY <1>2 DEF FirstAddress
<1>3. CASE found # {}
  <2>1. \E i \in found : \A k \in found : i <= k
    BY <1>1, <1>3
  <2>2. (CHOOSE i \in found : \A k \in found : i <= k) \in found
    BY <2>1
  <2> HIDE DEF found
  <2>3. FirstAddress(answers) = answers[CHOOSE i \in found : \A k \in found : i <= k]
    BY <1>3 DEF FirstAddress, found
  <2>4. found \subseteq {1, 2}
    BY <1>1 DEF found
  <2> QED BY <1>1, <2>2, <2>3, <2>4
<1> QED BY <1>2, <1>3

LEMMA Fetch4Step == ASSUME DdnsInv, NEW u \in Updaters, Fetch4(u) PROVE DdnsInv'
<1> DEFINE j == job[u]
<1>1. JobOK(j) /\ j \in JobType /\ j.pc = "fetch4"
  BY DEF DdnsInv, JobsInv, JobOK, Fetch4
<1>2. disturbed' \in 0..MaxDisturb
  BY DisturbTyped DEF DdnsInv, Fetch4
<1>3. CASE j.cfg.v4
  <2>1. PICK answers \in Answers(public.v4) :
             LET a == get_public_ipv4(answers)
             IN  JobGoes(u, [j EXCEPT !.pc = "fetch6", !.a4 = a, !.failed = (a = NoAddress)])
    BY <1>3 DEF Fetch4
  <2> DEFINE a == get_public_ipv4(answers)
             none == (a = NoAddress)
             k == [j EXCEPT !.pc = "fetch6", !.a4 = a, !.failed = none]
  <2>2. a \in Maybe4
    <3>1. public.v4 \in Addr4
      BY DEF DdnsInv, PlacesInv
    <3> QED BY <3>1, FoundAddress DEF get_public_ipv4, Maybe4
  <2>3. none \in BOOLEAN
    OBVIOUS
  <2>4. JobGoes(u, k)
    BY <2>1
  <2> HIDE DEF a, none, j
  <2>5. k \in JobType
    BY <1>1, <2>2, <2>3 DEF JobType, Points
  <2>6. k.pc = "fetch6" /\ k.cfg = j.cfg /\ k.a4 = a /\ k.a6 = j.a6
    BY <1>1 DEF JobType
  <2>7. JobOK(k)
    BY <1>1, <1>3, <2>5, <2>6 DEF JobOK
  <2> HIDE DEF k
  <2> QED BY <2>4, <2>7, <1>2, JobsGo DEF DdnsInv, PlacesInv, Fetch4
<1>4. CASE ~j.cfg.v4
  <2> DEFINE k == [j EXCEPT !.pc = "fetch6"]
  <2>1. JobGoes(u, k)
    BY <1>4 DEF Fetch4
  <2> HIDE DEF j
  <2>2. k \in JobType
    BY <1>1 DEF JobType, Points
  <2>3. k.pc = "fetch6" /\ k.cfg = j.cfg /\ k.a4 = j.a4 /\ k.a6 = j.a6
    BY <1>1 DEF JobType
  <2>4. JobOK(k)
    BY <1>1, <2>2, <2>3 DEF JobOK
  <2> HIDE DEF k
  <2> QED BY <2>1, <2>4, <1>2, JobsGo DEF DdnsInv, PlacesInv, Fetch4
<1> QED BY <1>3, <1>4

\* The plan is made here, and none of its calls is done yet.
LEMMA DispatchStep ==
  ASSUME DdnsInv, NEW u \in Updaters, job[u].pc = "fetch6",
         NEW a6 \in Maybe6, a6 # NoAddress => job[u].cfg.v6, NEW failed \in BOOLEAN,
         Dispatch(u, a6, failed)
  PROVE  /\ JobsInv'
         /\ status' \in [error : BOOLEAN, ok : BOOLEAN, v4 : Maybe4, v6 : Maybe6]
<1> DEFINE j == job[u]
           plan == run_update(j.cfg, j.a4, a6)
           k == [j EXCEPT !.pc = "next", !.a6 = a6, !.todo = plan.calls]
<1>1. JobOK(j) /\ j \in JobType /\ j.pc = "fetch6" /\ j.cfg \in Configs /\ j.a4 \in Maybe4
  BY DEF DdnsInv, JobsInv, JobOK, JobType
<1>2. CASE (j.a4 = NoAddress /\ a6 = NoAddress /\ failed) \/ plan.raised # "no"
  <2>1. JobEnds(u) /\ status' = set_error
    BY <1>2 DEF Dispatch
  <2>2. NoAddress \in Maybe4 /\ NoAddress \in Maybe6
    BY DEF Maybe4, Maybe6
  <2> QED BY <2>1, <2>2, JobsEnd, StatusTyped DEF DdnsInv
<1>3. CASE ~((j.a4 = NoAddress /\ a6 = NoAddress /\ failed) \/ plan.raised # "no")
  <2>1. JobGoes(u, k) /\ UNCHANGED status /\ plan.raised = "no"
    BY <1>3 DEF Dispatch
  <2>2. plan.calls \in Seq(Calls)
    <3>1. plan \in Plans
      BY <1>1, RunUpdatePlan DEF JobOK
    <3> QED BY <3>1 DEF Plans
  <2> HIDE DEF j
  <2>3. k \in JobType
    <3> HIDE DEF plan
    <3> QED BY <1>1, <2>2 DEF JobType, Points
  <2>4. k.pc = "next" /\ k.cfg = j.cfg /\ k.a4 = j.a4 /\ k.a6 = a6 /\ k.todo = plan.calls
    <3> HIDE DEF plan
    <3> QED BY <1>1 DEF JobType
  <2> HIDE DEF k
  <2>5. Planned(k)
    BY <2>1, <2>4 DEF Planned
  <2>6. JobOK(k)
    BY <1>1, <2>3, <2>4, <2>5 DEF JobOK, j
  <2>7. JobsInv'
    BY <2>1, <2>6, JobsGo DEF DdnsInv
  <2> QED BY <2>1, <2>7 DEF DdnsInv, PlacesInv
<1> QED BY <1>2, <1>3

LEMMA Fetch6Step == ASSUME DdnsInv, NEW u \in Updaters, Fetch6(u) PROVE DdnsInv'
<1>1. job[u].pc = "fetch6" /\ job[u].failed \in BOOLEAN
  BY DEF DdnsInv, JobsInv, JobOK, JobType, Fetch6
<1>2. disturbed' \in 0..MaxDisturb
  BY DisturbTyped DEF DdnsInv, Fetch6
<1>3. \E a6 \in Maybe6, failed \in BOOLEAN :
         (a6 # NoAddress => job[u].cfg.v6) /\ Dispatch(u, a6, failed)
  <2>1. CASE job[u].cfg.v6
    <3>1. PICK answers \in Answers(public.v6) :
                LET a == get_public_ipv6(answers)
                IN  Dispatch(u, a, job[u].failed \/ a = NoAddress)
      BY <2>1 DEF Fetch6
    <3> DEFINE a == get_public_ipv6(answers)
               bad == job[u].failed \/ a = NoAddress
    <3>2. a \in Maybe6
      <4>1. public.v6 \in Addr6
        BY DEF DdnsInv, PlacesInv
      <4> QED BY <4>1, FoundAddress DEF get_public_ipv6, Maybe6
    <3>3. bad \in BOOLEAN /\ Dispatch(u, a, bad)
      BY <3>1
    <3> HIDE DEF a, bad
    <3> QED BY <2>1, <3>2, <3>3
  <2>2. CASE ~job[u].cfg.v6
    <3>1. Dispatch(u, NoAddress, job[u].failed)
      BY <2>2 DEF Fetch6
    <3>2. NoAddress \in Maybe6
      BY DEF Maybe6
    <3> QED BY <1>1, <3>1, <3>2
  <2> QED BY <2>1, <2>2
<1>4. JobsInv' /\ status' \in [error : BOOLEAN, ok : BOOLEAN, v4 : Maybe4, v6 : Maybe6]
  BY <1>1, <1>3, DispatchStep
<1> QED BY <1>2, <1>4 DEF DdnsInv, PlacesInv, Fetch6

LEMMA NextCallStep == ASSUME DdnsInv, NEW u \in Updaters, Next_call(u) PROVE DdnsInv'
<1> DEFINE j == job[u]
           how == update_one(j.cfg.provider, Head(j.todo).name)
           k == [j EXCEPT !.pc = IF how.reads THEN "read" ELSE "write"]
<1>1. JobOK(j) /\ j \in JobType /\ j.pc = "next" /\ j.todo # << >>
  BY DEF DdnsInv, JobsInv, JobOK, Next_call
<1>2. (JobGoes(u, k) /\ UNCHANGED status) \/ (JobEnds(u) /\ status' = set_error)
  BY DEF Next_call
<1> HIDE DEF how
<1>3. (IF how.reads THEN "read" ELSE "write") \in {"read", "write"}
  OBVIOUS
<1> HIDE DEF j
<1>4. k \in JobType /\ k.pc \in {"read", "write"}
  BY <1>1, <1>3 DEF JobType, Points
<1>5. k.cfg = j.cfg /\ k.a4 = j.a4 /\ k.a6 = j.a6 /\ k.todo = j.todo /\ k.held = j.held
  BY <1>1 DEF JobType
<1> HIDE DEF k
<1>6. JobOK(k)
  <2>1. Planned(j) /\ j.cfg.provider # "ddnsgo"
    BY <1>1 DEF JobOK
  <2>2. Planned(k)
    BY <1>5, <2>1 DEF Planned
  <2> QED BY <1>1, <1>4, <1>5, <2>1, <2>2 DEF JobOK
<1>7. JobsInv'
  BY <1>2, <1>6, JobsGo, JobsEnd DEF DdnsInv
<1>8. overlapped' \in BOOLEAN
  BY DEF Next_call, DdnsInv, PlacesInv
<1>9. status' \in [error : BOOLEAN, ok : BOOLEAN, v4 : Maybe4, v6 : Maybe6]
  <2>1. NoAddress \in Maybe4 /\ NoAddress \in Maybe6
    BY DEF Maybe4, Maybe6
  <2> QED BY <1>2, <2>1, StatusTyped DEF DdnsInv, PlacesInv
<1> QED BY <1>7, <1>8, <1>9 DEF DdnsInv, PlacesInv, Next_call

\* A call that passed was done, unless nobody looked at the answer.
LEMMA PassedOK ==
  ASSUME DdnsInv, NEW u \in Updaters, AtProvider(u), NEW really \in BOOLEAN,
         really \/ job[u].cfg.provider \in Unread,
         JobGoes(u, Passed(u, Head(job[u].todo), really))
  PROVE  /\ JobsInv'
         /\ job'[u].pc = "next" /\ job'[u].seen = 0
         /\ \A v \in Updaters \ {u} : job'[v] = job[v]
<1> DEFINE j == job[u]
           c == Head(j.todo)
           held == IF really THEN j.held \cup {c} ELSE j.held
           k == [j EXCEPT !.pc = "next", !.todo = Tail(j.todo), !.seen = 0, !.held = held]
<1>1. JobOK(j) /\ j \in JobType /\ j.todo # << >> /\ Planned(j)
  BY DEF DdnsInv, JobsInv, JobOK, AtProvider
<1>2. JobGoes(u, k)
  BY DEF Passed
<1> HIDE DEF j
<1>3. /\ c \in Calls /\ Tail(j.todo) \in Seq(Calls)
      /\ \A d : Among(d, j.todo) => d = c \/ Among(d, Tail(j.todo))
  <2>1. j.todo \in Seq(Calls)
    BY <1>1 DEF JobType
  <2> QED BY <1>1, <2>1, NextCall
<1>4. held \subseteq Calls /\ j.held \subseteq held /\ (really => c \in held)
  BY <1>1, <1>3 DEF JobType
<1> HIDE DEF c, held
<1>5. k \in JobType
  BY <1>1, <1>3, <1>4 DEF JobType, Points
<1>6. /\ k.pc = "next" /\ k.seen = 0 /\ k.todo = Tail(j.todo) /\ k.held = held
      /\ k.cfg = j.cfg /\ k.a4 = j.a4 /\ k.a6 = j.a6
  BY <1>1 DEF JobType
<1> HIDE DEF k
<1>7. Planned(k)
  <2>1. CASE j.cfg.provider \in Unread
    BY <1>1, <1>6, <2>1 DEF Planned
  <2>2. CASE j.cfg.provider \notin Unread
    <3>1. really
      BY <2>2 DEF j
    <3> QED BY <1>1, <1>3, <1>4, <1>6, <2>2, <3>1 DEF Planned
  <2> QED BY <2>1, <2>2
<1>8. JobOK(k)
  <2>1. j.pc # "idle"
    BY DEF AtProvider, j
  <2> QED BY <1>1, <1>5, <1>6, <1>7, <2>1 DEF JobOK
<1> QED BY <1>2, <1>6, <1>8, JobsGo DEF DdnsInv

\* The key of a call that is left is a key of the records.
LEMMA CallKey ==
  ASSUME DdnsInv, NEW u \in Updaters, AtProvider(u)
  PROVE  LET c == Head(job[u].todo)
         IN  /\ c \in Calls /\ Key(c) \in Names \X Types /\ c.ip \in Addresses
             /\ records[Key(c)] \in Seq(Addresses) /\ DOMAIN records = Names \X Types
             /\ job[u].cfg.provider \in Providers \ {"ddnsgo"}
<1>1. JobOK(job[u]) /\ job[u].todo \in Seq(Calls) /\ job[u].todo # << >>
      /\ job[u].cfg \in Configs /\ job[u].cfg.provider # "ddnsgo"
  BY DEF DdnsInv, JobsInv, JobOK, JobType, AtProvider
<1>2. Head(job[u].todo) \in Calls
  BY <1>1, NextCall
<1>3. \A c \in Calls : Key(c) \in Names \X Types /\ c.ip \in Addresses
  BY DEF Calls, Key
<1> QED BY <1>1, <1>2, <1>3, ConfigFields DEF DdnsInv, PlacesInv

LEMMA ReadStep == ASSUME DdnsInv, NEW u \in Updaters, Read(u) PROVE DdnsInv'
<1> DEFINE j == job[u]
           c == Head(j.todo)
           k(seen) == [j EXCEPT !.pc = "write", !.seen = seen]
<1>1. AtProvider(u) /\ JobOK(j) /\ j \in JobType /\ j.todo # << >> /\ Planned(j) /\ j.pc = "read"
  BY DEF DdnsInv, JobsInv, JobOK, AtProvider, Read
<1>2. disturbed' \in 0..MaxDisturb
  BY DisturbTyped DEF DdnsInv, Read
<1>3. status' \in [error : BOOLEAN, ok : BOOLEAN, v4 : Maybe4, v6 : Maybe6]
  <2>1. NoAddress \in Maybe4 /\ NoAddress \in Maybe6
    BY DEF Maybe4, Maybe6
  <2>2. status' = status \/ status' = set_error
    BY DEF Read
  <2> QED BY <2>1, <2>2, StatusTyped DEF DdnsInv, PlacesInv
<1>4. JobsInv'
  <2>1. CASE JobGoes(u, Passed(u, Head(job[u].todo), TRUE))
    BY <1>1, <2>1, PassedOK
  <2>2. CASE JobEnds(u)
    BY <2>2, JobsEnd DEF DdnsInv
  <2>3. ASSUME NEW seen \in {0, 1}, JobGoes(u, k(seen)) PROVE JobsInv'
    <3> DEFINE l == k(seen)
    <3>2. JobGoes(u, l)
      BY <2>3
    <3> HIDE DEF j
    <3>3. l \in JobType
      BY <1>1 DEF JobType, Points
    <3>4. l.pc = "write" /\ l.cfg = j.cfg /\ l.a4 = j.a4 /\ l.a6 = j.a6 /\ l.todo = j.todo /\ l.held = j.held
      BY <1>1 DEF JobType
    <3> HIDE DEF l
    <3>5. Planned(l)
      BY <1>1, <3>4 DEF Planned
    <3>6. JobOK(l)
      BY <1>1, <3>3, <3>4, <3>5 DEF JobOK
    <3> QED BY <3>2, <3>6, JobsGo DEF DdnsInv
  <2>4. \/ JobGoes(u, Passed(u, Head(job[u].todo), TRUE)) \/ JobEnds(u)
        \/ JobGoes(u, k(0)) \/ JobGoes(u, k(1))
    BY DEF Read
  <2> HIDE DEF k
  <2> QED BY <2>1, <2>2, <2>3, <2>4
<1>5. misread' \subseteq Names \X Types
  <2>1. Key(c) \in Names \X Types
    BY <1>1, CallKey
  <2>2. misread' = misread \/ misread' = misread \cup {Key(c)}
    BY DEF Read
  <2> HIDE DEF c
  <2> QED BY <2>1, <2>2 DEF DdnsInv, PlacesInv
<1> QED BY <1>2, <1>3, <1>4, <1>5 DEF DdnsInv, PlacesInv, Read

\* A call that reached the provider leaves a list of addresses, and no more
\* than one if there was no more and none was overlooked.
LEMMA AppliedRecords ==
  ASSUME DdnsInv, NEW u \in Updaters, AtProvider(u)
  PROVE  LET c   == Head(job[u].todo)
             rs  == records[Key(c)]
             how == update_one(job[u].cfg.provider, c.name)
         IN  /\ Applied(u, c) \in Seq(Addresses)
             /\ Len(rs) <= 1 /\ (how.reads /\ job[u].seen # 1 => rs = << >>) =>
                  Len(Applied(u, c)) <= 1
<1> DEFINE c   == Head(job[u].todo)
           rs  == records[Key(c)]
           how == update_one(job[u].cfg.provider, c.name)
           one == job[u].seen = 1 \/ (~how.reads /\ rs # << >>)
           all == [i \in DOMAIN rs |-> c.ip]
           first == [rs EXCEPT ![1] = c.ip]
           more == Append(rs, c.ip)
<1>1. c \in Calls /\ c.ip \in Addresses /\ rs \in Seq(Addresses)
      /\ job[u].cfg.provider \in Providers \ {"ddnsgo"}
  BY CallKey
<1>2. how.reads \in BOOLEAN /\ how.byName \in BOOLEAN
  BY <1>1, UpdateOneKind
<1>3. Applied(u, c) = CASE how.byName /\ one  -> all
                        [] ~how.byName /\ one -> first
                        [] ~one              -> more
  BY DEF Applied
<1>4. Len(rs) \in Nat /\ DOMAIN rs = 1..Len(rs) /\ \A i \in 1..Len(rs) : rs[i] \in Addresses
  BY <1>1, LenProperties, ElementOfSeq
<1> DEFINE ip == c.ip
<1>5. one \in BOOLEAN
  OBVIOUS
<1>6. ip \in Addresses
  BY <1>1
<1> HIDE DEF c, rs, how, one, ip
<1>7. [i \in DOMAIN rs |-> ip] \in Seq(Addresses) /\ Len([i \in DOMAIN rs |-> ip]) = Len(rs)
  BY <1>4, <1>6
<1>8. [rs EXCEPT ![1] = ip] \in Seq(Addresses) /\ Len([rs EXCEPT ![1] = ip]) = Len(rs)
  <2>1. CASE Len(rs) = 0
    <3>1. rs \in [1..Len(rs) -> Addresses] /\ 1 \notin DOMAIN rs
      BY <1>1, <1>4, <2>1, LenProperties
    <3>2. [rs EXCEPT ![1] = ip] = rs
      BY <3>1
    <3> QED BY <1>1, <3>2
  <2>2. CASE Len(rs) # 0
    <3>1. 1 \in 1..Len(rs)
      BY <1>4, <2>2
    <3> QED BY <1>1, <1>6, <3>1, ExceptSeq
  <2> QED BY <2>1, <2>2
<1>9. Append(rs, ip) \in Seq(Addresses) /\ Len(Append(rs, ip)) = Len(rs) + 1
  BY <1>1, <1>6, AppendProperties
<1>10. ~one /\ (how.reads /\ job[u].seen # 1 => rs = << >>) => rs = << >>
  BY <1>2 DEF one
<1>11. rs = << >> => Len(rs) = 0
  BY EmptySeq
<1>12. all = [i \in DOMAIN rs |-> ip] /\ first = [rs EXCEPT ![1] = ip] /\ more = Append(rs, ip)
  BY DEF ip
<1> HIDE DEF all, first, more
<1>13. Applied(u, c) \in {all, first} \/ (~one /\ Applied(u, c) = more)
  BY <1>2, <1>3, <1>5
<1>14. Applied(u, c) \in Seq(Addresses)
  BY <1>7, <1>8, <1>9, <1>12, <1>13
<1>15. Len(rs) <= 1 /\ (how.reads /\ job[u].seen # 1 => rs = << >>) => Len(Applied(u, c)) <= 1
  BY <1>4, <1>7, <1>8, <1>9, <1>10, <1>11, <1>12, <1>13
<1> QED BY <1>14, <1>15 DEF c, rs, how

LEMMA WriteStep == ASSUME DdnsInv, NEW u \in Updaters, Write(u) PROVE DdnsInv'
<1> DEFINE c == Head(job[u].todo)
<1>1. AtProvider(u)
  BY DEF AtProvider, Write
<1>2. disturbed' \in 0..MaxDisturb
  BY DisturbTyped DEF DdnsInv, Write
<1>3. status' \in [error : BOOLEAN, ok : BOOLEAN, v4 : Maybe4, v6 : Maybe6]
  <2>1. NoAddress \in Maybe4 /\ NoAddress \in Maybe6
    BY DEF Maybe4, Maybe6
  <2>2. status' = status \/ status' = set_error
    BY DEF Write
  <2> QED BY <2>1, <2>2, StatusTyped DEF DdnsInv, PlacesInv
<1>4. records' \in [Names \X Types -> Seq(Addresses)]
  <2>1. records' \in {records, [records EXCEPT ![Key(c)] = Applied(u, c)]}
    BY DEF Write
  <2>2. Applied(u, c) \in Seq(Addresses) /\ Key(c) \in Names \X Types
    BY <1>1, AppliedRecords, CallKey
  <2> HIDE DEF c
  <2> QED BY <2>1, <2>2 DEF DdnsInv, PlacesInv
<1>5. JobsInv'
  <2>1. CASE JobGoes(u, Passed(u, c, TRUE))
    BY <1>1, <2>1, PassedOK
  <2>2. CASE JobEnds(u)
    BY <2>2, JobsEnd DEF DdnsInv
  <2>3. CASE JobGoes(u, Passed(u, c, FALSE)) /\ ~update_one(job[u].cfg.provider, c.name).looks
    <3>1. job[u].cfg.provider \in Unread
      BY <1>1, <2>3, CallKey, UpdateOneKind
    <3> QED BY <1>1, <2>3, <3>1, PassedOK
  <2> QED BY <2>1, <2>2, <2>3 DEF Write
<1> QED BY <1>2, <1>3, <1>4, <1>5 DEF DdnsInv, PlacesInv, Write

LEMMA FinishStep == ASSUME DdnsInv, NEW u \in Updaters, Finish(u) PROVE DdnsInv'
<1>1. job[u].a4 \in Maybe4 /\ job[u].a6 \in Maybe6
  BY DEF DdnsInv, JobsInv, JobOK, JobType
<1>2. status' \in [error : BOOLEAN, ok : BOOLEAN, v4 : Maybe4, v6 : Maybe6]
  BY <1>1, StatusTyped DEF DdnsInv, Finish
<1>3. JobsInv'
  BY JobsEnd DEF DdnsInv, Finish
<1> QED BY <1>2, <1>3 DEF DdnsInv, PlacesInv, Finish

\* What the page sends, over any configuration, is one.
LEMMA AppliedConfig ==
  ASSUME NEW base \in Configs, NEW body \in Bodies
  PROVE  apply_config(base, body) \in Configs
<1> DEFINE m == [f \in DOMAIN base |-> IF f \in DOMAIN body THEN body[f] ELSE base[f]]
           d == [f \in DOMAIN Defaults |-> IF f \in DOMAIN body THEN body[f] ELSE Defaults[f]]
           Fs == {"enabled", "provider", "creds", "own", "v4", "v6", "dom4", "dom6",
                  "nested4", "nested6"}
<1>1. d \in Configs
  BY DdnsAssumption DEF Configs
<1>2. DOMAIN base = Fs /\ base = [f \in Fs |-> base[f]]
  BY DEF Configs, Config
<1>3. DOMAIN Defaults = Fs
  BY DEF Defaults
<1>4. \A f \in Fs : m[f] = d[f] \/ m[f] = base[f]
  BY <1>2, <1>3
<1>5. DOMAIN m = Fs /\ m = [f \in Fs |-> m[f]]
  BY <1>2
<1> HIDE DEF m, d
<1>6. /\ m.enabled \in BOOLEAN /\ m.provider \in Providers /\ m.creds \in BOOLEAN
      /\ m.own \in BOOLEAN /\ m.v4 \in BOOLEAN /\ m.v6 \in BOOLEAN
      /\ m.dom4 \in Seq(Names) /\ m.dom6 \in Seq(Names)
      /\ m.nested4 \in Seq(Names) /\ m.nested6 \in Seq(Names)
  BY <1>1, <1>4, ConfigFields
<1>7. m \in Configs
  BY <1>5, <1>6 DEF Configs, Config
<1>8. <<Own>> \in Seq(Names)
  BY DdnsAssumption
<1>9. [m EXCEPT !.dom4 = <<Own>>] \in Configs
  <2> DEFINE names == <<Own>>
  <2>1. names \in Seq(Names)
    BY <1>8
  <2> HIDE DEF names
  <2>2. [m EXCEPT !.dom4 = names] \in Configs
    BY <1>7, <2>1 DEF Configs, Config
  <2> QED BY <2>2 DEF names
<1>10. apply_config(base, body) \in {m, [m EXCEPT !.dom4 = <<Own>>]}
  BY DEF apply_config, m
<1> QED BY <1>7, <1>9, <1>10

LEMMA EditsStep == ASSUME DdnsInv, NEW cfg \in Configs, Edits(cfg) PROVE DdnsInv'
<1>1. disturbed' \in 0..MaxDisturb
  BY DisturbTyped DEF DdnsInv, Edits
<1>2. edit' \in [pc : {"idle", "loaded", "torn"}, cfg : Configs]
  BY DEF Edits
<1>3. JobsInv'
  BY DEF DdnsInv, JobsInv, Edits
<1> QED BY <1>1, <1>2, <1>3 DEF DdnsInv, PlacesInv, Edits

LEMMA EditConfigStep == ASSUME DdnsInv, NEW body \in Bodies, EditConfig(body) PROVE DdnsInv'
<1>1. apply_config(load_config, body) \in Configs
  BY LoadedTyped, AppliedConfig DEF DdnsInv
<1> QED BY <1>1, EditsStep DEF EditConfig

LEMMA ServiceStep == ASSUME DdnsInv, NEW start \in BOOLEAN, service_action(start) PROVE DdnsInv'
<1> DEFINE cfg == load_config
<1>1. cfg \in Configs
  BY LoadedTyped DEF DdnsInv
<1>2. Edits([cfg EXCEPT !.enabled = start])
  BY DEF service_action
<1> HIDE DEF cfg
<1>3. [cfg EXCEPT !.enabled = start] \in Configs
  BY <1>1 DEF Configs, Config
<1> QED BY <1>2, <1>3, EditsStep

LEMMA EditWrites == ASSUME DdnsInv, EditTruncate \/ EditWrite PROVE DdnsInv'
<1>1. file' \in [whole : BOOLEAN, cfg : Configs]
      /\ edit' \in [pc : {"idle", "loaded", "torn"}, cfg : Configs]
  <2>1. file.whole \in BOOLEAN /\ file \in [whole : BOOLEAN, cfg : Configs] /\ edit.cfg \in Configs
        /\ edit \in [pc : {"idle", "loaded", "torn"}, cfg : Configs]
    BY DEF DdnsInv, PlacesInv
  <2>2. [file EXCEPT !.whole = FALSE] \in [whole : BOOLEAN, cfg : Configs]
        /\ [whole |-> TRUE, cfg |-> edit.cfg] \in [whole : BOOLEAN, cfg : Configs]
    BY <2>1
  <2>3. \A p \in {"idle", "torn"} :
           [edit EXCEPT !.pc = p] \in [pc : {"idle", "loaded", "torn"}, cfg : Configs]
    BY <2>1
  <2> QED BY <2>2, <2>3 DEF EditTruncate, EditWrite
<1>2. JobsInv'
  BY DEF DdnsInv, JobsInv, EditTruncate, EditWrite
<1> QED BY <1>1, <1>2 DEF DdnsInv, PlacesInv, EditTruncate, EditWrite

LEMMA MoveStep == ASSUME DdnsInv, Move PROVE DdnsInv'
<1>1. disturbed' \in 0..MaxDisturb
  BY DisturbTyped DEF DdnsInv, Move
<1>2. public' \in [v4 : Addr4, v6 : Addr6]
  BY DEF DdnsInv, PlacesInv, Move
<1>3. JobsInv'
  BY DEF DdnsInv, JobsInv, Move
<1> QED BY <1>1, <1>2, <1>3 DEF DdnsInv, PlacesInv, Move

LEMMA KillStep == ASSUME DdnsInv, Kill PROVE DdnsInv'
<1>1. disturbed' \in 0..MaxDisturb
  BY DisturbTyped DEF DdnsInv, Kill
<1>2. edit' \in [pc : {"idle", "loaded", "torn"}, cfg : Configs]
  BY DEF DdnsInv, PlacesInv, Kill
<1>3. status' \in [error : BOOLEAN, ok : BOOLEAN, v4 : Maybe4, v6 : Maybe6]
  BY DEF Kill, Maybe4, Maybe6
<1>4. JobsInv'
  <2>1. job' = [u \in Updaters |-> job'[u]] /\ \A u \in Updaters : job'[u] = IdleJob
    BY DEF Kill
  <2> QED BY <2>1, IdleOK DEF JobsInv
<1> QED BY <1>1, <1>2, <1>3, <1>4 DEF DdnsInv, PlacesInv, Kill

LEMMA DdnsInvInit == DdnsInit => DdnsInv
<1> SUFFICES ASSUME DdnsInit PROVE DdnsInv
  OBVIOUS
<1>1. file \in [whole : BOOLEAN, cfg : Configs]
  BY DdnsAssumption DEF DdnsInit, Configs
<1>2. edit \in [pc : {"idle", "loaded", "torn"}, cfg : Configs]
  BY DefaultsTyped DEF DdnsInit
<1>3. status \in [error : BOOLEAN, ok : BOOLEAN, v4 : Maybe4, v6 : Maybe6]
  BY DEF DdnsInit, Maybe4, Maybe6
<1>4. records \in [Names \X Types -> Seq(Addresses)]
  BY EmptySeq DEF DdnsInit
<1>5. disturbed \in 0..MaxDisturb
  BY DdnsAssumption DEF DdnsInit
<1>6. JobsInv
  BY IdleOK DEF DdnsInit, JobsInv
<1> QED BY <1>1, <1>2, <1>3, <1>4, <1>5, <1>6 DEF DdnsInv, PlacesInv, DdnsInit

\* Every step is one of an updater, of the settings, or of the world outside.
LEMMA DdnsSteps ==
  ASSUME [DdnsNext]_ddnsVars
  PROVE  \/ \E u \in Updaters : Begin(u) \/ Ping(u) \/ Goes_on(u)
         \/ \E body \in Bodies : EditConfig(body)
         \/ \E start \in BOOLEAN : service_action(start)
         \/ EditTruncate \/ EditWrite \/ Move \/ Kill \/ UNCHANGED ddnsVars
<1>1. Worker \in Updaters /\ Requests \subseteq Updaters
  BY DEF Updaters
<1> QED BY <1>1 DEF DdnsNext, worker_cycle, run_once

LEMMA DdnsInvStep == DdnsInv /\ [DdnsNext]_ddnsVars => DdnsInv'
<1> SUFFICES ASSUME DdnsInv, [DdnsNext]_ddnsVars PROVE DdnsInv'
  OBVIOUS
<1>1. CASE \E u \in Updaters : Begin(u) \/ Ping(u)
  BY <1>1, BeginStep, PingStep
<1>2. CASE \E u \in Updaters : Goes_on(u)
  BY <1>2, Fetch4Step, Fetch6Step, NextCallStep, ReadStep, WriteStep, FinishStep DEF Goes_on
<1>3. CASE \E body \in Bodies : EditConfig(body)
  BY <1>3, EditConfigStep
<1>4. CASE \E start \in BOOLEAN : service_action(start)
  BY <1>4, ServiceStep
<1>5. CASE EditTruncate \/ EditWrite \/ Move \/ Kill
  BY <1>5, EditWrites, MoveStep, KillStep
<1>6. CASE UNCHANGED ddnsVars
  BY <1>6 DEF ddnsVars, DdnsInv, PlacesInv, JobsInv
<1> QED BY <1>1, <1>2, <1>3, <1>4, <1>5, <1>6, DdnsSteps

\* The invariant holds in every state that the updates reach.
THEOREM DdnsInvAlways == DdnsSpec => []DdnsInv
BY DdnsInvInit, DdnsInvStep, PTL DEF DdnsSpec

\* The state has the shape that the code gives it (src/ddns/service.py).
THEOREM DdnsTypeOKAlways == DdnsSpec => []DdnsTypeOK
<1>1. DdnsInv => DdnsTypeOK
  <2> SUFFICES ASSUME DdnsInv PROVE DdnsTypeOK
    OBVIOUS
  <2>1. /\ file \in [whole : BOOLEAN, cfg : Config(Seq(Names))]
        /\ edit.pc \in {"idle", "loaded", "torn"} /\ edit.cfg \in Config(Seq(Names))
        /\ status.error \in BOOLEAN /\ status.ok \in BOOLEAN
        /\ status.v4 \in Addr4 \cup {NoAddress} /\ status.v6 \in Addr6 \cup {NoAddress}
        /\ overlapped \in BOOLEAN /\ misread \subseteq Names \X Types
        /\ disturbed \in 0..MaxDisturb
    BY DEF DdnsInv, PlacesInv, Configs, Maybe4, Maybe6
  <2>2. ASSUME NEW u \in Updaters
        PROVE  /\ job[u].pc \in {"idle", "fetch4", "fetch6", "next", "read", "write"}
               /\ job[u].cfg \in Config(Seq(Names))
               /\ job[u].a4 \in Addr4 \cup {NoAddress} /\ job[u].a6 \in Addr6 \cup {NoAddress}
               /\ \A i \in DOMAIN job[u].todo : job[u].todo[i] \in Calls
               /\ job[u].held \subseteq Calls
    <3>1. job[u] \in JobType
      BY DEF DdnsInv, JobsInv, JobOK
    <3>2. \A i \in DOMAIN job[u].todo : job[u].todo[i] \in Calls
      <4>1. job[u].todo \in Seq(Calls)
        BY <3>1 DEF JobType
      <4> QED BY <4>1, LenProperties, ElementOfSeq
    <3> QED BY <3>1, <3>2 DEF JobType, Points, Configs, Maybe4, Maybe6
  <2>3. ASSUME NEW k \in Names \X Types
        PROVE  \A i \in DOMAIN records[k] : records[k][i] \in Addresses
    <3>1. records[k] \in Seq(Addresses)
      BY DEF DdnsInv, PlacesInv
    <3> QED BY <3>1, LenProperties, ElementOfSeq
  <2> QED BY <2>1, <2>2, <2>3 DEF DdnsTypeOK
<1> QED BY <1>1, DdnsInvAlways, PTL

\* No call of the plan ends the update because of its name.
LEMMA NothingUnsplit ==
  ASSUME NEW cfg \in Configs, NEW a4 \in Maybe4, NEW a6 \in Maybe6, cfg.provider # "ddnsgo",
         \A i \in DOMAIN cfg.dom4 : cfg.dom4[i] \notin Unsplit,
         \A i \in DOMAIN cfg.dom6 : cfg.dom6[i] \notin Unsplit,
         cfg.provider = "trafficroute" => Own \notin Unsplit
  PROVE  LET plan == run_update(cfg, a4, a6)
         IN  plan \in Plans => ComesTo(cfg.provider, plan) = DOMAIN plan.calls
<1> DEFINE plan == run_update(cfg, a4, a6)
<1> SUFFICES ASSUME plan \in Plans PROVE ComesTo(cfg.provider, plan) = DOMAIN plan.calls
  OBVIOUS
<1>1. \A k \in DOMAIN plan.calls : Named(cfg, plan.calls[k].name)
  BY PlanNames DEF Among
<1>2. cfg.provider \in Providers \ {"ddnsgo"}
  BY ConfigFields
<1> HIDE DEF plan
<1>3. ASSUME NEW n, Named(cfg, n) PROVE ~SplitFails(cfg.provider, n)
  BY <1>2, <1>3, SplitsUnlessSingle DEF Named
<1>4. \A k \in DOMAIN plan.calls : ~SplitFails(cfg.provider, plan.calls[k].name)
  BY <1>1, <1>3
<1>5. plan.calls \in Seq(Calls)
  BY DEF Plans
<1>6. \A i \in DOMAIN plan.calls : 1..i \subseteq DOMAIN plan.calls
  BY <1>5, LenProperties
<1> QED BY <1>4, <1>6 DEF ComesTo

(* What the page's validation accepts, run_update can carry out, for every   *)
(* name of the lists of the families switched on (src/ddns/providers,        *)
(* validate_config and run_update), if the names can be split: whatever      *)
(* configuration is on file.                                                 *)
THEOREM AcceptedIsServedAlways == DdnsSpec => []AcceptedIsServed
<1>1. ASSUME DdnsInv PROVE AcceptedIsServed
  <2> DEFINE cfg == load_config
  <2>1. cfg \in Configs
    BY <1>1, LoadedTyped DEF DdnsInv
  <2> HIDE DEF cfg
  <2> SUFFICES ASSUME validate_config(cfg), cfg.provider # "ddnsgo", cfg.v4,
                      cfg.nested4 = << >>, cfg.nested6 = << >>,
                      \A i \in DOMAIN cfg.dom4 : cfg.dom4[i] \notin Unsplit,
                      \A i \in DOMAIN cfg.dom6 : cfg.dom6[i] \notin Unsplit,
                      cfg.provider = "trafficroute" => Own \notin Unsplit,
                      NEW a4 \in Addr4, NEW a6 \in Addr6
               PROVE  LET plan == run_update(cfg, a4, IF cfg.v6 THEN a6 ELSE NoAddress)
                          Sets(n, t, a) ==
                              \E i \in ComesTo(cfg.provider, plan) : plan.calls[i] = Call(n, t, a)
                      IN  /\ plan.raised = "no"
                          /\ ComesTo(cfg.provider, plan) = DOMAIN plan.calls
                          /\ cfg.provider \notin Singles =>
                               /\ \A i \in DOMAIN cfg.dom4 : Sets(cfg.dom4[i], "A", a4)
                               /\ cfg.v6 => \A i \in DOMAIN cfg.dom6 : Sets(cfg.dom6[i], "AAAA", a6)
    BY DEF AcceptedIsServed, cfg
  <2> DEFINE b6 == IF cfg.v6 THEN a6 ELSE NoAddress
             plan == run_update(cfg, a4, b6)
             come == ComesTo(cfg.provider, plan)
  <2>2. /\ a4 \in Maybe4 /\ a4 # NoAddress /\ b6 \in Maybe6
        /\ (b6 # NoAddress => cfg.v6) /\ (cfg.v6 => b6 = a6 /\ a6 # NoAddress)
    BY DdnsAssumption DEF Maybe4, Maybe6, Addresses
  <2> HIDE DEF b6
  <2>3. plan.raised = "no"
    BY <2>1, <2>2, AcceptedPlan
  <2>4. /\ plan \in Plans
        /\ cfg.provider \notin Singles =>
             /\ Makes4(plan, cfg.dom4, a4)
             /\ cfg.provider # "namecheap" => Makes6(plan, cfg.dom6, b6)
    BY <2>1, <2>2, <2>3, RunUpdatePlan
  <2>5. cfg.provider = "namecheap" /\ cfg.v6 => DOMAIN cfg.dom6 = {}
    <3>1. cfg.provider = "namecheap" /\ cfg.v6 => cfg.dom6 = << >>
      BY DEF validate_config, Lists
    <3>2. cfg.dom6 \in Seq(Names)
      BY <2>1, ConfigFields
    <3> QED BY <3>1, <3>2, NoNames
  <2>6. come = DOMAIN plan.calls
    BY <2>1, <2>2, <2>4, NothingUnsplit
  <2> HIDE DEF plan, come
  <2>7. cfg.provider \notin Singles =>
          \A i \in DOMAIN cfg.dom4 : \E n \in come : plan.calls[n] = Call(cfg.dom4[i], "A", a4)
    BY <2>2, <2>4, <2>6 DEF Makes4, Among
  <2>8. cfg.provider \notin Singles /\ cfg.v6 =>
          \A i \in DOMAIN cfg.dom6 : \E n \in come : plan.calls[n] = Call(cfg.dom6[i], "AAAA", a6)
    BY <2>2, <2>4, <2>5, <2>6 DEF Makes6, Among
  <2> QED BY <2>3, <2>6, <2>7, <2>8 DEF plan, b6, come
<1> QED BY <1>1, DdnsInvAlways, PTL

-----------------------------------------------------------------------------
(* Addresses are shown as reached only after every name was served.          *)

LEMMA ReachedStep ==
  ASSUME DdnsInv, [DdnsNext]_ddnsVars, NEW u \in Updaters, job[u].pc = "next",
         job'[u].pc = "idle", detail_line' = "reached"
  PROVE  job[u].todo = << >>
<1> DEFINE Keeps(v) == \A w \in Updaters \ {v} : job'[w] = job[w]
<1>0. \A v \in Updaters : \A j : JobGoes(v, j) => Keeps(v) /\ job'[v] = j
  BY DEF DdnsInv, JobsInv, JobGoes
<1>1. ASSUME NEW v \in Updaters, Begin(v) \/ Fetch4(v) \/ Fetch6(v) \/ Read(v) \/ Write(v)
      PROVE  FALSE
  <2>1. job[v].pc # "next" /\ \E j : JobGoes(v, j)
    BY <1>1 DEF Begin, Fetch4, Fetch6, Dispatch, Read, Write, JobEnds
  <2>2. u # v
    BY <2>1
  <2> QED BY <1>0, <2>1, <2>2
<1>2. ASSUME NEW v \in Updaters, Next_call(v) PROVE FALSE
  <2> DEFINE k == [job[v] EXCEPT !.pc = IF update_one(job[v].cfg.provider, Head(job[v].todo).name).reads
                                        THEN "read" ELSE "write"]
  <2>1. JobGoes(v, k) \/ status'.error = TRUE
    BY <1>2 DEF Next_call, set_error, DdnsInv, PlacesInv
  <2>2. k.pc # "idle"
    <3>1. job[v] \in JobType
      BY DEF DdnsInv, JobsInv, JobOK
    <3> QED BY <3>1 DEF JobType
  <2>3. UNCHANGED file /\ UNCHANGED load_config
    BY <1>2 DEF Next_call, load_config
  <2>4. status'.error = TRUE => FALSE
    BY <2>3 DEF detail_line
  <2> HIDE DEF k
  <2> QED BY <1>0, <2>1, <2>2, <2>4
<1>3. ASSUME NEW v \in Updaters, Finish(v) PROVE job[u].todo = << >>
  <2>1. \E j : JobGoes(v, j)
    BY <1>3 DEF Finish, JobEnds
  <2> QED BY <1>0, <1>3, <2>1 DEF Finish
<1>4. Kill => FALSE
  <2>1. Kill => status'.ok = FALSE
    BY DEF Kill
  <2> QED BY <2>1 DEF detail_line
<1>5. UNCHANGED job => FALSE
  OBVIOUS
<1> QED BY <1>1, <1>2, <1>3, <1>4, <1>5, DdnsSteps DEF Goes_on, Ping, EditConfig, Edits,
        service_action, EditTruncate, EditWrite, Move, ddnsVars

(* An address gets into the status as reached only when every name of its    *)
(* list was found to hold it, or was given it, in this update                *)
(* (src/ddns/service.py, do_update_once and set_ok).                         *)
THEOREM OkIsPublishedAlways == DdnsSpec => OkIsPublished
<1> DEFINE Shown(u) ==
             LET j == job[u] IN
             (j.pc = "next" /\ job'[u].pc = "idle" /\ detail_line' = "reached"
                /\ j.cfg.provider \notin {"aliyun", "dnspod"}) =>
             /\ (j.a4 # NoAddress /\ j.cfg.provider \notin Singles) =>
                    \A i \in DOMAIN j.cfg.dom4 : Call(j.cfg.dom4[i], "A", j.a4) \in j.held
             /\ (j.a6 # NoAddress /\ j.cfg.provider \notin Singles \cup {"namecheap"}) =>
                    \A i \in DOMAIN j.cfg.dom6 : Call(j.cfg.dom6[i], "AAAA", j.a6) \in j.held
<1>1. ASSUME DdnsInv, [DdnsNext]_ddnsVars, NEW u \in Updaters PROVE Shown(u)
  <2> SUFFICES ASSUME job[u].pc = "next", job'[u].pc = "idle", detail_line' = "reached",
                      job[u].cfg.provider \notin Unread
               PROVE  /\ (job[u].a4 # NoAddress /\ job[u].cfg.provider \notin Singles) =>
                             \A i \in DOMAIN job[u].cfg.dom4 :
                                Call(job[u].cfg.dom4[i], "A", job[u].a4) \in job[u].held
                      /\ (job[u].a6 # NoAddress /\ job[u].cfg.provider \notin Singles \cup {"namecheap"}) =>
                             \A i \in DOMAIN job[u].cfg.dom6 :
                                Call(job[u].cfg.dom6[i], "AAAA", job[u].a6) \in job[u].held
    BY DEF Unread
  <2> DEFINE j == job[u]
             plan == run_update(j.cfg, j.a4, j.a6)
  <2>1. j.todo = << >>
    BY <1>1, ReachedStep
  <2>2. JobOK(j) /\ Planned(j) /\ j.cfg \in Configs /\ j.a4 \in Maybe4 /\ j.a6 \in Maybe6
    BY <1>1 DEF DdnsInv, JobsInv, JobOK, JobType
  <2>3. \A c : Among(c, plan.calls) => c \in j.held
    BY <2>1, <2>2 DEF Planned, Among
  <2>4. j.cfg.provider \notin Singles =>
          /\ Makes4(plan, j.cfg.dom4, j.a4)
          /\ j.cfg.provider # "namecheap" => Makes6(plan, j.cfg.dom6, j.a6)
    BY <2>2, RunUpdatePlan DEF JobOK, Planned
  <2> QED BY <2>3, <2>4 DEF Makes4, Makes6
<1>2. DdnsInv /\ [DdnsNext]_ddnsVars => [\A u \in Updaters : Shown(u)]_ddnsVars
  BY <1>1
<1> QED BY <1>2, DdnsInvAlways, PTL DEF DdnsSpec, OkIsPublished

-----------------------------------------------------------------------------
(* One record per name, as long as no two updates were at the provider.      *)

\* An update that found no record, and adds one, is right about it, or its
\* reading was refused.
FoundNone(u) ==
    LET c == Head(job[u].todo)
    IN  (/\ job[u].pc = "write" /\ job[u].seen # 1
         /\ update_one(job[u].cfg.provider, c.name).reads) =>
           records[Key(c)] = << >> \/ Key(c) \in misread

OneRecord == \A k \in (Names \X Types) \ misread : Len(records[k]) <= 1

AloneAtProvider ==
    /\ OneRecord
    /\ \A u, v \in Updaters : AtProvider(u) /\ AtProvider(v) => u = v
    /\ \A u \in Updaters : FoundNone(u)

RecordsInv == ~overlapped => AloneAtProvider

\* Steps that go nowhere near the provider: no update comes to it, the one
\* that is there stays as it is or leaves, and the records stay.
LEMMA AwayFromProvider ==
  ASSUME AloneAtProvider, UNCHANGED <<records, misread>>,
         \A u \in Updaters : AtProvider(u)' => job'[u] = job[u]
  PROVE  AloneAtProvider'
<1>1. \A u \in Updaters : AtProvider(u)' => AtProvider(u)
  BY DEF AtProvider
<1>2. \A u \in Updaters : FoundNone(u)'
  <2> SUFFICES ASSUME NEW u \in Updaters PROVE FoundNone(u)'
    OBVIOUS
  <2>1. CASE AtProvider(u)'
    BY <2>1 DEF AloneAtProvider, FoundNone, Key
  <2>2. CASE ~AtProvider(u)'
    BY <2>2 DEF FoundNone, AtProvider
  <2> QED BY <2>1, <2>2
<1> QED BY <1>1, <1>2 DEF AloneAtProvider, OneRecord

\* A step of an updater that is not at the provider after it.
LEMMA LeavesProvider ==
  ASSUME DdnsInv, AloneAtProvider, UNCHANGED <<records, misread>>, NEW u \in Updaters,
         ~(AtProvider(u)'), \A v \in Updaters \ {u} : job'[v] = job[v]
  PROVE  AloneAtProvider'
BY AwayFromProvider

LEMMA BeginAlone == ASSUME DdnsInv, AloneAtProvider, NEW u \in Updaters,
                          Begin(u) \/ Ping(u) \/ Fetch4(u) \/ Fetch6(u) \/ Finish(u)
                   PROVE  AloneAtProvider'
<1> DEFINE Leaves == ~(AtProvider(u)') /\ \A v \in Updaters \ {u} : job'[v] = job[v]
<1>0. \A j : JobGoes(u, j) => \A v \in Updaters \ {u} : job'[v] = job[v]
  BY DEF DdnsInv, JobsInv, JobGoes
<1>1. \A j : JobGoes(u, j) => job'[u] = j
  BY DEF DdnsInv, JobsInv, JobGoes
<1>2. IdleJob.pc = "idle"
  BY DEF IdleJob
<1>3. job[u] \in JobType
  BY DEF DdnsInv, JobsInv, JobOK
<1>4. CASE Begin(u)
  <2> DEFINE k == [IdleJob EXCEPT !.pc = "fetch4", !.cfg = load_config]
  <2>1. JobGoes(u, k)
    BY <1>4 DEF Begin
  <2>2. k.pc = "fetch4"
    BY DEF IdleJob
  <2> HIDE DEF k
  <2>3. Leaves
    BY <1>0, <1>1, <2>1, <2>2 DEF AtProvider
  <2> QED BY <1>4, <2>3, LeavesProvider DEF Begin
<1>5. CASE Ping(u)
  BY <1>5, AwayFromProvider DEF Ping
<1>6. CASE Fetch4(u)
  <2>1. \E k : JobGoes(u, k) /\ k.pc = "fetch6"
    <3>1. CASE job[u].cfg.v4
      <4>1. PICK answers \in Answers(public.v4) :
                 LET a == get_public_ipv4(answers)
                 IN  JobGoes(u, [job[u] EXCEPT !.pc = "fetch6", !.a4 = a, !.failed = (a = NoAddress)])
        BY <1>6, <3>1 DEF Fetch4
      <4> DEFINE a == get_public_ipv4(answers)
                 none == (a = NoAddress)
                 k == [job[u] EXCEPT !.pc = "fetch6", !.a4 = a, !.failed = none]
      <4>2. JobGoes(u, k)
        BY <4>1
      <4> HIDE DEF a, none
      <4>3. k.pc = "fetch6"
        BY <1>3 DEF JobType
      <4> HIDE DEF k
      <4> QED BY <4>2, <4>3
    <3>2. CASE ~job[u].cfg.v4
      <4> DEFINE k == [job[u] EXCEPT !.pc = "fetch6"]
      <4>1. JobGoes(u, k) /\ k.pc = "fetch6"
        BY <1>3, <1>6, <3>2 DEF Fetch4, JobType
      <4> HIDE DEF k
      <4> QED BY <4>1
    <3> QED BY <3>1, <3>2
  <2>2. Leaves
    BY <1>0, <1>1, <2>1 DEF AtProvider
  <2> QED BY <1>6, <2>2, LeavesProvider DEF Fetch4
<1>7. CASE Fetch6(u)
  <2>1. JobEnds(u) \/ \E k : JobGoes(u, k) /\ k.pc = "next"
    <3>1. \A a, s : [job[u] EXCEPT !.pc = "next", !.a6 = a, !.todo = s].pc = "next"
      BY <1>3 DEF JobType
    <3>2. \E a, b : Dispatch(u, a, b)
      BY <1>7 DEF Fetch6
    <3> QED BY <3>1, <3>2 DEF Dispatch
  <2>2. Leaves
    BY <1>0, <1>1, <1>2, <2>1 DEF AtProvider, JobEnds
  <2> QED BY <1>7, <2>2, LeavesProvider DEF Fetch6
<1>8. CASE Finish(u)
  <2>1. Leaves
    BY <1>0, <1>1, <1>2, <1>8 DEF AtProvider, Finish, JobEnds
  <2> QED BY <1>8, <2>1, LeavesProvider DEF Finish
<1> QED BY <1>4, <1>5, <1>6, <1>7, <1>8

\* The next call is alone at the provider, or `overlapped` notes it.
LEMMA NextCallAlone == ASSUME DdnsInv, AloneAtProvider, NEW u \in Updaters, Next_call(u), ~overlapped'
                      PROVE  AloneAtProvider'
<1> DEFINE how == update_one(job[u].cfg.provider, Head(job[u].todo).name)
           k   == [job[u] EXCEPT !.pc = IF how.reads THEN "read" ELSE "write"]
<1>0. CASE JobEnds(u)
  <2>1. job'[u].pc = "idle" /\ \A v \in Updaters \ {u} : job'[v] = job[v]
    BY <1>0, JobsEnd DEF DdnsInv, IdleJob
  <2> QED BY <2>1, LeavesProvider DEF AtProvider, Next_call
<1> SUFFICES ASSUME ~JobEnds(u) PROVE AloneAtProvider'
  BY <1>0
<1>1. JobGoes(u, k) /\ UNCHANGED <<records, misread>> /\ \A v \in Updaters \ {u} : ~AtProvider(v)
  BY DEF Next_call
<1>2. job'[u] = k /\ \A v \in Updaters \ {u} : job'[v] = job[v]
  BY <1>1 DEF DdnsInv, JobsInv, JobGoes
<1>3. k.pc = (IF how.reads THEN "read" ELSE "write") /\ k.todo = job[u].todo /\ k.cfg = job[u].cfg
  <2>1. job[u] \in JobType
    BY DEF DdnsInv, JobsInv, JobOK
  <2> HIDE DEF how
  <2> QED BY <2>1 DEF JobType
<1> HIDE DEF k
<1>4. \A v \in Updaters \ {u} : ~(AtProvider(v)')
  BY <1>1, <1>2 DEF AtProvider
<1>5. k.pc = "write" => ~how.reads
  BY <1>3
<1>6. FoundNone(u)'
  BY <1>2, <1>3, <1>5 DEF FoundNone
<1>7. \A v \in Updaters \ {u} : FoundNone(v)'
  BY <1>4 DEF FoundNone, AtProvider
<1>8. OneRecord'
  BY <1>1 DEF AloneAtProvider, OneRecord
<1> QED BY <1>4, <1>6, <1>7, <1>8 DEF AloneAtProvider

LEMMA ReadAlone == ASSUME DdnsInv, AloneAtProvider, NEW u \in Updaters, Read(u) PROVE AloneAtProvider'
<1> DEFINE c == Head(job[u].todo)
           seen == IF records[Key(c)] = << >> THEN 0 ELSE 1
           k(n) == [job[u] EXCEPT !.pc = "write", !.seen = n]
<1>0. AtProvider(u) /\ UNCHANGED records
  BY DEF AtProvider, Read
<1>1. CASE JobGoes(u, Passed(u, c, TRUE)) /\ UNCHANGED misread
  <2>1. job'[u].pc = "next" /\ \A v \in Updaters \ {u} : job'[v] = job[v]
    BY <1>0, <1>1, PassedOK
  <2> QED BY <1>0, <1>1, <2>1, LeavesProvider DEF AtProvider
<1>2. CASE JobEnds(u) /\ UNCHANGED misread
  <2>1. job'[u].pc = "idle" /\ \A v \in Updaters \ {u} : job'[v] = job[v]
    BY <1>2, JobsEnd DEF DdnsInv, IdleJob
  <2> QED BY <1>0, <1>2, <2>1, LeavesProvider DEF AtProvider
<1>3. ASSUME NEW n \in {0, 1}, JobGoes(u, k(n)), misread \subseteq misread',
             n # 1 => records[Key(c)] = << >> \/ Key(c) \in misread'
      PROVE  AloneAtProvider'
  <2> DEFINE l == k(n)
  <2>1. job'[u] = l /\ \A v \in Updaters \ {u} : job'[v] = job[v]
    BY <1>3 DEF DdnsInv, JobsInv, JobGoes
  <2>2. l.pc = "write" /\ l.seen = n /\ l.todo = job[u].todo
    <3>1. job[u] \in JobType
      BY DEF DdnsInv, JobsInv, JobOK
    <3> QED BY <3>1 DEF JobType
  <2> HIDE DEF l
  <2>3. \A v \in Updaters \ {u} : ~AtProvider(v)
    BY <1>0 DEF AloneAtProvider
  <2>4. \A v \in Updaters \ {u} : ~(AtProvider(v)') /\ FoundNone(v)'
    BY <2>1, <2>3 DEF AtProvider, FoundNone
  <2>6. FoundNone(u)'
    BY <1>0, <1>3, <2>1, <2>2 DEF FoundNone, Key
  <2>7. OneRecord'
    BY <1>0, <1>3 DEF AloneAtProvider, OneRecord
  <2> QED BY <2>4, <2>6, <2>7 DEF AloneAtProvider
<1>4. \/ (JobGoes(u, Passed(u, c, TRUE)) \/ JobEnds(u)) /\ UNCHANGED misread
      \/ JobGoes(u, k(seen)) /\ UNCHANGED misread
      \/ JobGoes(u, k(0)) /\ misread' = misread \cup {Key(c)}
  BY DEF Read
<1>5. seen \in {0, 1} /\ (seen # 1 => records[Key(c)] = << >>)
  OBVIOUS
<1> HIDE DEF k, seen, c
<1>6. CASE JobGoes(u, k(seen)) /\ UNCHANGED misread
  BY <1>3, <1>5, <1>6
<1>7. CASE JobGoes(u, k(0)) /\ misread' = misread \cup {Key(c)}
  BY <1>3, <1>7
<1> QED BY <1>1, <1>2, <1>4, <1>6, <1>7

\* Only the update that is alone at the provider sets records, and it adds
\* one only where it found none.
LEMMA WriteAlone == ASSUME DdnsInv, AloneAtProvider, NEW u \in Updaters, Write(u) PROVE AloneAtProvider'
<1> DEFINE c == Head(job[u].todo)
           rs == records[Key(c)]
<1>0. AtProvider(u) /\ job[u].pc = "write" /\ UNCHANGED misread
  BY DEF AtProvider, Write
<1>1. Key(c) \in Names \X Types /\ rs \in Seq(Addresses) /\ DOMAIN records = Names \X Types
  BY <1>0, CallKey
<1>2. Key(c) \notin misread => Len(Applied(u, c)) <= 1
  <2> SUFFICES ASSUME Key(c) \notin misread PROVE Len(Applied(u, c)) <= 1
    OBVIOUS
  <2>1. Len(rs) <= 1
    BY <1>1 DEF AloneAtProvider, OneRecord
  <2>2. update_one(job[u].cfg.provider, c.name).reads /\ job[u].seen # 1 => rs = << >>
    BY <1>0 DEF AloneAtProvider, FoundNone
  <2> QED BY <1>0, <2>1, <2>2, AppliedRecords
<1>3. records' \in {records, [records EXCEPT ![Key(c)] = Applied(u, c)]}
  BY DEF Write
<1>4. OneRecord'
  <2> HIDE DEF c
  <2> QED BY <1>0, <1>1, <1>2, <1>3 DEF AloneAtProvider, OneRecord
<1>5. ~(AtProvider(u)') /\ \A v \in Updaters \ {u} : job'[v] = job[v]
  <2>1. CASE \E really \in BOOLEAN : /\ JobGoes(u, Passed(u, c, really))
                                     /\ really \/ job[u].cfg.provider \in Unread
    BY <1>0, <2>1, PassedOK DEF AtProvider
  <2>2. CASE JobEnds(u)
    BY <2>2, JobsEnd DEF DdnsInv, IdleJob, AtProvider
  <2>3. ~update_one(job[u].cfg.provider, c.name).looks => job[u].cfg.provider \in Unread
    BY <1>0, CallKey, UpdateOneKind
  <2> QED BY <2>1, <2>2, <2>3 DEF Write
<1>6. \A v \in Updaters : ~(AtProvider(v)')
  BY <1>0, <1>5 DEF AloneAtProvider, AtProvider
<1>7. \A v \in Updaters : FoundNone(v)'
  BY <1>6 DEF FoundNone, AtProvider
<1> QED BY <1>4, <1>6, <1>7 DEF AloneAtProvider

LEMMA RecordsInvInit == DdnsInit => RecordsInv
<1> SUFFICES ASSUME DdnsInit PROVE AloneAtProvider
  BY DEF RecordsInv
<1>1. \A u \in Updaters : job[u].pc = "idle"
  BY DEF DdnsInit, IdleJob
<1>2. \A k \in (Names \X Types) \ misread : Len(records[k]) <= 1
  BY EmptySeq DEF DdnsInit
<1> QED BY <1>1, <1>2 DEF AloneAtProvider, OneRecord, AtProvider, FoundNone

LEMMA RecordsInvStep == DdnsInv /\ RecordsInv /\ [DdnsNext]_ddnsVars => RecordsInv'
<1> SUFFICES ASSUME DdnsInv, RecordsInv, [DdnsNext]_ddnsVars, ~overlapped' PROVE AloneAtProvider'
  BY DEF RecordsInv
<1>1. AloneAtProvider
  <2>1. overlapped => overlapped'
    BY DdnsSteps DEF Begin, Ping, Goes_on, Fetch4, Fetch6, Next_call, Read, Write, Finish,
       EditConfig, Edits, service_action, EditTruncate, EditWrite, Move, Kill, ddnsVars
  <2> QED BY <2>1 DEF RecordsInv
<1>2. CASE \E u \in Updaters : Begin(u) \/ Ping(u)
  BY <1>1, <1>2, BeginAlone
<1>3. CASE \E u \in Updaters : Goes_on(u)
  BY <1>1, <1>3, BeginAlone, NextCallAlone, ReadAlone, WriteAlone DEF Goes_on
<1>4. CASE UNCHANGED <<job, records, misread>>
  BY <1>1, <1>4, AwayFromProvider
<1>5. CASE Kill
  <2>1. \A u \in Updaters : ~(AtProvider(u)')
    BY <1>5 DEF Kill, AtProvider, IdleJob
  <2> QED BY <1>1, <1>5, <2>1, AwayFromProvider DEF Kill
<1> QED BY <1>2, <1>3, <1>4, <1>5, DdnsSteps DEF EditConfig, Edits, service_action,
        EditTruncate, EditWrite, Move, ddnsVars

(* As long as no two updates were at the provider together, a name ends up   *)
(* with two records of one type only where a refused reading was taken for   *)
(* "no record" (src/ddns/providers, _update_one: the look for a record and   *)
(* its creation are two calls): for any number of names, addresses,          *)
(* requests, failures and restarts.                                          *)
THEOREM OneRecordIfAloneAlways == DdnsSpec => []OneRecordIfAlone
<1>1. DdnsInit => DdnsInv /\ RecordsInv
  BY DdnsInvInit, RecordsInvInit
<1>2. DdnsInv /\ RecordsInv /\ [DdnsNext]_ddnsVars => DdnsInv' /\ RecordsInv'
  BY DdnsInvStep, RecordsInvStep
<1>3. RecordsInv => OneRecordIfAlone
  BY DEF RecordsInv, AloneAtProvider, OneRecord, OneRecordIfAlone
<1> QED BY <1>1, <1>2, <1>3, PTL DEF DdnsSpec
=============================================================================
