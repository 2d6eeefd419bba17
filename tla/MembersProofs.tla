--------------------------- MODULE MembersProofs ---------------------------
(***************************************************************************)
(* What Members.tla promises of the names, the sessions and the yearly     *)
(* limit, for any number of members, requests, restarts and changes, and   *)
(* any length of time.                                                     *)
(***************************************************************************)
EXTENDS Members, FilterProofs

Fields == {"pc", "op", "member", "token", "raw", "copy", "at", "changed"}
IsFun(f) == f = [x \in DOMAIN f |-> f[x]]

\* The requests under way have their fields, and hold accounts whose names
\* are unique from the check until they are written.
FramesOK ==
    /\ DOMAIN frame = Workers /\ IsFun(frame)
    /\ \A w \in Workers : DOMAIN frame[w] = Fields /\ IsFun(frame[w])
Checked(accounts) == IsFun(accounts) /\ Unique(accounts)
NamesInv ==
    /\ FramesOK
    /\ Checked(file)
    /\ \A w \in Workers : frame[w].pc \in {"save", "write"} => Checked(frame[w].copy)

LEMMA IdleFields == DOMAIN Idle = Fields /\ IsFun(Idle) /\ Idle.pc = "idle"
BY DEF Idle, Fields, IsFun

LEMMA NoAccountsChecked == Checked(NoAccounts)
BY DEF Checked, NoAccounts, IsFun, Unique

\* A member's name is replaced by one that nobody else has.
LEMMA RenamedChecked ==
  ASSUME NEW accounts, NEW m \in DOMAIN accounts, NEW new, NEW hist,
         Checked(accounts),
         new = accounts[m].prefix \/ ~_member_prefix_in_use(accounts, new, m)
  PROVE  Checked([accounts EXCEPT ![m] = [prefix |-> new, history |-> hist]])
<1> DEFINE b == [accounts EXCEPT ![m] = [prefix |-> new, history |-> hist]]
<1>1. DOMAIN b = DOMAIN accounts /\ IsFun(b)
  BY DEF Checked, IsFun
<1>2. b[m].prefix = new
  BY DEF Checked, IsFun
<1>3. \A o \in DOMAIN accounts \ {m} : b[o] = accounts[o]
  BY DEF Checked, IsFun
<1>4. \A o \in DOMAIN accounts \ {m} : new # None => accounts[o].prefix # new
  BY DEF Checked, Unique, _member_prefix_in_use
<1>5. Unique(b)
  <2> SUFFICES ASSUME NEW p \in DOMAIN b, NEW o \in DOMAIN b, p # o, b[p].prefix # None
               PROVE  b[p].prefix # b[o].prefix
    BY DEF Unique
  <2>1. CASE p = m
    BY <1>1, <1>2, <1>3, <1>4, <2>1
  <2>2. CASE o = m
    BY <1>1, <1>2, <1>3, <1>4, <2>2
  <2>3. CASE p # m /\ o # m
    BY <1>1, <1>3, <2>3 DEF Checked, Unique
  <2> QED
    BY <2>1, <2>2, <2>3
<1> QED
  BY <1>1, <1>5 DEF Checked

\* A request moves on to a frame that has its fields and, where it is about to
\* save accounts, checked ones.
LEMMA GoesOn ==
  ASSUME NamesInv, NEW w \in Workers, NEW f, Goes(w, f),
         DOMAIN f = Fields, IsFun(f),
         f.pc \in {"save", "write"} => Checked(f.copy)
  PROVE  /\ FramesOK'
         /\ \A v \in Workers : frame'[v].pc \in {"save", "write"} => Checked(frame'[v].copy)
BY DEF NamesInv, FramesOK, Goes, IsFun

LEMMA EndsOn ==
  ASSUME NamesInv, NEW w \in Workers, Ends(w)
  PROVE  /\ FramesOK'
         /\ \A v \in Workers : frame'[v].pc \in {"save", "write"} => Checked(frame'[v].copy)
BY IdleFields, GoesOn DEF Ends

\* A request that only changes where it is leaves the accounts it holds.
LEMMA MovesOn ==
  ASSUME NamesInv, NEW w \in Workers, NEW f, Goes(w, f),
         DOMAIN f = Fields, IsFun(f), f.pc \notin {"save", "write"},
         UNCHANGED file
  PROVE  NamesInv'
BY GoesOn DEF NamesInv, Checked, Unique

LEMMA EndsHere ==
  ASSUME NamesInv, NEW w \in Workers, Ends(w), UNCHANGED file
  PROVE  NamesInv'
BY EndsOn DEF NamesInv, Checked, Unique

\* Whatever a request does with the key of the sessions, it saves nothing yet.
LEMMA WithKeyNames ==
  ASSUME NamesInv, NEW w \in Workers, NEW key, WithKey(w, key), UNCHANGED file
  PROVE  NamesInv'
<1> DEFINE f == frame[w]
<1>1. DOMAIN f = Fields /\ IsFun(f)
  BY DEF NamesInv, FramesOK
<1>2. CASE Ends(w)
  BY <1>2, EndsHere
<1>3. CASE \E m : Goes(w, [Idle EXCEPT !.pc = "secret", !.op = "login", !.member = m])
  <2>1. PICK m : Goes(w, [Idle EXCEPT !.pc = "secret", !.op = "login", !.member = m])
    BY <1>3
  <2> DEFINE g == [Idle EXCEPT !.pc = "secret", !.op = "login", !.member = m]
  <2>2. DOMAIN g = Fields /\ IsFun(g) /\ g.pc = "secret"
    BY IdleFields DEF Fields, IsFun
  <2> HIDE DEF g
  <2>3. Goes(w, g)
    BY <2>1 DEF g
  <2> QED
    BY <2>2, <2>3, MovesOn
<1>4. CASE \E m : Goes(w, [f EXCEPT !.pc = "load", !.member = m])
  <2>1. PICK m : Goes(w, [f EXCEPT !.pc = "load", !.member = m])
    BY <1>4
  <2> DEFINE g == [f EXCEPT !.pc = "load", !.member = m]
  <2>2. DOMAIN g = Fields /\ IsFun(g) /\ g.pc = "load"
    BY <1>1 DEF Fields, IsFun
  <2> HIDE DEF g
  <2>3. Goes(w, g)
    BY <2>1 DEF g
  <2> QED
    BY <2>2, <2>3, MovesOn
<1> QED
  BY <1>2, <1>3, <1>4 DEF WithKey

\* What is loaded and edited by a request is checked.
LEMMA LoadNames ==
  ASSUME NamesInv, NEW w \in Workers, LoadAccounts(w)
  PROVE  NamesInv'
<1> DEFINE f == frame[w]
           m == f.member
           accounts == _load_member_accounts
           history == Recent(accounts[m].history)
           new == IF f.raw = None THEN accounts[m].prefix
                                  ELSE _member_prefix_sanitize(f.raw)
           renames == new # accounts[m].prefix
           hist == IF renames THEN Append(history, now) ELSE history
           copy == [accounts EXCEPT ![m] = [prefix |-> new, history |-> hist]]
           g == [f EXCEPT !.pc = "save", !.at = now, !.changed = renames, !.copy = copy]
<1>1. UNCHANGED file
  BY DEF LoadAccounts
<1>2. \/ Ends(w)
      \/ /\ m \in DOMAIN accounts
         /\ f.raw = None \/ ~_member_prefix_in_use(accounts, new, m)
         /\ Goes(w, g)
  BY DEF LoadAccounts
<1>3. CASE Ends(w)
  BY <1>1, <1>3, EndsHere
<1>4. CASE /\ m \in DOMAIN accounts
           /\ f.raw = None \/ ~_member_prefix_in_use(accounts, new, m)
           /\ Goes(w, g)
  <2>1. Checked(accounts)
    BY NoAccountsChecked DEF NamesInv, _load_member_accounts
  <2>2. new = accounts[m].prefix \/ ~_member_prefix_in_use(accounts, new, m)
    BY <1>4
  <2>3. Checked(copy)
    <3> HIDE DEF accounts, new, hist, m
    <3> QED
      BY <1>4, <2>1, <2>2, RenamedChecked
  <2> HIDE DEF accounts, new, hist, copy
  <2>4. DOMAIN f = Fields /\ IsFun(f)
    BY DEF NamesInv, FramesOK
  <2>5. DOMAIN g = Fields /\ IsFun(g) /\ g.copy = copy
    BY <2>4 DEF Fields, IsFun
  <2> HIDE DEF g
  <2>6. /\ FramesOK'
        /\ \A v \in Workers : frame'[v].pc \in {"save", "write"} => Checked(frame'[v].copy)
    BY <1>4, <2>3, <2>5, GoesOn
  <2> QED
    BY <1>1, <2>6 DEF NamesInv, Checked, Unique
<1> QED
  BY <1>2, <1>3, <1>4

LEMMA TruncateNames ==
  ASSUME NamesInv, NEW w \in Workers, TruncateAccounts(w)
  PROVE  NamesInv'
<1> DEFINE g == [frame[w] EXCEPT !.pc = "write"]
<1>1. UNCHANGED file /\ frame[w].pc = "save" /\ (Goes(w, g) \/ Ends(w))
  BY DEF TruncateAccounts
<1>2. DOMAIN g = Fields /\ IsFun(g) /\ g.copy = frame[w].copy
  BY DEF NamesInv, FramesOK, Fields, IsFun
<1>3. Checked(g.copy)
  BY <1>1, <1>2 DEF NamesInv
<1> HIDE DEF g
<1>4. /\ FramesOK'
      /\ \A v \in Workers : frame'[v].pc \in {"save", "write"} => Checked(frame'[v].copy)
  BY <1>1, <1>2, <1>3, GoesOn, EndsOn
<1> QED
  BY <1>1, <1>4 DEF NamesInv, Checked, Unique

LEMMA WriteNames ==
  ASSUME NamesInv, NEW w \in Workers, WriteAccounts(w)
  PROVE  NamesInv'
<1>1. Checked(file')
  BY DEF WriteAccounts, NamesInv, Checked, Unique
<1>2. /\ FramesOK'
      /\ \A v \in Workers : frame'[v].pc \in {"save", "write"} => Checked(frame'[v].copy)
  BY EndsOn DEF WriteAccounts
<1> QED
  BY <1>1, <1>2 DEF NamesInv, Checked, Unique

\* The requests that begin.
LEMMA BeginNames ==
  ASSUME NamesInv, NEW w \in Workers, Login(w) \/ \E op \in {"profile", "ddns"} : Ask(w, op)
  PROVE  NamesInv'
<1>1. UNCHANGED file
  BY DEF Login, Ask, fileVars
<1>2. CASE Login(w)
  <2>1. PICK m \in Members : Goes(w, [Idle EXCEPT !.pc = "secret", !.op = "login", !.member = m])
    BY <1>2 DEF Login
  <2> DEFINE g == [Idle EXCEPT !.pc = "secret", !.op = "login", !.member = m]
  <2>2. DOMAIN g = Fields /\ IsFun(g) /\ g.pc = "secret"
    BY IdleFields DEF Fields, IsFun
  <2>3. Goes(w, g)
    BY <2>1
  <2> HIDE DEF g
  <2> QED
    BY <1>1, <2>2, <2>3, MovesOn
<1>3. CASE Ask(w, "profile")
  <2>1. PICK t \in tokens : Goes(w, [Idle EXCEPT !.pc = "secret", !.op = "profile", !.token = t])
    BY <1>3 DEF Ask
  <2> DEFINE g == [Idle EXCEPT !.pc = "secret", !.op = "profile", !.token = t]
  <2>2. DOMAIN g = Fields /\ IsFun(g) /\ g.pc = "secret"
    BY IdleFields DEF Fields, IsFun
  <2>3. Goes(w, g)
    BY <2>1
  <2> HIDE DEF g
  <2> QED
    BY <1>1, <2>2, <2>3, MovesOn
<1>4. CASE Ask(w, "ddns")
  <2>1. PICK t \in tokens, raw \in Raws \cup {None} :
          Goes(w, [Idle EXCEPT !.pc = "secret", !.op = "ddns", !.token = t, !.raw = raw])
    BY <1>4 DEF Ask
  <2> DEFINE g == [Idle EXCEPT !.pc = "secret", !.op = "ddns", !.token = t, !.raw = raw]
  <2>2. DOMAIN g = Fields /\ IsFun(g) /\ g.pc = "secret"
    BY IdleFields DEF Fields, IsFun
  <2>3. Goes(w, g)
    BY <2>1
  <2> HIDE DEF g
  <2> QED
    BY <1>1, <2>2, <2>3, MovesOn
<1> QED
  BY <1>2, <1>3, <1>4

\* The key of the sessions is read, waited for and made.
LEMMA SecretNames ==
  ASSUME NamesInv, NEW w \in Workers, ReadSecret(w) \/ LockSecret(w) \/ Mint(w)
  PROVE  NamesInv'
<1>1. UNCHANGED file
  BY DEF ReadSecret, LockSecret, Mint, fileVars
<1>2. \/ WithKey(w, secret) \/ WithKey(w, minted')
      \/ Goes(w, [frame[w] EXCEPT !.pc = "lock"]) \/ Goes(w, [frame[w] EXCEPT !.pc = "mint"])
  BY DEF ReadSecret, LockSecret, Mint
<1>3. ASSUME NEW pc \in {"lock", "mint"}, Goes(w, [frame[w] EXCEPT !.pc = pc])
      PROVE  NamesInv'
  <2> DEFINE g == [frame[w] EXCEPT !.pc = pc]
  <2>1. DOMAIN g = Fields /\ IsFun(g) /\ g.pc \notin {"save", "write"}
    BY DEF NamesInv, FramesOK, Fields, IsFun
  <2> HIDE DEF g
  <2>2. Goes(w, g)
    BY <1>3 DEF g
  <2> QED
    BY <1>1, <2>1, <2>2, MovesOn
<1> QED
  BY <1>1, <1>2, <1>3, WithKeyNames

LEMMA NamesInit == Init => NamesInv
<1> SUFFICES ASSUME Init PROVE NamesInv
  OBVIOUS
<1>1. FramesOK
  BY IdleFields DEF Init, FramesOK, IsFun
<1>2. Checked(file)
  BY DEF Init, Checked, Unique, IsFun
<1>3. \A w \in Workers : frame[w].pc = "idle"
  BY IdleFields DEF Init
<1> QED
  BY <1>1, <1>2, <1>3 DEF NamesInv

LEMMA NamesStep == NamesInv /\ [Next]_vars => NamesInv'
<1> SUFFICES ASSUME NamesInv, [Next]_vars PROVE NamesInv'
  OBVIOUS
<1>1. ASSUME NEW w \in Workers, Request(w)
      PROVE  NamesInv'
  <2>1. CASE Login(w) \/ Ask(w, "profile") \/ Ask(w, "ddns")
    BY <2>1, BeginNames
  <2>2. CASE ReadSecret(w) \/ LockSecret(w) \/ Mint(w)
    BY <2>2, SecretNames
  <2>3. CASE LoadAccounts(w)
    BY <2>3, LoadNames
  <2>4. CASE TruncateAccounts(w)
    BY <2>4, TruncateNames
  <2>5. CASE WriteAccounts(w)
    BY <2>5, WriteNames
  <2> QED
    BY <1>1, <2>1, <2>2, <2>3, <2>4, <2>5 DEF Request
<1>2. CASE Kill
  <2>1. FramesOK'
    BY <1>2, IdleFields DEF Kill, FramesOK, IsFun
  <2>2. \A w \in Workers : frame'[w].pc = "idle"
    BY <1>2, IdleFields DEF Kill
  <2>3. UNCHANGED file
    BY <1>2 DEF Kill, fileVars
  <2> QED
    BY <2>1, <2>2, <2>3 DEF NamesInv, Checked, Unique
<1>3. CASE Tick
  BY <1>3 DEF Tick, fileVars, NamesInv, FramesOK, Checked, Unique
<1>4. CASE UNCHANGED vars
  BY <1>4 DEF vars, NamesInv, FramesOK, Checked, Unique
<1> QED
  BY <1>1, <1>2, <1>3, <1>4 DEF Next

\* No name belongs to two members (service.py:276-281), whatever requests
\* overlap, whatever is typed, and wherever the process ends.
THEOREM NamesUniqueAlways == Spec => []NamesUnique
<1>1. NamesInv => NamesUnique
  BY DEF NamesInv, Checked, NamesUnique
<1> QED
  BY NamesInit, NamesStep, <1>1, PTL DEF Spec

-----------------------------------------------------------------------------
(* The sessions.  A key is made by one request at a time, and stored only    *)
(* when there is none, while no token has been given out yet.                *)
SessInv ==
    /\ \A w \in Workers : frame[w].pc = "mint" => lock = w /\ (writable => secret = 0)
    /\ minted \in Nat
    /\ writable => \A t \in tokens : secret # 0 /\ t.key = secret

\* Nobody else begins to make a key when a request goes on.
LEMMA OthersStay ==
  ASSUME FramesOK, NEW w \in Workers, NEW f, Goes(w, f)
  PROVE  /\ frame'[w] = f
         /\ \A v \in Workers \ {w} : frame'[v] = frame[v]
BY DEF FramesOK, Goes

\* A request that uses a key is not about to make one; a token that it gives
\* out is signed with that key.
LEMMA WithKeyLeaves ==
  ASSUME FramesOK, NEW w \in Workers, NEW key, WithKey(w, key)
  PROVE  /\ frame'[w].pc # "mint"
         /\ \A v \in Workers \ {w} : frame'[v] = frame[v]
         /\ \A t \in tokens' \ tokens : t.key = key
<1> DEFINE f == frame[w]
<1>1. \E g : Goes(w, g) /\ g.pc # "mint"
  <2>1. CASE Ends(w)
    BY <2>1, IdleFields DEF Ends
  <2>2. CASE \E m : Goes(w, [Idle EXCEPT !.pc = "secret", !.op = "login", !.member = m])
    <3>1. PICK m : Goes(w, [Idle EXCEPT !.pc = "secret", !.op = "login", !.member = m])
      BY <2>2
    <3> DEFINE g == [Idle EXCEPT !.pc = "secret", !.op = "login", !.member = m]
    <3>2. g.pc = "secret"
      BY IdleFields DEF Fields, IsFun
    <3>3. Goes(w, g)
      BY <3>1
    <3> HIDE DEF g
    <3> QED
      BY <3>2, <3>3
  <2>3. CASE \E m : Goes(w, [f EXCEPT !.pc = "load", !.member = m])
    <3>1. PICK m : Goes(w, [f EXCEPT !.pc = "load", !.member = m])
      BY <2>3
    <3> DEFINE g == [f EXCEPT !.pc = "load", !.member = m]
    <3>2. g.pc = "load"
      BY DEF FramesOK, Fields, IsFun
    <3>3. Goes(w, g)
      BY <3>1
    <3> HIDE DEF g
    <3> QED
      BY <3>2, <3>3
  <2> QED
    BY <2>1, <2>2, <2>3 DEF WithKey
<1>2. \A t \in tokens' \ tokens : t.key = key
  BY DEF WithKey, _member_issue_session
<1> QED
  BY <1>1, <1>2, OthersStay

\* A request that neither makes nor uses a key.
LEMMA SessMoves ==
  ASSUME FramesOK, SessInv, NEW w \in Workers, NEW g, Goes(w, g), g.pc # "mint",
         UNCHANGED sessVars
  PROVE  SessInv'
BY OthersStay DEF SessInv, sessVars

\* What the requests for names and the beginnings do to the place of a request.
LEMMA SessElsewhere ==
  ASSUME FramesOK, SessInv, NEW w \in Workers,
         \/ Login(w) \/ Ask(w, "profile") \/ Ask(w, "ddns")
         \/ LoadAccounts(w) \/ TruncateAccounts(w) \/ WriteAccounts(w)
  PROVE  SessInv'
<1> DEFINE f == frame[w]
<1>1. UNCHANGED sessVars
  BY DEF Login, Ask, LoadAccounts, TruncateAccounts, WriteAccounts
<1>2. CASE Ends(w)
  BY <1>1, <1>2, IdleFields, SessMoves DEF Ends
<1>3. CASE \E op, m : Goes(w, [Idle EXCEPT !.pc = "secret", !.op = op, !.member = m])
  <2>1. PICK op, m : Goes(w, [Idle EXCEPT !.pc = "secret", !.op = op, !.member = m])
    BY <1>3
  <2> DEFINE g == [Idle EXCEPT !.pc = "secret", !.op = op, !.member = m]
  <2>2. g.pc = "secret" /\ Goes(w, g)
    BY <2>1, IdleFields DEF Fields, IsFun
  <2> HIDE DEF g
  <2> QED
    BY <1>1, <2>2, SessMoves
<1>4. CASE \E op, t : Goes(w, [Idle EXCEPT !.pc = "secret", !.op = op, !.token = t])
  <2>1. PICK op, t : Goes(w, [Idle EXCEPT !.pc = "secret", !.op = op, !.token = t])
    BY <1>4
  <2> DEFINE g == [Idle EXCEPT !.pc = "secret", !.op = op, !.token = t]
  <2>2. g.pc = "secret" /\ Goes(w, g)
    BY <2>1, IdleFields DEF Fields, IsFun
  <2> HIDE DEF g
  <2> QED
    BY <1>1, <2>2, SessMoves
<1>5. CASE \E op, t, raw :
             Goes(w, [Idle EXCEPT !.pc = "secret", !.op = op, !.token = t, !.raw = raw])
  <2>1. PICK op, t, raw :
          Goes(w, [Idle EXCEPT !.pc = "secret", !.op = op, !.token = t, !.raw = raw])
    BY <1>5
  <2> DEFINE g == [Idle EXCEPT !.pc = "secret", !.op = op, !.token = t, !.raw = raw]
  <2>2. g.pc = "secret" /\ Goes(w, g)
    BY <2>1, IdleFields DEF Fields, IsFun
  <2> HIDE DEF g
  <2> QED
    BY <1>1, <2>2, SessMoves
<1>6. CASE \E a, c, copy : Goes(w, [f EXCEPT !.pc = "save", !.at = a, !.changed = c, !.copy = copy])
  <2>1. PICK a, c, copy : Goes(w, [f EXCEPT !.pc = "save", !.at = a, !.changed = c, !.copy = copy])
    BY <1>6
  <2> DEFINE g == [f EXCEPT !.pc = "save", !.at = a, !.changed = c, !.copy = copy]
  <2>2. g.pc = "save" /\ Goes(w, g)
    BY <2>1 DEF FramesOK, Fields, IsFun
  <2> HIDE DEF g
  <2> QED
    BY <1>1, <2>2, SessMoves
<1>7. CASE Goes(w, [f EXCEPT !.pc = "write"])
  <2> DEFINE g == [f EXCEPT !.pc = "write"]
  <2>2. g.pc = "write" /\ Goes(w, g)
    BY <1>7 DEF FramesOK, Fields, IsFun
  <2> HIDE DEF g
  <2> QED
    BY <1>1, <2>2, SessMoves
<1>8. CASE Login(w) \/ Ask(w, "profile") \/ Ask(w, "ddns")
  BY <1>3, <1>4, <1>5, <1>8 DEF Login, Ask
<1>9. CASE LoadAccounts(w)
  BY <1>2, <1>6, <1>9 DEF LoadAccounts
<1>10. CASE TruncateAccounts(w) \/ WriteAccounts(w)
  BY <1>2, <1>7, <1>10 DEF TruncateAccounts, WriteAccounts
<1> QED
  BY <1>8, <1>9, <1>10

LEMMA SessStep == NamesInv /\ SessInv /\ [Next]_vars => SessInv'
<1> SUFFICES ASSUME NamesInv, SessInv, [Next]_vars PROVE SessInv'
  OBVIOUS
<1>0. FramesOK
  BY DEF NamesInv
<1>1. ASSUME NEW w \in Workers, ReadSecret(w) PROVE SessInv'
  <2>1. UNCHANGED <<writable, secret, minted, lock>>
    BY <1>1 DEF ReadSecret
  <2>2. CASE secret # 0 /\ WithKey(w, secret)
    BY <1>0, <2>1, <2>2, WithKeyLeaves DEF SessInv
  <2>3. CASE Goes(w, [frame[w] EXCEPT !.pc = "lock"]) /\ UNCHANGED tokens
    <3> DEFINE g == [frame[w] EXCEPT !.pc = "lock"]
    <3>1. g.pc = "lock" /\ Goes(w, g) /\ UNCHANGED sessVars
      BY <1>0, <2>1, <2>3 DEF FramesOK, Fields, IsFun, sessVars
    <3> HIDE DEF g
    <3> QED
      BY <1>0, <3>1, SessMoves
  <2> QED
    BY <1>1, <2>2, <2>3 DEF ReadSecret
<1>2. ASSUME NEW w \in Workers, LockSecret(w) PROVE SessInv'
  <2>1. UNCHANGED <<writable, secret, minted>> /\ lock = None
    BY <1>2 DEF LockSecret
  <2>2. CASE secret # 0 /\ WithKey(w, secret) /\ UNCHANGED lock
    BY <1>0, <2>1, <2>2, WithKeyLeaves DEF SessInv
  <2>3. CASE /\ secret = 0 /\ lock' = w
             /\ Goes(w, [frame[w] EXCEPT !.pc = "mint"]) /\ UNCHANGED tokens
    <3>1. \A v \in Workers \ {w} : frame'[v] = frame[v]
      BY <1>0, <2>3, OthersStay
    <3>2. None \notin Workers
      BY MembersAssumption
    <3> QED
      BY <2>1, <2>3, <3>1, <3>2 DEF SessInv
  <2> QED
    BY <1>2, <2>2, <2>3 DEF LockSecret
<1>3. ASSUME NEW w \in Workers, Mint(w) PROVE SessInv'
  <2>1. /\ frame[w].pc = "mint" /\ minted' = minted + 1 /\ UNCHANGED writable
        /\ WithKey(w, minted') /\ (writable => secret' = minted')
    BY <1>3 DEF Mint
  <2>2. lock = w /\ (writable => secret = 0) /\ minted' \in Nat /\ minted' # 0
    BY <2>1 DEF SessInv
  <2>3. \A v \in Workers : frame'[v].pc # "mint"
    BY <1>0, <2>1, <2>2, WithKeyLeaves DEF SessInv
  <2>4. writable => \A t \in tokens' : secret' # 0 /\ t.key = secret'
    BY <1>0, <2>1, <2>2, WithKeyLeaves DEF SessInv
  <2> QED
    BY <2>1, <2>2, <2>3, <2>4 DEF SessInv
<1>4. CASE Kill
  BY <1>4, IdleFields DEF Kill, SessInv
<1>5. CASE Tick
  BY <1>5 DEF Tick, sessVars, SessInv
<1>6. CASE UNCHANGED vars
  BY <1>6 DEF vars, SessInv
<1> QED
  BY <1>0, <1>1, <1>2, <1>3, <1>4, <1>5, <1>6, SessElsewhere DEF Next, Request

\* Every token is accepted until it expires, however many requests come first
\* at the same time and however often the process restarts, provided the key
\* can be stored (app.py:8076-8101).
THEOREM SessionsHoldAlways == Spec => []SessionsHold
<1>1. Init => SessInv
  BY IdleFields DEF Init, SessInv
<1>2. SessInv => SessionsHold
  BY DEF SessInv, SessionsHold, _member_get_session
<1> QED
  BY NamesInit, NamesStep, <1>1, SessStep, <1>2, PTL DEF Spec

-----------------------------------------------------------------------------
(* The yearly limit.  As long as requests do not overlap, what an account    *)
(* remembers is an end of what the answers promised, and what it has         *)
(* forgotten is more than a Window ago; so the Limit-th last change is       *)
(* either remembered, and counted, or forgotten, and long past.              *)
Current(t) == {x \in Nat : x >= t - Window}
Monotone(c) == \A i, j \in DOMAIN c : i <= j => c[i] <= c[j]
Spaced(c) == \A i \in DOMAIN c : i + Limit \in DOMAIN c => c[i + Limit] - c[i] > Window
Record(c, t) ==
    /\ c \in Seq(Nat) /\ Monotone(c) /\ Spaced(c)
    /\ \A i \in DOMAIN c : c[i] <= t
Remembers(h, c, t) == h \in Seq(Nat) /\ Suffix(h, c, Current(t), Len(c))

\* What will have been changed when w has saved its accounts.
Promised(w, m) ==
    IF frame[w].changed /\ m = frame[w].member THEN Append(changes[m], frame[w].at)
                                              ELSE changes[m]
Saving(w) == frame[w].pc \in {"save", "write"}
\* The invariant: of the file, and of what a request is about to make of it.
YearInv ==
    /\ now \in Nat
    /\ ~overlapped =>
         /\ \A v, w \in Workers : Saving(v) /\ Saving(w) => v = w
         /\ changes \in [Members -> Seq(Nat)]
         /\ \A m \in Members : Record(changes[m], now)
         /\ \A m \in DOMAIN file : m \in Members /\ Remembers(file[m].history, changes[m], now)
         /\ \A w \in Workers : Saving(w) =>
              /\ \A m \in Members : Record(Promised(w, m), now)
              /\ \A m \in DOMAIN frame[w].copy :
                   m \in Members /\ Remembers(frame[w].copy[m].history, Promised(w, m), now)

-----------------------------------------------------------------------------
(* Lists of times.                                                           *)

\* A record of changes, element by element.
LEMMA RecordFacts ==
  ASSUME NEW c, Record(c, now)
  PROVE  /\ c \in Seq(Nat) /\ Len(c) \in Nat /\ DOMAIN c = 1..Len(c)
         /\ \A i \in 1..Len(c) : c[i] \in Nat
         /\ \A i \in 1..Len(c) : c[i] <= now
         /\ \A i, j \in 1..Len(c) : i <= j => c[i] <= c[j]
         /\ \A i \in 1..Len(c) : i + Limit \in 1..Len(c) => c[i + Limit] - c[i] > Window
<1>1. c \in Seq(Nat)
  BY DEF Record
<1>2. Len(c) \in Nat /\ DOMAIN c = 1..Len(c) /\ \A i \in 1..Len(c) : c[i] \in Nat
  BY <1>1
<1>3. \A i \in 1..Len(c) : c[i] <= now
  BY <1>2 DEF Record
<1>4. \A i, j \in 1..Len(c) : i <= j => c[i] <= c[j]
  BY <1>2 DEF Record, Monotone
<1>5. \A i \in 1..Len(c) : i + Limit \in 1..Len(c) => c[i + Limit] - c[i] > Window
  BY <1>2 DEF Record, Spaced
<1> QED
  BY <1>1, <1>2, <1>3, <1>4, <1>5

\* What is forgotten stays so as time goes by.
LEMMA LaterRecord ==
  ASSUME NEW t \in Nat, NEW u \in Nat, t <= u, NEW c, Record(c, t)
  PROVE  Record(c, u)
<1>1. \A i \in 1..Len(c) : c[i] \in Nat /\ c[i] <= t
  BY DEF Record
<1>2. \A i \in DOMAIN c : c[i] <= u
  BY <1>1 DEF Record
<1> QED
  BY <1>2 DEF Record

\* The same of what an account remembers.
LEMMA LaterRemembers ==
  ASSUME NEW t \in Nat, NEW u \in Nat, t <= u, NEW c \in Seq(Nat), NEW h, Remembers(h, c, t)
  PROVE  Remembers(h, c, u)
<1>1. \A x \in Nat : x \notin Current(t) => x \notin Current(u)
  <2>1. Window \in Nat
    BY MembersAssumption
  <2> QED
    BY <2>1 DEF Current
<1>2. \A p \in 1..(Len(c) - Len(h)) : c[p] \in Nat
  BY DEF Remembers, Suffix
<1> QED
  BY <1>1, <1>2 DEF Remembers, Suffix

\* What is dropped from a history is more than a Window ago.
LEMMA RecentRemembers ==
  ASSUME NEW c, Record(c, now), NEW h, Remembers(h, c, now), now \in Nat
  PROVE  Remembers(Recent(h), c, now)
<1> DEFINE k == Recent(h)
           d == Len(c) - Len(h)
<1>1. /\ c \in Seq(Nat) /\ h \in Seq(Nat) /\ Len(h) \in 0..Len(c) /\ Len(c) \in Nat
      /\ \A j \in 1..Len(h) : h[j] = c[d + j]
      /\ \A p \in 1..d : c[p] \notin Current(now)
  BY DEF Record, Remembers, Suffix
<1>2. Upward(h, Current(now))
  <2> SUFFICES ASSUME NEW i \in 1..Len(h), NEW j \in 1..Len(h), i <= j, h[i] \in Current(now)
               PROVE  h[j] \in Current(now)
    <3>1. DOMAIN h = 1..Len(h)
      BY <1>1
    <3> QED
      BY <3>1 DEF Upward
  <2>1. d + i \in 1..Len(c) /\ d + j \in 1..Len(c) /\ d + i <= d + j
    BY <1>1
  <2>2. c[d + i] <= c[d + j] /\ c[d + i] \in Nat /\ c[d + j] \in Nat
    BY <2>1, RecordFacts
  <2>3. h[i] = c[d + i] /\ h[j] = c[d + j]
    BY <1>1
  <2> QED
    BY <2>2, <2>3, MembersAssumption DEF Current
<1>3. k = Filter(h, Current(now))
  BY DEF Recent, Current
<1>4. k \in Seq(Nat) /\ Suffix(k, h, Current(now), Len(h))
  BY <1>1, <1>2, <1>3, FilterIsSuffix, FilterKeeps DEF Kept
<1> HIDE DEF k
<1>5. /\ Len(k) \in 0..Len(h)
      /\ \A j \in 1..Len(k) : k[j] = h[(Len(h) - Len(k)) + j]
      /\ \A p \in 1..(Len(h) - Len(k)) : h[p] \notin Current(now)
  BY <1>4 DEF Suffix
<1>6. Len(k) \in 0..Len(c)
  BY <1>1, <1>5
<1>7. ASSUME NEW j \in 1..Len(k) PROVE k[j] = c[(Len(c) - Len(k)) + j]
  <2>1. (Len(h) - Len(k)) + j \in 1..Len(h)
    BY <1>1, <1>5
  <2>2. h[(Len(h) - Len(k)) + j] = c[d + ((Len(h) - Len(k)) + j)]
    BY <1>1, <2>1
  <2>3. d + ((Len(h) - Len(k)) + j) = (Len(c) - Len(k)) + j
    BY <1>1, <1>5
  <2> QED
    BY <1>5, <2>2, <2>3
<1>8. ASSUME NEW p \in 1..(Len(c) - Len(k)) PROVE c[p] \notin Current(now)
  <2>1. CASE p \in 1..d
    BY <1>1, <2>1
  <2>2. CASE p \notin 1..d
    <3>1. p - d \in 1..(Len(h) - Len(k)) /\ p - d \in 1..Len(h) /\ d + (p - d) = p
      BY <1>1, <1>5, <2>2
    <3> QED
      BY <1>1, <1>5, <3>1
  <2> QED
    BY <2>1, <2>2
<1> QED
  BY <1>4, <1>6, <1>7, <1>8 DEF Remembers, Suffix, k

\* A change that the limit admits leaves the record spaced, and is remembered.
LEMMA ChangeRecorded ==
  ASSUME NEW c, Record(c, now), NEW h, Remembers(h, c, now), now \in Nat, Len(h) < Limit
  PROVE  Record(Append(c, now), now) /\ Remembers(Append(h, now), Append(c, now), now)
<1> DEFINE e == Append(c, now)
           k == Append(h, now)
<1>1. /\ c \in Seq(Nat) /\ h \in Seq(Nat) /\ Len(c) \in Nat /\ Len(h) \in Nat /\ Len(h) <= Len(c)
      /\ \A j \in 1..Len(h) : h[j] = c[(Len(c) - Len(h)) + j]
      /\ \A p \in 1..(Len(c) - Len(h)) : c[p] \notin Current(now)
      /\ DOMAIN c = 1..Len(c)
  BY DEF Record, Remembers, Suffix
<1>2. /\ e \in Seq(Nat) /\ Len(e) = Len(c) + 1 /\ e[Len(c) + 1] = now
      /\ DOMAIN e = 1..(Len(c) + 1) /\ \A i \in 1..Len(c) : e[i] = c[i]
  BY <1>1
<1>3. /\ k \in Seq(Nat) /\ Len(k) = Len(h) + 1 /\ k[Len(h) + 1] = now
      /\ \A i \in 1..Len(h) : k[i] = h[i]
  BY <1>1
<1> HIDE DEF e, k
<1>4. \A i \in 1..Len(c) : c[i] \in Nat /\ c[i] <= now
  BY RecordFacts
<1>5. Monotone(e)
  <2> SUFFICES ASSUME NEW i \in 1..(Len(c) + 1), NEW j \in 1..(Len(c) + 1), i <= j
               PROVE  e[i] <= e[j]
    BY <1>2 DEF Monotone
  <2>1. CASE j = Len(c) + 1
    <3>1. CASE i = j
      BY <1>2, <2>1, <3>1
    <3>2. CASE i # j
      <4>1. i \in 1..Len(c)
        BY <1>1, <2>1, <3>2
      <4> QED
        BY <1>2, <1>4, <2>1, <4>1
    <3> QED
      BY <3>1, <3>2
  <2>2. CASE j # Len(c) + 1
    <3>1. i \in 1..Len(c) /\ j \in 1..Len(c)
      <4>1. Len(c) \in Nat
        BY <1>1
      <4> QED
        BY ONLY <2>2, <4>1, i \in 1..(Len(c) + 1), j \in 1..(Len(c) + 1), i <= j
    <3> QED
      BY <1>2, <3>1, RecordFacts
  <2> QED
    BY <2>1, <2>2
<1>6. Spaced(e)
  <2> SUFFICES ASSUME NEW i \in 1..(Len(c) + 1), i + Limit \in 1..(Len(c) + 1)
               PROVE  e[i + Limit] - e[i] > Window
    BY <1>2 DEF Spaced
  <2>1. Limit \in Nat /\ Limit >= 1
    BY <1>1, MembersAssumption
  <2>2. i \in 1..Len(c)
    BY <1>1, <2>1
  <2>3. CASE i + Limit \in 1..Len(c)
    BY <1>2, <2>2, <2>3, RecordFacts
  <2>4. CASE i + Limit = Len(c) + 1
    <3>1. i \in 1..(Len(c) - Len(h))
      BY <1>1, <2>1, <2>2, <2>4
    <3>2. c[i] \notin Current(now) /\ c[i] \in Nat
      BY <1>1, <1>4, <2>2, <3>1
    <3>3. now - c[i] > Window
      BY <3>2, MembersAssumption DEF Current
    <3> QED
      BY <1>2, <2>2, <2>4, <3>3
  <2> QED
    <3>1. i + Limit \in 1..Len(c) \/ i + Limit = Len(c) + 1
      <4>1. Len(c) \in Nat
        BY <1>1
      <4> QED
        BY ONLY <2>1, <4>1, i \in 1..(Len(c) + 1), i + Limit \in 1..(Len(c) + 1)
    <3> QED
      BY <2>3, <2>4, <3>1
<1>7. \A i \in DOMAIN e : e[i] <= now
  <2> SUFFICES ASSUME NEW i \in 1..(Len(c) + 1) PROVE e[i] <= now
    BY <1>2
  <2>1. i = Len(c) + 1 \/ i \in 1..Len(c)
    BY <1>1
  <2> QED
    BY <1>2, <1>4, <2>1
<1>8. Suffix(k, e, Current(now), Len(e))
  <2>1. Len(k) \in 0..Len(e) /\ Len(e) - Len(k) = Len(c) - Len(h)
    BY <1>1, <1>2, <1>3
  <2>2. ASSUME NEW j \in 1..Len(k) PROVE k[j] = e[(Len(e) - Len(k)) + j]
    <3>1. CASE j = Len(h) + 1
      <4>1. (Len(e) - Len(k)) + j = Len(c) + 1
        <5>1. Len(c) \in Nat /\ Len(h) \in Nat /\ Len(e) - Len(k) = Len(c) - Len(h)
          BY <1>1, <2>1
        <5> QED
          BY ONLY <3>1, <5>1
      <4> QED
        BY <1>2, <1>3, <3>1, <4>1
    <3>2. CASE j # Len(h) + 1
      <4>1. j \in 1..Len(h) /\ (Len(c) - Len(h)) + j \in 1..Len(c)
        BY <1>1, <1>3, <3>2
      <4> QED
        BY <1>1, <1>2, <1>3, <2>1, <4>1
    <3> QED
      BY <3>1, <3>2
  <2>3. ASSUME NEW p \in 1..(Len(e) - Len(k)) PROVE e[p] \notin Current(now)
    <3>1. p \in 1..Len(c) /\ p \in 1..(Len(c) - Len(h))
      BY <1>1, <2>1
    <3> QED
      BY <1>1, <1>2, <3>1
  <2> QED
    BY <2>1, <2>2, <2>3 DEF Suffix
<1> QED
  BY <1>2, <1>3, <1>5, <1>6, <1>7, <1>8 DEF Record, Remembers, e, k

-----------------------------------------------------------------------------
(* The steps.                                                                *)

\* A request that saves nothing, while histories and changes stay.
LEMMA YearQuiet ==
  ASSUME YearInv, FramesOK, NEW w \in Workers, NEW g, Goes(w, g),
         g.pc \notin {"save", "write"}, UNCHANGED <<now, file, changes>>,
         overlapped => overlapped'
  PROVE  YearInv'
<1>1. frame'[w] = g /\ \A v \in Workers \ {w} : frame'[v] = frame[v]
  BY OthersStay
<1>2. \A v \in Workers : Saving(v)' => v # w /\ frame'[v] = frame[v] /\ Saving(v)
  BY <1>1 DEF Saving
<1>3. \A v \in Workers \ {w}, m \in Members : Promised(v, m)' = Promised(v, m)
  BY <1>1 DEF Promised
<1> QED
  BY <1>1, <1>2, <1>3 DEF YearInv

\* Requests begin, and get a key.
LEMMA YearElsewhere ==
  ASSUME YearInv, FramesOK, NEW w \in Workers,
         \/ Login(w) \/ Ask(w, "profile") \/ Ask(w, "ddns")
         \/ ReadSecret(w) \/ LockSecret(w) \/ Mint(w)
  PROVE  YearInv'
<1> DEFINE f == frame[w]
<1>1. UNCHANGED <<now, file, changes, overlapped>>
  BY DEF Login, Ask, ReadSecret, LockSecret, Mint, fileVars
<1>2. ASSUME NEW g, Goes(w, g), g.pc \notin {"save", "write"}
      PROVE  YearInv'
  BY <1>1, <1>2, YearQuiet
<1>3. CASE Ends(w)
  BY <1>2, <1>3, IdleFields DEF Ends
<1>4. CASE \E op, m : Goes(w, [Idle EXCEPT !.pc = "secret", !.op = op, !.member = m])
  <2>1. PICK op, m : Goes(w, [Idle EXCEPT !.pc = "secret", !.op = op, !.member = m])
    BY <1>4
  <2> DEFINE g == [Idle EXCEPT !.pc = "secret", !.op = op, !.member = m]
  <2>2. g.pc = "secret" /\ Goes(w, g)
    BY <2>1, IdleFields DEF Fields, IsFun
  <2> HIDE DEF g
  <2> QED
    BY <1>2, <2>2
<1>5. CASE \E op, t : Goes(w, [Idle EXCEPT !.pc = "secret", !.op = op, !.token = t])
  <2>1. PICK op, t : Goes(w, [Idle EXCEPT !.pc = "secret", !.op = op, !.token = t])
    BY <1>5
  <2> DEFINE g == [Idle EXCEPT !.pc = "secret", !.op = op, !.token = t]
  <2>2. g.pc = "secret" /\ Goes(w, g)
    BY <2>1, IdleFields DEF Fields, IsFun
  <2> HIDE DEF g
  <2> QED
    BY <1>2, <2>2
<1>6. CASE \E op, t, raw : Goes(w, [Idle EXCEPT !.pc = "secret", !.op = op, !.token = t, !.raw = raw])
  <2>1. PICK op, t, raw : Goes(w, [Idle EXCEPT !.pc = "secret", !.op = op, !.token = t, !.raw = raw])
    BY <1>6
  <2> DEFINE g == [Idle EXCEPT !.pc = "secret", !.op = op, !.token = t, !.raw = raw]
  <2>2. g.pc = "secret" /\ Goes(w, g)
    BY <2>1, IdleFields DEF Fields, IsFun
  <2> HIDE DEF g
  <2> QED
    BY <1>2, <2>2
<1>7. CASE \E m : Goes(w, [f EXCEPT !.pc = "load", !.member = m])
  <2>1. PICK m : Goes(w, [f EXCEPT !.pc = "load", !.member = m])
    BY <1>7
  <2> DEFINE g == [f EXCEPT !.pc = "load", !.member = m]
  <2>2. g.pc = "load" /\ Goes(w, g)
    BY <2>1 DEF FramesOK, Fields, IsFun
  <2> HIDE DEF g
  <2> QED
    BY <1>2, <2>2
<1>8. ASSUME NEW pc \in {"lock", "mint"}, Goes(w, [f EXCEPT !.pc = pc])
      PROVE  YearInv'
  <2> DEFINE g == [f EXCEPT !.pc = pc]
  <2>1. g.pc = pc /\ Goes(w, g)
    BY <1>8 DEF FramesOK, Fields, IsFun
  <2> HIDE DEF g
  <2> QED
    BY <1>2, <2>1
<1>9. ASSUME NEW key, WithKey(w, key) PROVE YearInv'
  BY <1>3, <1>4, <1>7, <1>9 DEF WithKey
<1>10. CASE Login(w)
  BY <1>4, <1>10 DEF Login
<1>11. CASE Ask(w, "profile") \/ Ask(w, "ddns")
  BY <1>5, <1>6, <1>11 DEF Ask
<1>12. CASE ReadSecret(w) \/ LockSecret(w) \/ Mint(w)
  BY <1>8, <1>9, <1>12 DEF ReadSecret, LockSecret, Mint
<1> QED
  BY <1>10, <1>11, <1>12

\* The accounts are loaded, and edited if the limit admits it.
LEMMA YearLoad ==
  ASSUME YearInv, NamesInv, NEW w \in Workers, LoadAccounts(w)
  PROVE  YearInv'
<1> DEFINE f == frame[w]
           m == f.member
           accounts == _load_member_accounts
           history == Recent(accounts[m].history)
           new == IF f.raw = None THEN accounts[m].prefix
                                  ELSE _member_prefix_sanitize(f.raw)
           renames == new # accounts[m].prefix
           hist == IF renames THEN Append(history, now) ELSE history
           copy == [accounts EXCEPT ![m] = [prefix |-> new, history |-> hist]]
           g == [f EXCEPT !.pc = "save", !.at = now, !.changed = renames, !.copy = copy]
<1>1. UNCHANGED <<now, file, changes>> /\ (overlapped => overlapped')
      /\ (~overlapped' => \A v \in Workers \ {w} : ~Saving(v))
  BY DEF LoadAccounts, Saving
<1>2. \/ Ends(w)
      \/ /\ m \in DOMAIN accounts
         /\ renames => ~(Len(history) >= Limit)
         /\ Goes(w, g)
  BY DEF LoadAccounts
<1>3. FramesOK
  BY DEF NamesInv
<1>4. CASE Ends(w)
  BY <1>1, <1>3, <1>4, IdleFields, YearQuiet DEF Ends
<1>5. CASE /\ m \in DOMAIN accounts
           /\ renames => ~(Len(history) >= Limit)
           /\ Goes(w, g)
  <2> SUFFICES ASSUME ~overlapped' PROVE YearInv'
    BY <1>1 DEF YearInv
  <2>1. /\ now \in Nat /\ changes \in [Members -> Seq(Nat)]
        /\ \A o \in Members : Record(changes[o], now)
        /\ \A o \in DOMAIN file : o \in Members /\ Remembers(file[o].history, changes[o], now)
    BY <1>1 DEF YearInv
  <2>2. accounts = file /\ IsFun(file)
    <3>1. DOMAIN NoAccounts = {}
      BY DEF NoAccounts
    <3> QED
      BY <1>5, <3>1 DEF _load_member_accounts, NamesInv, Checked
  <2>3. /\ m \in Members /\ Record(changes[m], now) /\ Remembers(history, changes[m], now)
    BY <1>5, <2>1, <2>2, RecentRemembers
  <2> HIDE DEF history, new, accounts
  <2>4. Len(history) \in Nat /\ Limit \in Nat
    BY <2>3, MembersAssumption DEF Remembers
  <2>5. /\ DOMAIN copy = DOMAIN file /\ copy[m].history = hist
        /\ \A o \in DOMAIN file \ {m} : copy[o] = file[o]
    BY <1>5, <2>2 DEF IsFun
  <2>6. /\ g.pc = "save" /\ g.member = m /\ g.at = now /\ g.changed = renames /\ g.copy = copy
    BY <1>3 DEF FramesOK, Fields, IsFun
  <2> DEFINE c == IF renames THEN Append(changes[m], now) ELSE changes[m]
  <2>7. Record(c, now) /\ Remembers(hist, c, now)
    <3>1. CASE renames
      <4>1. Len(history) < Limit
        BY <1>5, <2>4, <3>1
      <4> QED
        BY <2>1, <2>3, <3>1, <4>1, ChangeRecorded
    <3>2. CASE ~renames
      BY <2>3, <3>2
    <3> QED
      BY <3>1, <3>2
  <2> HIDE DEF renames, hist, copy, g, m
  <2>8. frame'[w] = g /\ \A v \in Workers \ {w} : frame'[v] = frame[v]
    BY <1>3, <1>5, OthersStay
  <2>9. \A o \in Members : Promised(w, o)' = IF o = m THEN c ELSE changes[o]
    BY <1>1, <2>6, <2>8 DEF Promised
  <2> HIDE DEF c
  <2>10. \A v \in Workers : Saving(v)' => v = w
    BY <1>1, <2>8 DEF Saving
  <2>11. \A o \in Members : Record(Promised(w, o)', now)
    BY <2>1, <2>7, <2>9
  <2>12. \A o \in DOMAIN frame'[w].copy :
            o \in Members /\ Remembers(frame'[w].copy[o].history, Promised(w, o)', now)
    <3> SUFFICES ASSUME NEW o \in DOMAIN file
                 PROVE  o \in Members /\ Remembers(copy[o].history, Promised(w, o)', now)
      BY <2>5, <2>6, <2>8
    <3>1. o \in Members
      BY <2>1
    <3>2. CASE o = m
      BY <2>3, <2>5, <2>7, <2>9, <3>2
    <3>3. CASE o # m
      BY <2>1, <2>5, <2>9, <3>1, <3>3
    <3> QED
      BY <3>1, <3>2, <3>3
  <2>14. /\ \A o \in Members : Record(changes'[o], now')
         /\ \A o \in DOMAIN file' : o \in Members /\ Remembers(file'[o].history, changes'[o], now')
    BY <1>1, <2>1
  <2>15. /\ \A o \in Members : Record(Promised(w, o), now)'
         /\ \A o \in DOMAIN frame'[w].copy :
              o \in Members /\ Remembers(frame[w].copy[o].history, Promised(w, o), now)'
    BY <1>1, <2>11, <2>12
  <2> QED
    BY <1>1, <2>1, <2>10, <2>14, <2>15 DEF YearInv
<1> QED
  BY <1>2, <1>4, <1>5

\* The file is opened for writing, or cannot be.
LEMMA YearTruncate ==
  ASSUME YearInv, FramesOK, NEW w \in Workers, TruncateAccounts(w)
  PROVE  YearInv'
<1> DEFINE g == [frame[w] EXCEPT !.pc = "write"]
<1>1. UNCHANGED <<now, file, changes, overlapped>> /\ Saving(w) /\ (Goes(w, g) \/ Ends(w))
  BY DEF TruncateAccounts, Saving
<1>2. CASE Ends(w)
  BY <1>1, <1>2, IdleFields, YearQuiet DEF Ends
<1>3. CASE Goes(w, g)
  <2>1. /\ g.pc = "write" /\ g.copy = frame[w].copy /\ g.changed = frame[w].changed
        /\ g.member = frame[w].member /\ g.at = frame[w].at
    BY DEF FramesOK, Fields, IsFun
  <2> HIDE DEF g
  <2>2. frame'[w] = g /\ \A v \in Workers \ {w} : frame'[v] = frame[v]
    BY <1>3, OthersStay
  <2>3. \A v \in Workers : /\ Saving(v)' = Saving(v) /\ frame'[v].copy = frame[v].copy
                           /\ \A m : Promised(v, m)' = Promised(v, m)
    BY <1>1, <2>1, <2>2 DEF Saving, Promised
  <2>5. \A v \in Workers : Saving(v)' <=> Saving(v)
    BY <2>3
  <2> QED
    BY <1>1, <2>3, <2>5 DEF YearInv
<1> QED
  BY <1>1, <1>2, <1>3

\* The accounts are written, and the answer promises what they hold.
LEMMA YearWrite ==
  ASSUME YearInv, FramesOK, NEW w \in Workers, WriteAccounts(w)
  PROVE  YearInv'
<1>1. /\ UNCHANGED <<now, overlapped>> /\ Saving(w) /\ Ends(w) /\ file' = frame[w].copy
      /\ changes' = IF frame[w].changed
                    THEN [changes EXCEPT ![frame[w].member] = Append(@, frame[w].at)]
                    ELSE changes
  BY DEF WriteAccounts, Saving
<1> SUFFICES ASSUME ~overlapped PROVE YearInv'
  BY <1>1 DEF YearInv
<1>2. /\ now \in Nat /\ changes \in [Members -> Seq(Nat)]
      /\ \A v \in Workers : Saving(v) => v = w
      /\ \A m \in Members : Record(Promised(w, m), now)
      /\ \A m \in DOMAIN frame[w].copy :
                   m \in Members /\ Remembers(frame[w].copy[m].history, Promised(w, m), now)
  BY <1>1 DEF YearInv
<1>3. /\ \A m \in Members : changes'[m] = Promised(w, m)
      /\ changes' \in [Members -> Seq(Nat)]
  <2>1. \A m \in Members : Promised(w, m) \in Seq(Nat)
    BY <1>2 DEF Record
  <2>2. changes' = [m \in Members |-> Promised(w, m)]
    BY <1>1, <1>2 DEF Promised
  <2> HIDE DEF Promised
  <2> QED
    BY <2>1, <2>2
<1>4. \A v \in Workers : ~Saving(v)'
  <2>1. frame'[w] = Idle /\ \A v \in Workers \ {w} : frame'[v] = frame[v]
    BY <1>1, OthersStay DEF Ends
  <2> QED
    BY <1>2, <2>1, IdleFields DEF Saving
<1>6. /\ \A m \in Members : Record(changes[m], now)'
      /\ \A m \in DOMAIN file' : m \in Members /\ Remembers(file[m].history, changes[m], now)'
  BY <1>1, <1>2, <1>3
<1> QED
  BY <1>1, <1>2, <1>3, <1>4, <1>6 DEF YearInv

\* The process ends.
LEMMA YearKill ==
  ASSUME YearInv, Kill
  PROVE  YearInv'
<1>1. UNCHANGED <<now, file, changes, overlapped>>
  BY DEF Kill, fileVars
<1>2. \A v \in Workers : ~Saving(v)'
  BY IdleFields DEF Kill, Saving
<1> QED
  BY <1>1, <1>2 DEF YearInv

\* Time goes by.
LEMMA YearTick ==
  ASSUME YearInv, Tick
  PROVE  YearInv'
<1>1. /\ UNCHANGED <<file, changes, overlapped, frame>>
      /\ now \in Nat /\ now' \in Nat /\ now <= now'
  BY DEF Tick, fileVars, YearInv
<1>2. ASSUME NEW c, Record(c, now) PROVE Record(c, now')
  BY <1>1, <1>2, LaterRecord
<1>3. ASSUME NEW h, NEW c, Record(c, now), Remembers(h, c, now) PROVE Remembers(h, c, now')
  BY <1>1, <1>3, LaterRemembers DEF Record
<1>4. \A v \in Workers : /\ Saving(v)' <=> Saving(v)
                         /\ \A m \in Members : Promised(v, m)' = Promised(v, m)
  BY <1>1 DEF Saving, Promised
<1> QED
  BY <1>1, <1>2, <1>3, <1>4 DEF YearInv

\* The first state, and every step.
LEMMA YearInit == Init => YearInv
<1> SUFFICES ASSUME Init PROVE YearInv
  OBVIOUS
<1>1. \A w \in Workers : ~Saving(w)
  BY IdleFields DEF Init, Saving
<1>2. << >> \in Seq(Nat) /\ DOMAIN << >> = {} /\ Len(<< >>) = 0
  OBVIOUS
<1>3. Record(<< >>, now) /\ Remembers(<< >>, << >>, now)
  BY <1>2 DEF Record, Monotone, Spaced, Remembers, Suffix
<1>4. changes \in [Members -> Seq(Nat)] /\ \A m \in Members : changes[m] = << >>
  BY <1>2 DEF Init
<1>5. \A m \in DOMAIN file : m \in Members /\ file[m].history = << >>
  BY MembersAssumption DEF Init
<1> QED
  BY <1>1, <1>3, <1>4, <1>5 DEF Init, YearInv

LEMMA YearStep == YearInv /\ NamesInv /\ [Next]_vars => YearInv'
<1> SUFFICES ASSUME YearInv, NamesInv, [Next]_vars PROVE YearInv'
  OBVIOUS
<1>1. FramesOK
  BY DEF NamesInv
<1>2. ASSUME NEW w \in Workers, Request(w) PROVE YearInv'
  BY <1>1, <1>2, YearElsewhere, YearLoad, YearTruncate, YearWrite DEF Request
<1>3. CASE UNCHANGED vars
  <2>1. UNCHANGED <<now, file, changes, overlapped, frame>>
    BY <1>3 DEF vars
  <2>3. \A v \in Workers : /\ Saving(v)' <=> Saving(v)
                           /\ \A m \in Members : Promised(v, m)' = Promised(v, m)
    BY <2>1 DEF Saving, Promised
  <2> QED
    BY <2>1, <2>3 DEF YearInv
<1> QED
  BY <1>2, <1>3, YearKill, YearTick DEF Next

\* A member's name changes at most MEMBER_PREFIX_CHANGE_LIMIT_PER_YEAR times in
\* any year (service.py:284), as long as no two requests were between load and
\* save together: for any limit and any number of changes, although the history
\* forgets what is older than a year and restarts may come at any time.
THEOREM YearlyLimitAlways == Spec => []YearlyLimit
<1>1. YearInv => YearlyLimit
  BY DEF YearInv, Record, Spaced, YearlyLimit
<1> QED
  BY NamesInit, NamesStep, YearInit, YearStep, <1>1, PTL DEF Spec
=============================================================================
