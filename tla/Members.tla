------------------------------ MODULE Members ------------------------------
(* Member sessions and DDNS names (fcc/modules/member, app.py 8034-8293).    *)
(* Passwords and profiles live on a remote service; this process keeps a     *)
(* secret that signs its session tokens, made when it is first needed, and   *)
(* the file of accounts, in which each member reserves a name.  Requests are *)
(* threads: one may run between any two file operations of another.          *)
EXTENDS Filter, Integers, FiniteSets

CONSTANTS
    Workers,     \* request threads
    Members,     \* members known to the remote service
    Registered,  \* those of them with an account in the local file
    Prefixes,    \* names after clean-up
    Raws,        \* names as they are typed
    Cleaned,     \* what the clean-up makes of a typed name, or None: too short or long
    None,
    Limit,       \* MEMBER_PREFIX_CHANGE_LIMIT_PER_YEAR
    Window,      \* the year of that limit
    TTL,         \* MEMBER_SESSION_TTL_SEC
    MaxTime,     \* bound: the clock
    MaxRequests  \* bound: requests

ASSUME MembersAssumption ==
    /\ Registered \subseteq Members
    /\ Cleaned \in [Raws -> Prefixes \cup {None}]
    /\ None \notin Prefixes \cup Members \cup Raws \cup Workers
    /\ Limit \in Nat /\ Window \in Nat /\ TTL \in Nat

VARIABLES
    now,        \* the clock
    writable,   \* can files be written in the directory of the program
    secret,     \* .member_session_secret: a key, or 0 for none
    minted,     \* keys made so far
    lock,       \* holder of _member_lock, or None
    tokens,     \* session tokens that were given out
    file,       \* member_accounts.json: a function from members to accounts
    state,      \* "whole", "empty" after open(.., "w"), or "garbled" by two writers
    frame,      \* the requests under way
    made,       \* requests begun
    overlapped, \* two requests were between load and save at the same time
    changes     \* per member, when its name was changed, as the answers said

sessVars == <<writable, secret, minted, lock, tokens>>
fileVars == <<file, state, overlapped, changes>>
vars     == <<now, writable, secret, minted, lock, tokens, file, state, frame,
              made, overlapped, changes>>

Account == [prefix : Prefixes \cup {None}, history : Seq(Nat)]
NoAccounts == [m \in {} |-> [prefix |-> None, history |-> << >>]]
Idle == [pc |-> "idle", op |-> "none", member |-> None, token |-> None,
         raw |-> None, copy |-> NoAccounts, at |-> 0, changed |-> FALSE]

Init ==
    /\ now = 0
    /\ writable \in BOOLEAN
    /\ secret = 0 /\ minted = 0 /\ lock = None /\ tokens = {}
    /\ file = [m \in Registered |-> [prefix |-> None, history |-> << >>]]
    /\ state = "whole"
    /\ frame = [w \in Workers |-> Idle]
    /\ made = 0
    /\ overlapped = FALSE
    /\ changes = [m \in Members |-> << >>]

Goes(w, f) == frame' = [frame EXCEPT ![w] = f]
Ends(w)    == Goes(w, Idle)

-----------------------------------------------------------------------------
(* login_post: the remote service has confirmed the member; a refusal or an  *)
(* unreachable service (_member_remote_json answers 502) ends the request.   *)
Login(w) ==
    /\ frame[w].pc = "idle" /\ made < MaxRequests
    /\ made' = made + 1
    /\ \E m \in Members :
         Goes(w, [Idle EXCEPT !.pc = "secret", !.op = "login", !.member = m])
    /\ UNCHANGED <<now, sessVars, fileVars>>

\* Requests that show a token: profile_update_post and ddns_config_post.
Ask(w, op) ==
    /\ frame[w].pc = "idle" /\ made < MaxRequests
    /\ made' = made + 1
    /\ \E t \in tokens :
         \/ op = "profile" /\ Goes(w, [Idle EXCEPT !.pc = "secret", !.op = op, !.token = t])
         \/ op = "ddns" /\ \E raw \in Raws \cup {None} :
              Goes(w, [Idle EXCEPT !.pc = "secret", !.op = op, !.token = t, !.raw = raw])
    /\ UNCHANGED <<now, sessVars, fileVars>>

(* What a request does with the key it was given: sign a token, or check one *)
(* (_member_issue_session, _member_get_session).                             *)
_member_issue_session(m, key) == [member |-> m, key |-> key, exp |-> now + TTL]
_member_get_session(t, key)   == t.key = key /\ t.exp > now

WithKey(w, key) ==
    LET f == frame[w]
    IN  \/ /\ f.op = "login"
           /\ tokens' = tokens \cup {_member_issue_session(f.member, key)}
           /\ Ends(w)
        \/ /\ f.op # "login" /\ ~_member_get_session(f.token, key)
           /\ Ends(w) /\ UNCHANGED tokens
        \/ /\ f.op = "profile" /\ _member_get_session(f.token, key)
           /\ \/ Goes(w, [Idle EXCEPT !.pc = "secret", !.op = "login", !.member = f.token.member])
              \/ Ends(w)                              \* refused by the remote service
           /\ UNCHANGED tokens
        \/ /\ f.op = "ddns" /\ _member_get_session(f.token, key)
           /\ Goes(w, [f EXCEPT !.pc = "load", !.member = f.token.member])
           /\ UNCHANGED tokens

(* _member_session_secret: a read without the lock; if there is nothing, the *)
(* lock, a second read, and a new key that is written if it can be.          *)
ReadSecret(w) ==
    /\ frame[w].pc = "secret"
    /\ IF secret # 0 THEN WithKey(w, secret)
       ELSE Goes(w, [frame[w] EXCEPT !.pc = "lock"]) /\ UNCHANGED tokens
    /\ UNCHANGED <<now, writable, secret, minted, lock, fileVars, made>>

\* Mutant: without the second read.
LockSecretOnce(w) ==
    /\ frame[w].pc = "lock" /\ lock = None
    /\ lock' = w
    /\ Goes(w, [frame[w] EXCEPT !.pc = "mint"])
    /\ UNCHANGED <<now, writable, secret, minted, tokens, fileVars, made>>

LockSecret(w) ==
    /\ frame[w].pc = "lock" /\ lock = None
    /\ IF secret # 0 THEN WithKey(w, secret) /\ UNCHANGED lock
       ELSE /\ lock' = w
            /\ Goes(w, [frame[w] EXCEPT !.pc = "mint"])
            /\ UNCHANGED tokens
    /\ UNCHANGED <<now, writable, secret, minted, fileVars, made>>

Mint(w) ==
    /\ frame[w].pc = "mint"
    /\ minted' = minted + 1
    /\ secret' = IF writable THEN minted' ELSE secret
    /\ lock' = None
    /\ WithKey(w, minted')
    /\ UNCHANGED <<now, writable, fileVars, made>>

-----------------------------------------------------------------------------
_member_prefix_sanitize(raw) == Cleaned[raw]
\* Mutant: only members without a name of their own are asked.
InUseByOthers(accounts, p, m) ==
    \E o \in DOMAIN accounts \ {m} : accounts[o].prefix = p /\ accounts[m].prefix # None
_member_prefix_in_use(accounts, p, m) ==
    \E o \in DOMAIN accounts \ {m} : accounts[o].prefix = p
\* A file that cannot be parsed is a file without accounts.
_load_member_accounts == IF state = "whole" THEN file ELSE NoAccounts
\* Mutant: a change one year ago does not count any more.
RecentHalf(history) == Filter(history, {t \in Nat : t > now - Window})
Recent(history)     == Filter(history, {t \in Nat : t >= now - Window})

(* ddns_config_post, from the load to the edited list.                       *)
LoadAccounts(w) ==
    /\ frame[w].pc = "load"
    /\ LET f        == frame[w]
           m        == f.member
           accounts == _load_member_accounts
           history  == Recent(accounts[m].history)
           new      == IF f.raw = None THEN accounts[m].prefix
                                       ELSE _member_prefix_sanitize(f.raw)
           renames  == new # accounts[m].prefix
           refused  == \/ m \notin DOMAIN accounts
                       \/ f.raw # None /\ new = None
                       \/ f.raw # None /\ _member_prefix_in_use(accounts, new, m)
                       \/ renames /\ Len(history) >= Limit
       IN  IF refused THEN Ends(w)
           ELSE Goes(w, [f EXCEPT
                   !.pc = "save", !.at = now, !.changed = renames,
                   !.copy = [accounts EXCEPT ![m] =
                     [prefix  |-> new,
                      history |-> IF renames THEN Append(history, now) ELSE history]]])
    /\ overlapped' = (overlapped \/ \E v \in Workers \ {w} : frame[v].pc \in {"save", "write"})
    /\ UNCHANGED <<now, sessVars, file, state, made, changes>>

(* _save_member_accounts: open for writing truncates; the text is written at *)
(* the beginning, and the tail of what another request wrote meanwhile stays *)
(* behind a shorter text.                                                    *)
TruncateAccounts(w) ==
    /\ frame[w].pc = "save"
    /\ \/ /\ writable /\ state' = "empty"
          /\ Goes(w, [frame[w] EXCEPT !.pc = "write"])
       \/ ~writable /\ Ends(w) /\ UNCHANGED state
    /\ UNCHANGED <<now, sessVars, file, overlapped, changes, made>>

WriteAccounts(w) ==
    /\ frame[w].pc = "write"
    /\ file' = frame[w].copy
    /\ \/ state' = "whole"
       \/ state # "empty" /\ file # file' /\ state' = "garbled"
    /\ changes' = IF frame[w].changed
                  THEN [changes EXCEPT ![frame[w].member] = Append(@, frame[w].at)]
                  ELSE changes
    /\ Ends(w)
    /\ UNCHANGED <<now, sessVars, overlapped, made>>

\* The process ends and comes back; clients keep their tokens.
Kill ==
    /\ frame' = [w \in Workers |-> Idle]
    /\ lock' = None
    /\ UNCHANGED <<now, writable, secret, minted, tokens, fileVars, made>>

Tick ==
    /\ now < MaxTime
    /\ now' = now + 1
    /\ UNCHANGED <<sessVars, fileVars, frame, made>>

Request(w) ==
    \/ Login(w) \/ Ask(w, "profile") \/ Ask(w, "ddns")
    \/ ReadSecret(w) \/ LockSecret(w) \/ Mint(w)
    \/ LoadAccounts(w) \/ TruncateAccounts(w) \/ WriteAccounts(w)

Next == (\E w \in Workers : Request(w)) \/ Kill \/ Tick
Spec == Init /\ [][Next]_vars

-----------------------------------------------------------------------------
(* Properties *)

AccountsOf(f) ==
    /\ DOMAIN f \subseteq Members
    /\ \A m \in DOMAIN f : f[m] \in Account

\* The state has the shape that the code gives it.
TypeOK ==
    /\ now \in 0..MaxTime /\ writable \in BOOLEAN
    /\ minted \in Nat /\ secret \in 0..minted
    /\ lock \in Workers \cup {None}
    /\ tokens \subseteq [member : Members, key : 1..minted, exp : Nat]
    /\ AccountsOf(file) /\ state \in {"whole", "empty", "garbled"}
    /\ made \in 0..MaxRequests /\ overlapped \in BOOLEAN
    /\ changes \in [Members -> Seq(Nat)]
    /\ \A w \in Workers :
         LET f == frame[w]
         IN  /\ f.pc \in {"idle", "secret", "lock", "mint", "load", "save", "write"}
             /\ f.op \in {"none", "login", "profile", "ddns"}
             /\ f.op = "login" \/ f.pc \in {"load", "save", "write"} => f.member \in Members
             /\ f.op \in {"profile", "ddns"} => f.token \in tokens
             /\ f.raw \in Raws \cup {None}
             /\ AccountsOf(f.copy) /\ f.at \in Nat /\ f.changed \in BOOLEAN

Unique(accounts) ==
    \A m, o \in DOMAIN accounts :
      m # o /\ accounts[m].prefix # None => accounts[m].prefix # accounts[o].prefix

(* No name belongs to two members (service.py:276-281), although the check   *)
(* and the save are not under a lock: requests that overlap, torn files and  *)
(* restarts may lose a change, but every copy that is ever saved was checked *)
(* as a whole.                                                               *)
NamesUnique == Unique(file)

(* Every token that was given out is accepted until it expires, by every     *)
(* request and after every restart, provided the secret can be stored: two   *)
(* first requests at the same time do not sign with different keys           *)
(* (app.py:8076-8101).                                                       *)
SessionsHold == writable => \A t \in tokens : _member_get_session(t, secret) <=> t.exp > now

(* "Domain prefix change limit reached (2/year)" (service.py:284): as long   *)
(* as no two requests were between load and save together, a member's name   *)
(* changes at most Limit times in any Window, restarts and half-written      *)
(* files included.                                                           *)
YearlyLimit ==
    ~overlapped => \A m \in Members : \A i \in DOMAIN changes[m] :
      i + Limit \in DOMAIN changes[m] => changes[m][i + Limit] - changes[m][i] > Window
=============================================================================
