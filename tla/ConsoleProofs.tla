--------------------------- MODULE ConsoleProofs ---------------------------
(* The proofs about the console's own process: the config file that its      *)
(* requests share (AppConfig), and its upgrade and restart (Upgrade).        *)
EXTENDS AppConfig, Upgrade, TLAPS

-----------------------------------------------------------------------------
(***************************************************************************)
(* What AppConfig.tla promises of the shared config file, for any number   *)
(* of requests in flight, addresses, ranges and any length of time.        *)
(***************************************************************************)

RawConfig == [access : RawPolicy, pools : SUBSET Nets, key : BOOLEAN]

\* A policy from a file edited by hand becomes a proper one.
LEMMA NormalPolicy ==
  ASSUME NEW raw \in RawPolicy
  PROVE  /\ normalize_policy(raw) \in Policy
         /\ normalize_policy(raw).allow = raw.allow
BY DEF RawPolicy, Policy, normalize_policy, Modes

\* Normalising a proper policy changes nothing.
LEMMA NormalAgain ==
  ASSUME NEW policy \in Policy
  PROVE  /\ policy \in RawPolicy
         /\ normalize_policy(policy) = policy
BY DEF RawPolicy, Policy, normalize_policy, Modes

\* The same for the whole config: only the policy is put right.
LEMMA NormalConfig ==
  ASSUME NEW raw \in RawConfig
  PROVE  /\ normalize_app_config(raw) \in Config
         /\ normalize_app_config(raw).access = normalize_policy(raw.access)
         /\ normalize_app_config(raw).pools = raw.pools
         /\ normalize_app_config(raw).key = raw.key
<1>1. raw.access \in RawPolicy /\ raw.pools \in SUBSET Nets /\ raw.key \in BOOLEAN
  BY DEF RawConfig
<1>2. normalize_policy(raw.access) \in Policy
  BY <1>1, NormalPolicy
<1> QED
  BY <1>1, <1>2 DEF RawConfig, Config, normalize_app_config

\* A proper config can be written and is read back as it is.
LEMMA NormalConfigAgain ==
  ASSUME NEW c \in Config
  PROVE  c \in RawConfig /\ normalize_app_config(c) = c
<1>1. c.access \in Policy /\ c.pools \in SUBSET Nets /\ c.key \in BOOLEAN
  BY DEF Config
<1>2. c.access \in RawPolicy /\ normalize_policy(c.access) = c.access
  BY <1>1, NormalAgain
<1> QED
  BY <1>1, <1>2 DEF Config, RawConfig, normalize_app_config

\* The defaults are a proper config.
LEMMA DefaultConfig ==
  /\ default_app_config \in Config
  /\ default_app_config.access = default_policy
BY DEF default_app_config, Config, default_policy, Policy, Modes

\* So is whatever load_app_config returns.
LEMMA LoadedConfig == TypeOK => load_app_config \in Config
BY NormalConfig, DefaultConfig DEF TypeOK, RawConfig, load_app_config

\* A loaded config with the access policy changed by a request is one too,
\* and keeps the allowlist and the other sections.
LEMMA SetAccessConfig ==
  ASSUME TypeOK, NEW mode \in Modes, NEW until \in Nat
  PROVE  /\ SetAccess(mode, until) \in Config
         /\ SetAccess(mode, until).access.mode = mode
         /\ SetAccess(mode, until).access.until = until
         /\ SetAccess(mode, until).access.allow = load_app_config.access.allow
         /\ SetAccess(mode, until).pools = load_app_config.pools
         /\ SetAccess(mode, until).key = load_app_config.key
BY LoadedConfig DEF SetAccess, Config, Policy

-----------------------------------------------------------------------------
\* The initial values have their types, a hand-edited policy included.
LEMMA InitConfig == Init => TypeOK
<1> SUFFICES ASSUME Init PROVE TypeOK
  OBVIOUS
<1> USE ConfigAssumption DEF ConfigAssumption
<1>1. file \in RawConfig
  BY DefaultConfig DEF Init, RawConfig, RawPolicy, Config, Modes
<1>2. normalize_policy(file.access) \in Policy /\ file.access.allow \in SUBSET Outside
  BY <1>1, NormalPolicy DEF RawConfig, RawPolicy
<1>3. granted \in [until : SUBSET Nat, allow : SUBSET Outside]
  BY <1>2 DEF Init, Windows, Policy
<1> QED
  BY <1>1, <1>3, DefaultConfig DEF Init, TypeOK, RawConfig, Kinds

\* What every request that starts has in common.
LEMMA BeginType ==
  ASSUME TypeOK, NEW w \in Workers, NEW k \in Kinds, NEW c \in Config,
         NEW next \in {"fetch", "loaded"}, Begin(w, k, c, next)
  PROVE  /\ file' = file /\ state' = state /\ now' = now
         /\ pc' \in [Workers -> {"idle", "fetch", "loaded", "writing"}]
         /\ kind' \in [Workers -> Kinds]
         /\ copy' \in [Workers -> Config]
         /\ made' \in 0..MaxRequests
         /\ alone' \in [Workers -> BOOLEAN]
BY ConfigAssumption DEF ConfigAssumption, TypeOK, Begin

\* Every step keeps the types.
LEMMA NextConfig == TypeOK /\ [Next]_vars => TypeOK'
<1> SUFFICES ASSUME TypeOK, [Next]_vars PROVE TypeOK'
  OBVIOUS
<1> USE ConfigAssumption DEF ConfigAssumption
<1>1. load_app_config \in Config
  BY LoadedConfig
<1>2. now \in Nat
  BY DEF TypeOK
<1>3. ASSUME NEW w \in Workers, OpenPublic(w) PROVE TypeOK'
  <2>1. PICK d \in 1..MaxDuration :
          /\ Begin(w, "open", SetAccess("public", now + d), "loaded")
          /\ granted' = [granted EXCEPT !.until = @ \union {now + d}]
          /\ kept' = "no"
    BY <1>3 DEF OpenPublic
  <2>2. now + d \in Nat
    BY <1>2
  <2>3. SetAccess("public", now + d) \in Config
    BY <2>2, SetAccessConfig DEF Modes
  <2> QED
    BY <2>1, <2>2, <2>3, BeginType DEF TypeOK, Kinds
<1>4. ASSUME NEW w \in Workers, OpenPersistent(w) PROVE TypeOK'
  <2>1. SetAccess("public", 0) \in Config
    BY SetAccessConfig DEF Modes
  <2> QED
    BY <1>4, <2>1, BeginType DEF OpenPersistent, TypeOK, Kinds
<1>5. ASSUME NEW w \in Workers, ClosePublic(w) PROVE TypeOK'
  <2>1. SetAccess("lan_only", 0) \in Config
    BY SetAccessConfig DEF Modes
  <2> QED
    BY <1>5, <2>1, BeginType DEF ClosePublic, TypeOK, Kinds
<1>6. ASSUME NEW w \in Workers, SaveSettings(w) PROVE TypeOK'
  <2>1. PICK p \in SUBSET Nets, t \in BOOLEAN :
          Begin(w, "settings", [load_app_config EXCEPT !.pools = p, !.key = t], "loaded")
    BY <1>6 DEF SaveSettings
  <2>2. [load_app_config EXCEPT !.pools = p, !.key = t] \in Config
    BY <1>1 DEF Config
  <2> QED
    BY <1>6, <2>1, <2>2, BeginType DEF SaveSettings, TypeOK, Kinds
<1>7. ASSUME NEW w \in Workers, UploadKey(w) PROVE TypeOK'
  <2>1. [load_app_config EXCEPT !.key = TRUE] \in Config
    BY <1>1 DEF Config
  <2> QED
    BY <1>7, <2>1, BeginType DEF UploadKey, TypeOK, Kinds
<1>8. ASSUME NEW w \in Workers, SyncBegin(w) PROVE TypeOK'
  BY <1>1, <1>8, BeginType DEF SyncBegin, TypeOK, Kinds
<1>9. ASSUME NEW w \in Workers, SyncFetched(w) PROVE TypeOK'
  <2>1. copy' \in [Workers -> Config]
    BY <1>9 DEF SyncFetched, TypeOK, Config
  <2> QED
    BY <1>9, <2>1 DEF SyncFetched, TypeOK, histVars
<1>10. ASSUME NEW w \in Workers, SyncFails(w) PROVE TypeOK'
  BY <1>10, DefaultConfig DEF SyncFails, Return, TypeOK, Kinds
<1>11. ASSUME NEW w \in Workers, Truncate(w) PROVE TypeOK'
  BY <1>11 DEF Truncate, TypeOK
<1>12. ASSUME NEW w \in Workers, Write(w) PROVE TypeOK'
  <2>1. copy[w] \in Config
    BY DEF TypeOK
  <2>2. file' \in RawConfig
    BY <1>12, <2>1, NormalConfigAgain DEF Write
  <2> QED
    BY <1>12, <2>2, DefaultConfig DEF Write, Return, TypeOK, RawConfig, Kinds
<1>13. CASE Kill
  BY <1>13, DefaultConfig DEF Kill, TypeOK, Kinds
<1>14. CASE Tick
  BY <1>14 DEF Tick, TypeOK, histVars
<1>15. CASE UNCHANGED vars
  BY <1>15 DEF vars, TypeOK
<1> QED
  BY <1>3, <1>4, <1>5, <1>6, <1>7, <1>8, <1>9, <1>10, <1>11, <1>12, <1>13,
     <1>14, <1>15 DEF Next, Request

\* The config file, the requests and the history always have their types.
THEOREM ConfigTypes == Spec => []TypeOK
BY InitConfig, NextConfig, PTL DEF Spec

-----------------------------------------------------------------------------
\* What a policy allows was decided by somebody.
Decided(policy) ==
  /\ policy.mode = "public" => policy.until \in granted.until
  /\ policy.allow \subseteq granted.allow

\* It is true of the file and of every copy that a request holds: a stale
\* copy that is written back was decided once.
AllDecided ==
  /\ Decided(normalize_policy(file.access))
  /\ \A w \in Workers : Decided(copy[w].access)

\* The default policy opens nothing.
LEMMA DefaultDecided == TypeOK => Decided(default_app_config.access)
BY DefaultConfig DEF Decided, default_policy

\* Whatever a request loads was decided, be the file whole or not.
LEMMA LoadedDecided == TypeOK /\ AllDecided => Decided(load_app_config.access)
BY DefaultDecided, NormalConfig DEF load_app_config, AllDecided, TypeOK, RawConfig

\* What was decided stays decided.
LEMMA DecidedStays ==
  ASSUME NEW policy, Decided(policy), granted.until \subseteq granted'.until,
         granted'.allow = granted.allow, NEW c, c = policy
  PROVE  /\ c.mode = "public" => c.until \in granted'.until
         /\ c.allow \subseteq granted'.allow
BY DEF Decided

\* A request that starts with a copy that was decided disturbs nothing.
LEMMA BeginDecided ==
  ASSUME TypeOK, AllDecided, NEW w \in Workers, NEW k \in Kinds,
         NEW c \in Config, NEW next, Begin(w, k, c, next),
         granted.until \subseteq granted'.until, granted'.allow = granted.allow,
         c.access.mode = "public" => c.access.until \in granted'.until,
         c.access.allow \subseteq granted'.allow
  PROVE  AllDecided'
<1>1. file' = file
  BY DEF Begin
<1>2. Decided(normalize_policy(file.access))'
  BY <1>1 DEF AllDecided, Decided, normalize_policy
<1>3. ASSUME NEW v \in Workers PROVE Decided(copy[v].access)'
  <2>1. CASE v = w
    <3>1. copy'[v] = c
      BY <2>1 DEF Begin, TypeOK
    <3> QED
      BY <3>1 DEF Decided
  <2>2. CASE v # w
    <3>1. copy'[v] = copy[v]
      BY <2>2 DEF Begin, TypeOK
    <3> QED
      BY <3>1 DEF AllDecided, Decided
  <2> QED
    BY <2>1, <2>2
<1> QED
  BY <1>2, <1>3 DEF AllDecided

\* A request that ends, or is killed, leaves nothing behind.
LEMMA ReturnDecided ==
  ASSUME TypeOK, AllDecided, granted' = granted,
         \A v \in Workers : copy'[v] = copy[v] \/ copy'[v] = default_app_config,
         \/ file' = file
         \/ \E w \in Workers : file' = normalize_app_config(copy[w])
  PROVE  AllDecided'
<1>1. ASSUME NEW v \in Workers PROVE Decided(copy[v].access)'
  BY DefaultDecided DEF AllDecided, Decided
<1>2. Decided(normalize_policy(file.access))'
  <2>1. CASE file' = file
    BY <2>1 DEF AllDecided, Decided, normalize_policy
  <2>2. ASSUME NEW w \in Workers, file' = normalize_app_config(copy[w])
        PROVE  Decided(normalize_policy(file.access))'
    <3>1. copy[w] \in Config /\ copy[w].access \in Policy
      BY DEF TypeOK, Config
    <3>2. file'.access = copy[w].access
      BY <2>2, <3>1, NormalConfigAgain
    <3>3. normalize_policy(file'.access) = copy[w].access
      BY <3>1, <3>2, NormalAgain
    <3>4. normalize_policy(file.access)' = copy[w].access
      BY <3>3 DEF normalize_policy
    <3> QED
      BY <3>4 DEF AllDecided, Decided
  <2> QED
    BY <2>1, <2>2
<1> QED
  BY <1>1, <1>2 DEF AllDecided

\* No step writes or loads a policy that nobody has decided.
LEMMA NextDecided == TypeOK /\ AllDecided /\ [Next]_vars => AllDecided'
<1> SUFFICES ASSUME TypeOK, AllDecided, [Next]_vars PROVE AllDecided'
  OBVIOUS
<1> USE ConfigAssumption DEF ConfigAssumption
<1> DEFINE loaded == load_app_config
<1>1. loaded \in Config /\ Decided(loaded.access)
  BY LoadedConfig, LoadedDecided
<1>2. granted \in [until : SUBSET Nat, allow : SUBSET Outside] /\ now \in Nat
  BY DEF TypeOK
<1>3. ASSUME NEW w \in Workers, OpenPublic(w) PROVE AllDecided'
  <2>1. PICK d \in 1..MaxDuration :
          /\ Begin(w, "open", SetAccess("public", now + d), "loaded")
          /\ granted' = [granted EXCEPT !.until = @ \union {now + d}]
    BY <1>3 DEF OpenPublic
  <2>2. now + d \in Nat
    BY <1>2
  <2>3. /\ granted.until \subseteq granted'.until
        /\ now + d \in granted'.until
        /\ granted'.allow = granted.allow
    BY <1>2, <2>1
  <2>4. /\ SetAccess("public", now + d) \in Config
        /\ SetAccess("public", now + d).access.until = now + d
        /\ SetAccess("public", now + d).access.allow = loaded.access.allow
    BY <2>2, SetAccessConfig DEF Modes
  <2> QED
    BY <1>1, <2>1, <2>3, <2>4, BeginDecided DEF Decided, Kinds
<1>4. ASSUME NEW w \in Workers, OpenPersistent(w) PROVE AllDecided'
  <2>1. /\ granted.until \subseteq granted'.until
        /\ 0 \in granted'.until
        /\ granted'.allow = granted.allow
    BY <1>2, <1>4 DEF OpenPersistent
  <2>2. /\ SetAccess("public", 0) \in Config
        /\ SetAccess("public", 0).access.until = 0
        /\ SetAccess("public", 0).access.allow = loaded.access.allow
    BY SetAccessConfig DEF Modes
  <2> QED
    BY <1>1, <1>4, <2>1, <2>2, BeginDecided DEF OpenPersistent, Decided, Kinds
<1>5. ASSUME NEW w \in Workers, ClosePublic(w) PROVE AllDecided'
  <2>1. /\ SetAccess("lan_only", 0) \in Config
        /\ SetAccess("lan_only", 0).access.mode = "lan_only"
        /\ SetAccess("lan_only", 0).access.allow = loaded.access.allow
    BY SetAccessConfig DEF Modes
  <2> QED
    BY <1>1, <1>5, <2>1, BeginDecided DEF ClosePublic, Decided, Kinds
<1>6. ASSUME NEW w \in Workers, SaveSettings(w) PROVE AllDecided'
  <2>1. PICK p \in SUBSET Nets, t \in BOOLEAN :
          Begin(w, "settings", [loaded EXCEPT !.pools = p, !.key = t], "loaded")
    BY <1>6 DEF SaveSettings
  <2>2. /\ [loaded EXCEPT !.pools = p, !.key = t] \in Config
        /\ [loaded EXCEPT !.pools = p, !.key = t].access = loaded.access
    BY <1>1 DEF Config
  <2>3. granted' = granted
    BY <1>6 DEF SaveSettings
  <2> HIDE DEF loaded
  <2> QED
    BY <1>1, <2>1, <2>2, <2>3, BeginDecided DEF Decided, Kinds
<1>7. ASSUME NEW w \in Workers, UploadKey(w) PROVE AllDecided'
  <2>1. /\ Begin(w, "upload", [loaded EXCEPT !.key = TRUE], "loaded")
        /\ granted' = granted
    BY <1>7 DEF UploadKey
  <2>2. /\ [loaded EXCEPT !.key = TRUE] \in Config
        /\ [loaded EXCEPT !.key = TRUE].access = loaded.access
    BY <1>1 DEF Config
  <2> HIDE DEF loaded
  <2> QED
    BY <1>1, <2>1, <2>2, BeginDecided DEF Decided, Kinds
<1>8. ASSUME NEW w \in Workers, SyncBegin(w) PROVE AllDecided'
  BY <1>1, <1>8, BeginDecided DEF SyncBegin, Decided, Kinds
<1>9. ASSUME NEW w \in Workers, SyncFetched(w) PROVE AllDecided'
  <2>1. file' = file /\ granted' = granted
    BY <1>9 DEF SyncFetched, histVars
  <2>2. ASSUME NEW v \in Workers PROVE copy'[v].access = copy[v].access
    BY <1>9 DEF SyncFetched, TypeOK, Config
  <2> QED
    BY <2>1, <2>2 DEF AllDecided, Decided, normalize_policy
<1>10. ASSUME NEW w \in Workers, SyncFails(w) PROVE AllDecided'
  <2>1. \A v \in Workers : copy'[v] = copy[v] \/ copy'[v] = default_app_config
    BY <1>10 DEF SyncFails, Return, TypeOK
  <2> QED
    BY <1>10, <2>1, ReturnDecided DEF SyncFails
<1>11. ASSUME NEW w \in Workers, Truncate(w) PROVE AllDecided'
  BY <1>11, ReturnDecided DEF Truncate
<1>12. ASSUME NEW w \in Workers, Write(w) PROVE AllDecided'
  <2>1. \A v \in Workers : copy'[v] = copy[v] \/ copy'[v] = default_app_config
    BY <1>12 DEF Write, Return, TypeOK
  <2>2. file' = normalize_app_config(copy[w]) /\ granted' = granted
    BY <1>12 DEF Write
  <2> QED
    BY <2>1, <2>2, ReturnDecided
<1>13. CASE Kill
  <2>1. \A v \in Workers : copy'[v] = copy[v] \/ copy'[v] = default_app_config
    BY <1>13 DEF Kill, TypeOK
  <2> QED
    BY <1>13, <2>1, ReturnDecided DEF Kill
<1>14. CASE Tick
  BY <1>14, ReturnDecided DEF Tick, histVars
<1>15. CASE UNCHANGED vars
  BY <1>15, ReturnDecided DEF vars
<1> QED
  BY <1>3, <1>4, <1>5, <1>6, <1>7, <1>8, <1>9, <1>10, <1>11, <1>12, <1>13,
     <1>14, <1>15 DEF Next, Request

\* The policy of the file is decided from the start, by whoever wrote it.
LEMMA InitDecided == Init => AllDecided
<1> SUFFICES ASSUME Init PROVE AllDecided
  OBVIOUS
<1>1. TypeOK
  BY InitConfig
<1>2. normalize_policy(file.access) \in Policy
      /\ normalize_policy(file.access).allow = file.access.allow
  BY <1>1, NormalPolicy DEF TypeOK
<1>3. Decided(normalize_policy(file.access))
  BY <1>2 DEF Decided, Windows, Init
<1>4. \A w \in Workers : Decided(copy[w].access)
  BY <1>1, DefaultDecided DEF Init
<1> QED
  BY <1>3, <1>4 DEF AllDecided

\* A decision that is in force lets in only whom it covers, now.
LEMMA DecidedSuffices == TypeOK /\ AllDecided => OutsidersNeedGrant
<1> SUFFICES ASSUME TypeOK, AllDecided, NEW c \in Outside,
                    is_allowed(load_app_config.access, c, now)
             PROVE  \/ c \in granted.allow
                    \/ 0 \in granted.until
                    \/ \E u \in granted.until : now < u
  BY DEF OutsidersNeedGrant
<1> DEFINE policy == load_app_config.access
<1>1. policy \in Policy
  BY LoadedConfig DEF Config
<1>2. Decided(policy)
  BY LoadedDecided
<1>3. now \in Nat /\ policy.until \in Nat /\ c \notin Lan
  BY <1>1, ConfigAssumption DEF ConfigAssumption, TypeOK, Policy
<1> HIDE DEF policy
<1>4. CASE effective_mode(policy, now) = "public"
  <2>1. policy.mode = "public" /\ (policy.until = 0 \/ ~(now >= policy.until))
    BY <1>4 DEF effective_mode
  <2> QED
    BY <1>2, <1>3, <2>1 DEF Decided
<1>5. CASE effective_mode(policy, now) = "limited" /\ c \in policy.allow
  BY <1>2, <1>5 DEF Decided
<1>6. is_allowed(policy, c, now)
  BY DEF policy
<1> QED
  BY <1>3, <1>4, <1>5, <1>6 DEF is_allowed

\* Lost, stale and torn writes, restarts and time never let an outsider in
\* whom no decision covers.
THEOREM AccessIsGranted == Spec => []OutsidersNeedGrant
BY InitConfig, InitDecided, NextConfig, NextDecided, DecidedSuffices, PTL DEF Spec

-----------------------------------------------------------------------------
\* The sections a request does not edit are those of the file.
Faithful(w) ==
  LET c == normalize_app_config(file) IN
  /\ "access" \notin Edits(kind[w]) => copy[w].access = c.access
  /\ "pools" \notin Edits(kind[w]) => copy[w].pools = c.pools
  /\ "key" \notin Edits(kind[w]) => copy[w].key = c.key

\* While a request is alone, its copy agrees with the file, which is whole
\* until the request itself truncates it.
AloneIsFaithful ==
  \A w \in Workers : alone[w] =>
    /\ pc[w] \in {"fetch", "loaded"} => state = "whole"
    /\ pc[w] = "writing" => state = "empty"
    /\ pc[w] = "fetch" => kind[w] = "sync"
    /\ Faithful(w)

\* A request that starts alone has just read the whole file.
LEMMA BeginFaithful ==
  ASSUME TypeOK, AloneIsFaithful, NEW w \in Workers, NEW k \in Kinds,
         NEW c \in Config, NEW next \in {"fetch", "loaded"}, Begin(w, k, c, next),
         next = "fetch" => k = "sync",
         "access" \notin Edits(k) => c.access = load_app_config.access,
         "pools" \notin Edits(k) => c.pools = load_app_config.pools,
         "key" \notin Edits(k) => c.key = load_app_config.key
  PROVE  AloneIsFaithful'
<1>1. file' = file /\ state' = state
  BY DEF Begin
<1> SUFFICES ASSUME NEW v \in Workers, alone'[v]
             PROVE  /\ pc'[v] \in {"fetch", "loaded"} => state' = "whole"
                    /\ pc'[v] = "writing" => state' = "empty"
                    /\ pc'[v] = "fetch" => kind'[v] = "sync"
                    /\ Faithful(v)'
  BY DEF AloneIsFaithful
<1>2. CASE v = w
  <2>1. pc'[v] = next /\ kind'[v] = k /\ copy'[v] = c /\ state = "whole"
    BY <1>2 DEF Begin, TypeOK
  <2>2. load_app_config = normalize_app_config(file)
    BY <2>1 DEF load_app_config
  <2> QED
    BY <1>1, <2>1, <2>2 DEF Faithful, Edits, normalize_app_config, normalize_policy
<1>3. CASE v # w
  <2>1. pc'[v] = pc[v] /\ kind'[v] = kind[v] /\ copy'[v] = copy[v] /\ alone[v]
    BY <1>3 DEF Begin, TypeOK
  <2> QED
    BY <1>1, <2>1 DEF AloneIsFaithful, Faithful
<1> QED
  BY <1>2, <1>3

\* Any other writer's step ends a request's being alone; its own keep it.
LEMMA NextFaithful == TypeOK /\ AloneIsFaithful /\ [Next]_vars => AloneIsFaithful'
<1> SUFFICES ASSUME TypeOK, AloneIsFaithful, [Next]_vars PROVE AloneIsFaithful'
  OBVIOUS
<1> USE ConfigAssumption DEF ConfigAssumption
<1> DEFINE loaded == load_app_config
<1>1. loaded \in Config
  BY LoadedConfig
<1>2. now \in Nat
  BY DEF TypeOK
<1>3. ASSUME NEW w \in Workers, OpenPublic(w) PROVE AloneIsFaithful'
  <2>1. PICK d \in 1..MaxDuration : Begin(w, "open", SetAccess("public", now + d), "loaded")
    BY <1>3 DEF OpenPublic
  <2>2. now + d \in Nat
    BY <1>2
  <2> QED
    BY <2>1, <2>2, SetAccessConfig, BeginFaithful DEF Kinds, Edits, Modes
<1>4. ASSUME NEW w \in Workers, OpenPersistent(w) PROVE AloneIsFaithful'
  BY <1>4, SetAccessConfig, BeginFaithful DEF OpenPersistent, Kinds, Edits, Modes
<1>5. ASSUME NEW w \in Workers, ClosePublic(w) PROVE AloneIsFaithful'
  BY <1>5, SetAccessConfig, BeginFaithful DEF ClosePublic, Kinds, Edits, Modes
<1>6. ASSUME NEW w \in Workers, SaveSettings(w) PROVE AloneIsFaithful'
  <2>1. PICK p \in SUBSET Nets, t \in BOOLEAN :
          Begin(w, "settings", [loaded EXCEPT !.pools = p, !.key = t], "loaded")
    BY <1>6 DEF SaveSettings
  <2>2. /\ [loaded EXCEPT !.pools = p, !.key = t] \in Config
        /\ [loaded EXCEPT !.pools = p, !.key = t].access = loaded.access
    BY <1>1 DEF Config
  <2> QED
    BY <2>1, <2>2, BeginFaithful DEF Kinds, Edits
<1>7. ASSUME NEW w \in Workers, UploadKey(w) PROVE AloneIsFaithful'
  <2>1. Begin(w, "upload", [loaded EXCEPT !.key = TRUE], "loaded")
    BY <1>7 DEF UploadKey
  <2>2. /\ [loaded EXCEPT !.key = TRUE] \in Config
        /\ [loaded EXCEPT !.key = TRUE].access = loaded.access
        /\ [loaded EXCEPT !.key = TRUE].pools = loaded.pools
    BY <1>1 DEF Config
  <2> QED
    BY <2>1, <2>2, BeginFaithful DEF Kinds, Edits
<1>8. ASSUME NEW w \in Workers, SyncBegin(w) PROVE AloneIsFaithful'
  BY <1>1, <1>8, BeginFaithful DEF SyncBegin, Kinds, Edits
<1>9. ASSUME NEW w \in Workers, SyncFetched(w) PROVE AloneIsFaithful'
  <2> SUFFICES ASSUME NEW v \in Workers, alone'[v]
               PROVE  /\ pc'[v] \in {"fetch", "loaded"} => state' = "whole"
                      /\ pc'[v] = "writing" => state' = "empty"
                      /\ pc'[v] = "fetch" => kind'[v] = "sync"
                      /\ Faithful(v)'
    BY DEF AloneIsFaithful
  <2>1. file' = file /\ state' = state /\ kind' = kind /\ alone' = alone
    BY <1>9 DEF SyncFetched, histVars
  <2>2. CASE v = w
    <3>1. pc[w] = "fetch" /\ pc'[w] = "loaded"
      BY <1>9 DEF SyncFetched, TypeOK
    <3>2. copy'[w].access = copy[w].access /\ copy'[w].key = copy[w].key
      BY <1>9 DEF SyncFetched, TypeOK, Config
    <3> QED
      BY <2>1, <2>2, <3>1, <3>2 DEF AloneIsFaithful, Faithful, Edits,
           normalize_app_config, normalize_policy
  <2>3. CASE v # w
    <3>1. pc'[v] = pc[v] /\ copy'[v] = copy[v]
      BY <1>9, <2>3 DEF SyncFetched, TypeOK
    <3> QED
      BY <2>1, <3>1 DEF AloneIsFaithful, Faithful
  <2> QED
    BY <2>2, <2>3
<1>10. ASSUME NEW w \in Workers, SyncFails(w) PROVE AloneIsFaithful'
  <2> SUFFICES ASSUME NEW v \in Workers, alone'[v]
               PROVE  /\ pc'[v] \in {"fetch", "loaded"} => state' = "whole"
                      /\ pc'[v] = "writing" => state' = "empty"
                      /\ pc'[v] = "fetch" => kind'[v] = "sync"
                      /\ Faithful(v)'
    BY DEF AloneIsFaithful
  <2>1. v # w /\ alone[v]
    BY <1>10 DEF SyncFails, TypeOK
  <2>2. /\ file' = file /\ state' = state
        /\ kind'[v] = kind[v] /\ pc'[v] = pc[v] /\ copy'[v] = copy[v]
    BY <1>10, <2>1 DEF SyncFails, Return, TypeOK
  <2> QED
    BY <2>1, <2>2 DEF AloneIsFaithful, Faithful
<1>11. ASSUME NEW w \in Workers, Truncate(w) PROVE AloneIsFaithful'
  <2> SUFFICES ASSUME NEW v \in Workers, alone'[v]
               PROVE  /\ pc'[v] \in {"fetch", "loaded"} => state' = "whole"
                      /\ pc'[v] = "writing" => state' = "empty"
                      /\ pc'[v] = "fetch" => kind'[v] = "sync"
                      /\ Faithful(v)'
    BY DEF AloneIsFaithful
  <2>1. v = w /\ alone[v]
    BY <1>11 DEF Truncate
  <2>2. /\ file' = file /\ kind' = kind /\ copy' = copy
        /\ pc'[w] = "writing" /\ state' = "empty"
    BY <1>11 DEF Truncate, TypeOK
  <2> QED
    BY <2>1, <2>2 DEF AloneIsFaithful, Faithful, Edits, normalize_app_config, normalize_policy
<1>12. ASSUME NEW w \in Workers, Write(w) PROVE AloneIsFaithful'
  BY <1>12 DEF Write, AloneIsFaithful
<1>13. CASE Kill
  BY <1>13 DEF Kill, AloneIsFaithful
<1>14. CASE Tick
  BY <1>14 DEF Tick, histVars, AloneIsFaithful, Faithful, Edits, normalize_app_config,
     normalize_policy
<1>15. CASE UNCHANGED vars
  BY <1>15 DEF vars, AloneIsFaithful, Faithful, Edits, normalize_app_config,
     normalize_policy
<1> QED
  BY <1>3, <1>4, <1>5, <1>6, <1>7, <1>8, <1>9, <1>10, <1>11, <1>12, <1>13,
     <1>14, <1>15 DEF Next, Request

\* What a write by a request that was alone does to the file.
LEMMA WriteAlone ==
  ASSUME TypeOK, AloneIsFaithful, NEW w \in Workers, Write(w), alone[w]
  PROVE  /\ state' = "whole"
         /\ \A s \in Sections \ Edits(kind[w]) :
              file'[s] = normalize_app_config(file)[s]
<1>1. pc[w] = "writing" /\ state = "empty"
  BY DEF Write, AloneIsFaithful
<1>2. state' = "whole"
  BY <1>1 DEF Write
<1>3. copy[w] \in Config
  BY DEF TypeOK
<1>4. file' = copy[w]
  BY <1>3, NormalConfigAgain DEF Write
<1>5. Faithful(w)
  BY DEF AloneIsFaithful
<1>6. ASSUME NEW s \in Sections \ Edits(kind[w])
      PROVE  file'[s] = normalize_app_config(file)[s]
  <2>1. CASE s = "access"
    BY <1>4, <1>5, <2>1 DEF Faithful
  <2>2. CASE s = "pools"
    BY <1>4, <1>5, <2>2 DEF Faithful
  <2>3. CASE s = "key"
    BY <1>4, <1>5, <2>3 DEF Faithful
  <2> QED
    BY <2>1, <2>2, <2>3 DEF Sections
<1> QED
  BY <1>2, <1>6

\* Edits of different sections are lost only to requests that overlap.
THEOREM SoleWriterIsSafe == Spec => SoleWriterKeepsRest
<1>1. Init => AloneIsFaithful
  BY DEF Init, AloneIsFaithful
<1>2. TypeOK /\ AloneIsFaithful /\ [Next]_vars =>
        [\A w \in Workers : Write(w) /\ alone[w] =>
           /\ state' = "whole"
           /\ \A s \in Sections \ Edits(kind[w]) :
                file'[s] = normalize_app_config(file)[s]]_vars
  BY WriteAlone
<1>3. Spec => [](TypeOK /\ AloneIsFaithful)
  BY <1>1, InitConfig, NextConfig, NextFaithful, PTL DEF Spec
<1> QED
  BY <1>2, <1>3, PTL DEF Spec, SoleWriterKeepsRest

-----------------------------------------------------------------------------
(***************************************************************************)
(* What Upgrade.tla promises of the background tasks and of the status     *)
(* file, for any number of tasks, status requests and restart threads.     *)
(***************************************************************************)

\* The initial values have their types.
LEMMA InitUpgrade == UpgradeInit => UpgradeTypeOK
<1> SUFFICES ASSUME UpgradeInit PROVE UpgradeTypeOK
  OBVIOUS
<1>1. status \in Status
  BY DEF UpgradeInit, Status
<1> QED
  BY <1>1 DEF UpgradeInit, UpgradeTypeOK

\* Every action, status requests and restarts included, keeps the types.
LEMMA NextUpgrade == UpgradeTypeOK /\ [UpgradeNext]_allVars => UpgradeTypeOK'
<1> SUFFICES ASSUME UpgradeTypeOK, [UpgradeNext]_allVars PROVE UpgradeTypeOK'
  OBVIOUS
<1> USE DEF UpgradeTypeOK, Status, Working
<1>1. ASSUME NEW u \in Tasks, Start(u) PROVE UpgradeTypeOK'
  BY <1>1 DEF upgradeVars, pollVars, restartVars, Report, TaskTo, Start
<1>2. ASSUME NEW u \in Tasks, StartFails(u) PROVE UpgradeTypeOK'
  BY <1>2 DEF upgradeVars, pollVars, restartVars, Report, TaskTo, StartFails
<1>3. ASSUME NEW u \in Tasks, Fetched(u) PROVE UpgradeTypeOK'
  BY <1>3 DEF upgradeVars, pollVars, restartVars, Report, TaskTo, Fetched
<1>4. ASSUME NEW u \in Tasks, Installed(u) PROVE UpgradeTypeOK'
  BY <1>4 DEF upgradeVars, pollVars, restartVars, Report, TaskTo, Installed
<1>5. ASSUME NEW u \in Tasks, Finished(u) PROVE UpgradeTypeOK'
  BY <1>5 DEF upgradeVars, pollVars, restartVars, Report, TaskTo, Finished
<1>6. ASSUME NEW u \in Tasks, HookRan(u) PROVE UpgradeTypeOK'
  BY <1>6 DEF upgradeVars, pollVars, restartVars, Report, TaskTo, HookRan
<1>7. ASSUME NEW u \in Tasks, Fails(u) PROVE UpgradeTypeOK'
  <2>1. status' \in Status
    <3>1. CASE Report("error", FALSE, status.hook)
      BY <3>1 DEF Report
    <3>2. CASE UNCHANGED status
      BY <3>2
    <3> QED
      BY <1>7, <3>1, <3>2 DEF Fails
  <2>2. result' \in [Tasks -> {"none", "installed", "nohook", "failed"}]
    BY <1>7 DEF Fails
  <2>3. UNCHANGED <<running, script, last, ppc, seen, queued, rpc, supported, restarted>>
    BY <1>7 DEF Fails, pollVars, restartVars
  <2>4. task' \in [Tasks -> {"new", "lost", "ended"} \union Working]
    BY <1>7 DEF Fails, TaskTo
  <2> QED
    BY <2>1, <2>2, <2>3, <2>4
<1>8. ASSUME NEW u \in Tasks, Ends(u) PROVE UpgradeTypeOK'
  BY <1>8 DEF upgradeVars, pollVars, restartVars, Report, TaskTo, Ends
<1>9. ASSUME NEW p \in Pollers, PollRead(p) PROVE UpgradeTypeOK'
  BY <1>9 DEF upgradeVars, pollVars, restartVars, Report, TaskTo, PollRead
<1>10. ASSUME NEW p \in Pollers, PollFlag(p) PROVE UpgradeTypeOK'
  BY <1>10 DEF upgradeVars, pollVars, restartVars, Report, TaskTo, PollFlag
<1>11. ASSUME NEW p \in Pollers, PollRepairs(p) PROVE UpgradeTypeOK'
  BY <1>11 DEF upgradeVars, pollVars, restartVars, Report, TaskTo, PollRepairs
<1>12. ASSUME NEW r \in Restarters, QueueRestart(r) PROVE UpgradeTypeOK'
  BY <1>12 DEF upgradeVars, pollVars, restartVars, Report, TaskTo, QueueRestart
<1>13. ASSUME NEW r \in Restarters, RestartFails(r) PROVE UpgradeTypeOK'
  BY <1>13 DEF upgradeVars, pollVars, restartVars, Report, TaskTo, RestartFails
<1>14. CASE Restart
  BY <1>14 DEF upgradeVars, pollVars, restartVars, Report, TaskTo, Restart
<1>15. ASSUME NEW p \in Pollers, RepairFails(p) PROVE UpgradeTypeOK'
  BY <1>15 DEF upgradeVars, pollVars, restartVars, Report, TaskTo, RepairFails
<1>16. CASE Refuse
  BY <1>16 DEF upgradeVars, pollVars, restartVars, Report, TaskTo, Refuse
<1>17. CASE UNCHANGED allVars
  BY <1>17 DEF upgradeVars, pollVars, restartVars, Report, TaskTo, allVars
<1> QED
  BY <1>1, <1>2, <1>3, <1>4, <1>5, <1>6, <1>7, <1>8, <1>9, <1>10, <1>11, <1>12, <1>13, <1>14,
     <1>15, <1>16, <1>17 DEF UpgradeNext, Work, Poll

\* The state of self-upgrade and self-restart always has its types.
THEOREM UpgradeTypes == UpgradeSpec => []UpgradeTypeOK
BY InitUpgrade, NextUpgrade, PTL DEF UpgradeSpec

-----------------------------------------------------------------------------
\* A task goes through its points only while upgrade_running is set, it is
\* the one that was started last, and until its last report the file does
\* not say "success".
TaskFacts ==
  /\ \A u \in UnderWay :
       /\ running
       /\ last = u
       /\ task[u] # "finally" => status.state # "success"
  /\ status.state = "success" => last # None /\ result[last] = "installed"

\* No step of any thread breaks that: the flag is tested and set under one
\* lock, and only the finally clause of the task, or a restart, clears it.
LEMMA NextTask == UpgradeTypeOK /\ TaskFacts /\ [UpgradeNext]_allVars => TaskFacts'
<1> SUFFICES ASSUME UpgradeTypeOK, TaskFacts, [UpgradeNext]_allVars PROVE TaskFacts'
  OBVIOUS
<1> USE UpgradeAssumption DEF UpgradeAssumption, UpgradeTypeOK, Status, Working, TaskFacts, UnderWay
<1>1. ASSUME NEW u \in Tasks, Start(u) PROVE TaskFacts'
  BY <1>1 DEF upgradeVars, pollVars, restartVars, Report, TaskTo, Start
<1>2. ASSUME NEW u \in Tasks, StartFails(u) PROVE TaskFacts'
  BY <1>2 DEF upgradeVars, pollVars, restartVars, Report, TaskTo, StartFails
<1>3. ASSUME NEW u \in Tasks, Fetched(u) PROVE TaskFacts'
  BY <1>3 DEF upgradeVars, pollVars, restartVars, Report, TaskTo, Fetched
<1>4. ASSUME NEW u \in Tasks, Installed(u) PROVE TaskFacts'
  BY <1>4 DEF upgradeVars, pollVars, restartVars, Report, TaskTo, Installed
<1>5. ASSUME NEW u \in Tasks, Finished(u) PROVE TaskFacts'
  BY <1>5 DEF upgradeVars, pollVars, restartVars, Report, TaskTo, Finished
<1>6. ASSUME NEW u \in Tasks, HookRan(u) PROVE TaskFacts'
  BY <1>6 DEF upgradeVars, pollVars, restartVars, Report, TaskTo, HookRan
<1>7. ASSUME NEW u \in Tasks, Fails(u) PROVE TaskFacts'
  BY <1>7 DEF upgradeVars, pollVars, restartVars, Report, TaskTo, Fails
<1>8. ASSUME NEW u \in Tasks, Ends(u) PROVE TaskFacts'
  BY <1>8 DEF upgradeVars, pollVars, restartVars, Report, TaskTo, Ends
<1>9. ASSUME NEW p \in Pollers, PollRead(p) PROVE TaskFacts'
  BY <1>9 DEF upgradeVars, pollVars, restartVars, Report, TaskTo, PollRead
<1>10. ASSUME NEW p \in Pollers, PollFlag(p) PROVE TaskFacts'
  BY <1>10 DEF upgradeVars, pollVars, restartVars, Report, TaskTo, PollFlag
<1>11. ASSUME NEW p \in Pollers, PollRepairs(p) PROVE TaskFacts'
  BY <1>11 DEF upgradeVars, pollVars, restartVars, Report, TaskTo, PollRepairs
<1>12. ASSUME NEW r \in Restarters, QueueRestart(r) PROVE TaskFacts'
  BY <1>12 DEF upgradeVars, pollVars, restartVars, Report, TaskTo, QueueRestart
<1>13. ASSUME NEW r \in Restarters, RestartFails(r) PROVE TaskFacts'
  BY <1>13 DEF upgradeVars, pollVars, restartVars, Report, TaskTo, RestartFails
<1>14. CASE Restart
  BY <1>14 DEF upgradeVars, pollVars, restartVars, Report, TaskTo, Restart
<1>15. ASSUME NEW p \in Pollers, RepairFails(p) PROVE TaskFacts'
  BY <1>15 DEF upgradeVars, pollVars, restartVars, Report, TaskTo, RepairFails
<1>16. CASE Refuse
  BY <1>16 DEF upgradeVars, pollVars, restartVars, Report, TaskTo, Refuse
<1>17. CASE UNCHANGED allVars
  BY <1>17 DEF upgradeVars, pollVars, restartVars, Report, TaskTo, allVars
<1> QED
  BY <1>1, <1>2, <1>3, <1>4, <1>5, <1>6, <1>7, <1>8, <1>9, <1>10, <1>11, <1>12, <1>13, <1>14,
     <1>15, <1>16, <1>17 DEF UpgradeNext, Work, Poll

\* What NextTask preserves holds in every behaviour.
LEMMA TaskInvariant == UpgradeSpec => []TaskFacts
<1>1. UpgradeInit => TaskFacts
  BY DEF UpgradeInit, TaskFacts, UnderWay, Working
<1> QED
  BY <1>1, NextTask, UpgradeTypes, PTL DEF UpgradeSpec

\* The installer never runs in two tasks at a time.
THEOREM OneUpgradeAtATime == UpgradeSpec => []OneUpgrade
<1>1. TaskFacts => OneUpgrade
  BY DEF TaskFacts, OneUpgrade
<1> QED
  BY <1>1, TaskInvariant, PTL

\* The status file never claims a success that was not the last upgrade's.
THEOREM SuccessNeverFalse == UpgradeSpec => []SuccessIsTrue
<1>1. TaskFacts => SuccessIsTrue
  BY DEF TaskFacts, SuccessIsTrue
<1> QED
  BY <1>1, TaskInvariant, PTL

-----------------------------------------------------------------------------
\* restart_queued is exactly the existence of its one thread, step by step.
LEMMA NextRestart == UpgradeTypeOK /\ OneRestart /\ [UpgradeNext]_allVars => OneRestart'
<1> SUFFICES ASSUME UpgradeTypeOK, OneRestart, [UpgradeNext]_allVars PROVE OneRestart'
  OBVIOUS
<1> USE DEF UpgradeTypeOK, OneRestart
<1>1. ASSUME NEW u \in Tasks, Start(u) PROVE OneRestart'
  BY <1>1 DEF upgradeVars, pollVars, restartVars, Start
<1>2. ASSUME NEW u \in Tasks, StartFails(u) PROVE OneRestart'
  BY <1>2 DEF upgradeVars, pollVars, restartVars, StartFails
<1>3. ASSUME NEW u \in Tasks, Fetched(u) PROVE OneRestart'
  BY <1>3 DEF upgradeVars, pollVars, restartVars, Fetched
<1>4. ASSUME NEW u \in Tasks, Installed(u) PROVE OneRestart'
  BY <1>4 DEF upgradeVars, pollVars, restartVars, Installed
<1>5. ASSUME NEW u \in Tasks, Finished(u) PROVE OneRestart'
  BY <1>5 DEF upgradeVars, pollVars, restartVars, Finished
<1>6. ASSUME NEW u \in Tasks, HookRan(u) PROVE OneRestart'
  BY <1>6 DEF upgradeVars, pollVars, restartVars, HookRan
<1>7. ASSUME NEW u \in Tasks, Fails(u) PROVE OneRestart'
  BY <1>7 DEF upgradeVars, pollVars, restartVars, Fails
<1>8. ASSUME NEW u \in Tasks, Ends(u) PROVE OneRestart'
  BY <1>8 DEF upgradeVars, pollVars, restartVars, Ends
<1>9. ASSUME NEW p \in Pollers, PollRead(p) PROVE OneRestart'
  BY <1>9 DEF upgradeVars, pollVars, restartVars, PollRead
<1>10. ASSUME NEW p \in Pollers, PollFlag(p) PROVE OneRestart'
  BY <1>10 DEF upgradeVars, pollVars, restartVars, PollFlag
<1>11. ASSUME NEW p \in Pollers, PollRepairs(p) PROVE OneRestart'
  BY <1>11 DEF upgradeVars, pollVars, restartVars, PollRepairs
<1>12. ASSUME NEW r \in Restarters, QueueRestart(r) PROVE OneRestart'
  BY <1>12 DEF upgradeVars, pollVars, restartVars, QueueRestart
<1>13. ASSUME NEW r \in Restarters, RestartFails(r) PROVE OneRestart'
  BY <1>13 DEF upgradeVars, pollVars, restartVars, RestartFails
<1>14. CASE Restart
  BY <1>14 DEF upgradeVars, pollVars, restartVars, Restart
<1>15. ASSUME NEW p \in Pollers, RepairFails(p) PROVE OneRestart'
  BY <1>15 DEF upgradeVars, pollVars, restartVars, RepairFails
<1>16. CASE Refuse
  BY <1>16 DEF upgradeVars, pollVars, restartVars, Refuse
<1>17. CASE UNCHANGED allVars
  BY <1>17 DEF upgradeVars, pollVars, restartVars, allVars
<1> QED
  BY <1>1, <1>2, <1>3, <1>4, <1>5, <1>6, <1>7, <1>8, <1>9, <1>10, <1>11, <1>12, <1>13, <1>14,
     <1>15, <1>16, <1>17 DEF UpgradeNext, Work, Poll

\* Two restarts are never queued at a time.
THEOREM OneRestartAtATime == UpgradeSpec => []OneRestart
<1>1. UpgradeInit => OneRestart
  BY DEF UpgradeInit, OneRestart
<1> QED
  BY <1>1, NextRestart, UpgradeTypes, PTL DEF UpgradeSpec
=============================================================================
