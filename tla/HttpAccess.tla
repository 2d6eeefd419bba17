----------------------------- MODULE HttpAccess -----------------------------
(***************************************************************************)
(* fcc/http_access.py: who may reach the /http-files/ routes under a       *)
(* policy at a time.  A time of 0 stands for Python's None; the allowlist  *)
(* is the set of addresses outside the LAN that its networks cover.        *)
(***************************************************************************)
EXTENDS Integers

CONSTANTS Lan,     \* addresses that fcc.security.is_lan accepts
          Outside  \* all others

Modes == {"lan_only", "limited", "public"}

Policy == [mode : Modes, allow : SUBSET Outside, until : Nat]

\* What a config file edited by hand may hold in its place.
RawPolicy == [mode : Modes \union {"unknown"}, allow : SUBSET Outside, until : Int]

default_policy == [mode |-> "lan_only", allow |-> {}, until |-> 0]

normalize_policy(raw) ==
  [mode  |-> IF raw.mode \in Modes THEN raw.mode ELSE "lan_only",
   allow |-> raw.allow,
   until |-> IF raw.until > 0 THEN raw.until ELSE 0]

\* Mutant: a window that has elapsed is still open.
configured_mode(policy, now) == policy.mode

\* A timed window that has elapsed collapses to lan_only when it is looked at.
effective_mode(policy, now) ==
  IF policy.mode = "public" /\ policy.until # 0 /\ now >= policy.until
  THEN "lan_only" ELSE policy.mode

is_allowed(policy, ip, now) ==
  \/ effective_mode(policy, now) = "public"
  \/ ip \in Lan
  \/ effective_mode(policy, now) = "limited" /\ ip \in policy.allow
=============================================================================
