---------------------------- MODULE DdnsProviders ----------------------------
(* What the DDNS providers (src/ddns/providers) do with a configuration and  *)
(* the addresses that were detected: whether the configuration is accepted   *)
(* (validate_config), and which records an update sets, in which order, or   *)
(* why it sets none.  Credentials, host names and answers keep only what     *)
(* decides: a form field is filled or it is not.                             *)
EXTENDS Sequences, Naturals

CONSTANTS
    NoAddress,  \* Python's None: no address
    Own,        \* the one name of a provider that knows no list of domains
    Unsplit     \* the names split_fqdn cannot split, such as "nas"

Lists     == {"aliyun", "dnspod", "godaddy", "namesilo", "porkbun"}
Singles   == {"duckdns", "noip", "url"}
Providers == Lists \cup Singles \cup {"cloudflare", "namecheap", "trafficroute", "ddnsgo"}

(* A configuration: `creds`, the provider's keys are filled in; `own`, its   *)
(* single name is (duckdns.domain, noip.hostname, the URL template, the      *)
(* zone_id and record_id of Cloudflare, trafficroute.domain); `dom4`, `dom6` *)
(* the lists of names; `nested4`, `nested6` those under "domains".           *)
Config(Names) ==
    [enabled : BOOLEAN, provider : Providers, creds : BOOLEAN, own : BOOLEAN,
     v4 : BOOLEAN, v6 : BOOLEAN, dom4 : Names, dom6 : Names,
     nested4 : Names, nested6 : Names]

Call(n, t, a)  == [name |-> n, type |-> t, ip |-> a]
ForEach(ns, t, a) ==
    IF a = NoAddress THEN << >> ELSE [i \in 1..Len(ns) |-> Call(ns[i], t, a)]

\* An update either raises before its first call or makes its calls in order,
\* as far as the first name that has to be split and cannot be.
Raises(why) == [raised |-> why, calls |-> << >>]
Makes(calls) == [raised |-> "no", calls |-> calls]

\* The body that the five providers with lists of names share.
Families(cfg, a4, a6) ==
    IF cfg.creds THEN Makes(ForEach(cfg.dom4, "A", a4) \o ForEach(cfg.dom6, "AAAA", a6))
                 ELSE Raises("credentials")

Aliyun(cfg, a4, a6)   == Families(cfg, a4, a6)
Dnspod(cfg, a4, a6)   == Families(cfg, a4, a6)
Godaddy(cfg, a4, a6)  == Families(cfg, a4, a6)
Namesilo(cfg, a4, a6) == Families(cfg, a4, a6)
Porkbun(cfg, a4, a6)  == Families(cfg, a4, a6)

\* AAAA names are skipped with a message.
Namecheap(cfg, a4, a6) ==
    IF cfg.creds THEN Makes(ForEach(cfg.dom4, "A", a4)) ELSE Raises("credentials")

\* Without any list: the one record named by its ids, IPv4 only.
Cloudflare(cfg, a4, a6) ==
    CASE ~cfg.creds -> Raises("credentials")
      [] cfg.creds /\ Len(cfg.dom4) + Len(cfg.dom6) > 0 -> Families(cfg, a4, a6)
      [] OTHER -> IF a4 = NoAddress THEN Raises("domains") ELSE Makes(<<Call(Own, "A", a4)>>)

\* The code falls back to "domains" only when a list is None, which no list
\* is after migrate: nested4 and nested6 play no part.
TrafficRoute(cfg, a4, a6) ==
    LET dom4 == IF cfg.dom4 # << >> THEN cfg.dom4 ELSE IF cfg.own THEN <<Own>> ELSE << >>
        calls == (IF cfg.v4 THEN ForEach(dom4, "A", a4) ELSE << >>)
                 \o (IF cfg.v6 THEN ForEach(cfg.dom6, "AAAA", a6) ELSE << >>)
    IN  CASE ~cfg.creds -> Raises("credentials")
          [] cfg.creds /\ calls # << >> -> Makes(calls)
          [] cfg.creds /\ calls = << >> /\ cfg.v4 /\ dom4 # << >> -> Raises("address")
          [] cfg.creds /\ calls = << >> /\ cfg.v6 /\ cfg.dom6 # << >> -> Raises("address")
          [] OTHER -> IF \/ cfg.v4 /\ dom4 = << >> /\ (~cfg.v6 \/ cfg.dom6 = << >>)
                         \/ dom4 = << >> /\ cfg.dom6 = << >>
                      THEN Raises("domains") ELSE Makes(<< >>)

Duckdns(cfg, a4) == IF a4 = NoAddress THEN Raises("address") ELSE Makes(<<Call(Own, "A", a4)>>)

\* No-IP and the URL template take the IPv4 address, or else the IPv6 one.
EitherFamily(a4, a6) ==
    CASE a4 # NoAddress -> Makes(<<Call(Own, "A", a4)>>)
      [] a4 = NoAddress /\ a6 # NoAddress -> Makes(<<Call(Own, "AAAA", a6)>>)
      [] OTHER -> Raises("address")

Noip(cfg, a4, a6) ==
    IF cfg.creds /\ cfg.own THEN EitherFamily(a4, a6) ELSE Raises("credentials")
CustomUrl(cfg, a4, a6) ==
    IF a4 # NoAddress \/ a6 # NoAddress
    THEN IF cfg.own THEN EitherFamily(a4, a6) ELSE Raises("template")
    ELSE Raises("address")

run_update(cfg, a4, a6) ==
    CASE cfg.provider = "trafficroute" -> TrafficRoute(cfg, a4, a6)
      [] cfg.provider = "duckdns"      -> Duckdns(cfg, a4)
      [] cfg.provider = "cloudflare"   -> Cloudflare(cfg, a4, a6)
      [] cfg.provider = "url"          -> CustomUrl(cfg, a4, a6)
      [] cfg.provider = "aliyun"       -> Aliyun(cfg, a4, a6)
      [] cfg.provider = "dnspod"       -> Dnspod(cfg, a4, a6)
      [] cfg.provider = "noip"         -> Noip(cfg, a4, a6)
      [] cfg.provider = "godaddy"      -> Godaddy(cfg, a4, a6)
      [] cfg.provider = "namecheap"    -> Namecheap(cfg, a4, a6)
      [] cfg.provider = "namesilo"     -> Namesilo(cfg, a4, a6)
      [] cfg.provider = "porkbun"      -> Porkbun(cfg, a4, a6)
      [] OTHER                         -> Raises("provider")

\* Namecheap, which has no AAAA records, accepted with IPv6 names.
validate_config_lax(cfg) ==
    cfg.enabled /\ cfg.creds /\ (cfg.dom4 # << >> \/ cfg.dom6 # << >> \/ cfg.own)

(* validate_config, which the worker and every update ask first.             *)
validate_config(cfg) ==
    /\ cfg.enabled
    /\ CASE cfg.provider = "duckdns" -> cfg.own /\ cfg.creds
         [] cfg.provider = "cloudflare" ->
              cfg.creds /\ (cfg.dom4 # << >> \/ cfg.dom6 # << >> \/ cfg.own)
         [] cfg.provider \in {"url", "ddnsgo"} -> cfg.own
         [] cfg.provider = "trafficroute" ->
              /\ cfg.creds
              /\ cfg.v4 => cfg.dom4 # << >> \/ cfg.nested4 # << >> \/ cfg.own
              /\ cfg.v6 => cfg.dom6 # << >> \/ cfg.nested6 # << >>
         [] cfg.provider \in Lists -> cfg.creds /\ (cfg.dom4 # << >> \/ cfg.dom6 # << >>)
         [] cfg.provider = "noip" -> cfg.creds /\ cfg.own
         [] cfg.provider = "namecheap" ->
              cfg.creds /\ cfg.dom4 # << >> /\ ~(cfg.v6 /\ cfg.dom6 # << >>)

(* How a call is made: is the name split into host and zone first, does it   *)
(* read the record before it sets it, does it check that the reading was not *)
(* refused (or take a refusal for "no record"), does the setting call name   *)
(* its records by host and type (it then sets them all, however many there   *)
(* are), and does the code look at the body of the answer to that, or take   *)
(* any answer that is not an HTTP error.                                     *)
Reading == [splits |-> TRUE, reads |-> TRUE, checks |-> TRUE, byName |-> FALSE, looks |-> TRUE]
Blind   == [splits |-> TRUE, reads |-> FALSE, checks |-> TRUE, byName |-> TRUE, looks |-> TRUE]

aliyun_update_one       == [Reading EXCEPT !.checks = FALSE, !.looks = FALSE]
dnspod_update_one       == [Reading EXCEPT !.checks = FALSE, !.looks = FALSE]
namesilo_update_one     == Reading
trafficroute_update_one == Reading
porkbun_update_one      == [Reading EXCEPT !.byName = TRUE]
godaddy_update_one      == Blind
namecheap_update_one    == Blind
duckdns_update_a        == [Blind EXCEPT !.splits = FALSE]
noip_request            == [Blind EXCEPT !.splits = FALSE]
url_update_get          == [Blind EXCEPT !.splits = FALSE]
cloudflare_update_one   == [Reading EXCEPT !.checks = FALSE]
\* The record named by its ids is read for its other fields only.
cloudflare_update_a     == [Blind EXCEPT !.splits = FALSE, !.byName = FALSE]

update_one(provider, name) ==
    CASE provider = "aliyun"       -> aliyun_update_one
      [] provider = "dnspod"       -> dnspod_update_one
      [] provider = "namesilo"     -> namesilo_update_one
      [] provider = "trafficroute" -> trafficroute_update_one
      [] provider = "porkbun"      -> porkbun_update_one
      [] provider = "godaddy"      -> godaddy_update_one
      [] provider = "namecheap"    -> namecheap_update_one
      [] provider = "duckdns"      -> duckdns_update_a
      [] provider = "noip"         -> noip_request
      [] provider = "url"          -> url_update_get
      [] provider = "cloudflare" /\ name # Own -> cloudflare_update_one
      [] provider = "cloudflare" /\ name = Own -> cloudflare_update_a

\* The turn of a name that cannot be split raises, and ends the update.
SplitFails(provider, name) == update_one(provider, name).splits /\ name \in Unsplit
ComesTo(provider, plan) ==
    {i \in DOMAIN plan.calls : \A k \in 1..i : ~SplitFails(provider, plan.calls[k].name)}
=============================================================================
