------------------------------- MODULE MCDdns -------------------------------
EXTENDS Ddns
CONSTANTS d1, own, nas
MCNames == {d1, own, nas}
Filled(p) == [Defaults EXCEPT !.enabled = TRUE, !.provider = p, !.creds = TRUE]
MCInitial ==
    {[Filled("trafficroute") EXCEPT !.dom4 = <<d1>>],
     [Filled("cloudflare") EXCEPT !.dom4 = <<d1>>, !.dom6 = <<d1>>, !.v6 = TRUE],
     [Filled("cloudflare") EXCEPT !.own = TRUE],
     [Filled("porkbun") EXCEPT !.dom4 = <<d1, nas>>],
     [Filled("aliyun") EXCEPT !.dom4 = <<d1>>],
     [Filled("namesilo") EXCEPT !.dom4 = <<d1>>],
     [Filled("godaddy") EXCEPT !.dom6 = <<d1>>, !.v6 = TRUE],
     [Filled("noip") EXCEPT !.own = TRUE],
     [Filled("duckdns") EXCEPT !.own = TRUE],
     [Filled("url") EXCEPT !.own = TRUE],
     [Filled("ddnsgo") EXCEPT !.own = TRUE]}
MCBodies == {[provider |-> "trafficroute", own |-> TRUE, dom4 |-> << >>],
             [provider |-> "dnspod", dom4 |-> <<d1, own>>],
             [provider |-> "namecheap", dom4 |-> <<d1>>]}
=============================================================================
