----------------------------- MODULE ProxyConfig ----------------------------
(***************************************************************************)
(* Config.Validate of infra/httpproxy against the tolerant reading of the  *)
(* same settings by golang.org/x/net/http/httpproxy, which turns a typo    *)
(* into "no proxy" or into an entry that matches nothing.                  *)
(*                                                                         *)
(* An address is what the parsers tell of it: whether it holds white       *)
(* space, what url.Parse makes of it as it is, and with http:// before it. *)
(* A parse fails, or gives a scheme or none and a host: "h", "h:", ":1" or *)
(* none.  An entry of no_proxy is told apart by a slash, by whether it     *)
(* splits into host and port, and by what its host looks like.             *)
(***************************************************************************)

UrlHosts == {"", "h", "h:", ":1"}
Urls == [ok : {FALSE}, scheme : {FALSE}, host : {""}]
        \cup [ok : {TRUE}, scheme : BOOLEAN, host : UrlHosts]

\* With http:// before it, an address has a scheme.
Addresses ==
  [empty : {FALSE}, space : BOOLEAN, plain : Urls, prefixed : {u \in Urls : u.ok => u.scheme}]
  \cup [empty : {TRUE}]

\* net.ParseCIDR takes it; the host is all digits, dots and colons; net.ParseIP takes it.
Entries ==
  [blank : {FALSE}, slash : BOOLEAN, cidr : BOOLEAN, digits : BOOLEAN, ip : BOOLEAN]
  \cup [blank : {TRUE}]

\* The URL of an address: as it is, or as the address of an http proxy.
ProxyURL(a) ==
  IF ~a.plain.ok \/ ~a.plain.scheme \/ a.plain.host = "" THEN a.prefixed ELSE a.plain

\* url.URL.Hostname is empty.
NoHostname(u) == u.host \in {"", ":1"}

\* No error: the address is empty, or has no white space and a URL with a host.
parseProxyURL(a) ==
  IF a.empty THEN TRUE
  ELSE IF a.space THEN FALSE
  ELSE IF ~ProxyURL(a).ok THEN FALSE
  ELSE ~NoHostname(ProxyURL(a)) /\ ProxyURL(a).host # "h:"

\* Only digits, dots and colons, and at least one: meant as an address.
looksLikeIP(e) == e.digits

validateEntry(e) ==
  IF e.blank THEN TRUE
  ELSE IF e.slash THEN e.cidr
  ELSE looksLikeIP(e) => e.ip

\* Validate: the addresses of the two proxies and the entries of no_proxy.
Validate(c) ==
  /\ parseProxyURL(c.http) /\ parseProxyURL(c.https)
  /\ \A e \in c.no : validateEntry(e)

-----------------------------------------------------------------------------
\* External: x/net parses an address the same way and has no proxy on an error; an
\* entry that is neither a CIDR nor an IP is the name of a host.
XProxied(a) == ~a.empty /\ ProxyURL(a).ok
XEntry(e) == IF e.slash /\ e.cidr THEN "cidr" ELSE IF ~e.slash /\ e.ip THEN "ip" ELSE "name"

\* The settings mean to x/net what they were meant to: an address that is given is a
\* proxy with a host, and a range or an IP does not become a name.
Meant(c) ==
  /\ \A a \in {c.http, c.https} : ~a.empty => XProxied(a) /\ ~NoHostname(ProxyURL(a))
  /\ \A e \in c.no : ~e.blank /\ (e.slash \/ e.digits) => XEntry(e) # "name"

ProxyCases == {[http |-> a, https |-> [empty |-> TRUE], no |-> {}] : a \in Addresses}
              \cup {[http |-> [empty |-> TRUE], https |-> a, no |-> {}] : a \in Addresses}
              \cup {[http |-> [empty |-> TRUE], https |-> [empty |-> TRUE], no |-> n] :
                      n \in {{e, f} : e, f \in Entries}}
=============================================================================
