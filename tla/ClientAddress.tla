--------------------------- MODULE ClientAddress ---------------------------
(***************************************************************************)
(* Server.clientIP of internal/app/http.go: the address a request counts   *)
(* for in the rate limiter, from its direct peer and the entries of its    *)
(* X-Forwarded-For lines, and the requests that can arrive.                *)
(*                                                                         *)
(* A client writes what it likes into the header.  A trusted proxy appends *)
(* the address it was called from (external); the configuration is taken   *)
(* to name every proxy on the way, and no client.                          *)
(***************************************************************************)
EXTENDS Naturals, Sequences

CONSTANTS
  Clients,         \* addresses of clients
  TrustedProxies,  \* Server.trustedProxies
  Unparsable       \* an entry that is no address

ASSUME AddressesAssumption ==
  /\ Clients \intersect TrustedProxies = {}
  /\ Unparsable \notin Clients \union TrustedProxies

Addresses == Clients \union TrustedProxies

\* The entries trusted proxies do not account for; those before the last of
\* them may be anything.  Seeded fault: the first of them is taken.
Foreign(chain) == {i \in DOMAIN chain : chain[i] \notin TrustedProxies}
FirstForeign(chain) == CHOOSE i \in Foreign(chain) : \A j \in Foreign(chain) : i <= j
LastForeign(chain)  == CHOOSE i \in Foreign(chain) : \A j \in Foreign(chain) : j <= i

clientIP(peer, chain) ==
  IF peer \notin TrustedProxies \/ Foreign(chain) = {} THEN peer
  ELSE LET entry == chain[LastForeign(chain)] IN IF entry = Unparsable THEN peer ELSE entry

\* A request as it arrives from a client: what it wrote itself, then what each
\* proxy on the way appended.
Forged    == {<<>>} \union {<<e>> : e \in Addresses \union {Unparsable}}
Direct(c) == {[peer |-> c, chain |-> f] : f \in Forged}
Passed(r) == {[peer |-> p, chain |-> Append(r.chain, r.peer)] : p \in TrustedProxies}
ByOne(c)  == UNION {Passed(r) : r \in Direct(c)}
ByTwo(c)  == UNION {Passed(r) : r \in ByOne(c)}
Arrivals(c) == Direct(c) \union ByOne(c) \union ByTwo(c)

\* What its requests count for.
Keys(c) == {clientIP(r.peer, r.chain) : r \in Arrivals(c)}
=============================================================================
