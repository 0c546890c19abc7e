---------------------------- MODULE EndpointPool ----------------------------
(***************************************************************************)
(* The server candidates of a connection: Nats.Endpoint.Pool               *)
(* (lib/endpoint.ml) and the two parties that use it, the dial passes of   *)
(* lib/eio/connection.ml and the advertisements of the connected server.   *)
(*                                                                         *)
(* Lists are sequences; an endpoint is a model value, equal to itself.     *)
(***************************************************************************)
EXTENDS Integers, Sequences, FiniteSets, SequencesExt

CONSTANTS None, Endpoints,
          Seeds,           \* the list given to connect
          MaxAdvertised    \* bound: length of an advertisement

ASSUME SeedsAssumption ==
  Seeds \in Seq(Endpoints) /\ Seeds # <<>> /\ None \notin Endpoints
ASSUME EndpointsAssumption == IsFiniteSet(Endpoints) /\ MaxAdvertised \in Nat

VARIABLES
  pool,         \* [seeds, discovered, order, preferred]
  established,  \* connect has returned a connection
  current,      \* current_endpoint, or None
  pass,         \* candidates the dial pass under way has still to try
  skipped       \* history: endpoint -> passes begun since it was last tried

vars == << pool, established, current, pass, skipped >>

-----------------------------------------------------------------------------
(* lib/endpoint.ml, Pool.                                                  *)

contains(endpoint, endpoints) == \E i \in DOMAIN endpoints : endpoints[i] = endpoint

\* The first occurrence of every endpoint, in order.
deduplicate(endpoints) ==
  LET seen[n \in 0..Len(endpoints)] ==
        IF n = 0 THEN <<>>
        ELSE IF contains(endpoints[n], seen[n - 1]) THEN seen[n - 1]
        ELSE Append(seen[n - 1], endpoints[n])
  IN  seen[Len(endpoints)]

\* List.filter, for the endpoints of a set.
filter(S, endpoints) ==
  LET kept[n \in 0..Len(endpoints)] ==
        IF n = 0 THEN <<>>
        ELSE IF endpoints[n] \in S THEN Append(kept[n - 1], endpoints[n])
        ELSE kept[n - 1]
  IN  kept[Len(endpoints)]

Without(endpoint, endpoints) == filter(Range(endpoints) \ {endpoint}, endpoints)

base(p) == deduplicate(p.seeds \o p.discovered)

retain_preferred(seeds, discovered, preferred) ==
  IF preferred # None /\ ~contains(preferred, seeds \o discovered)
  THEN << preferred >> \o discovered ELSE discovered

keep_preferred(preferred, endpoints) ==
  IF preferred = None THEN endpoints
  ELSE << preferred >> \o Without(preferred, endpoints)

\* Known candidates keep their places, new ones go behind them.
rebuild_order(p, discovered, preferred) ==
  LET disc     == deduplicate(retain_preferred(p.seeds, discovered, preferred))
      all      == deduplicate(p.seeds \o disc)
      existing == filter(Range(all), p.order)
      added    == filter(Range(all) \ Range(existing), all)
  IN  [seeds |-> p.seeds, discovered |-> disc,
       order |-> keep_preferred(preferred, existing \o added),
       preferred |-> preferred]

v(seeds) ==
  [seeds |-> deduplicate(seeds), discovered |-> <<>>,
   order |-> deduplicate(seeds), preferred |-> None]

\* Mutant: an advertised seed is taken for a discovered endpoint too.
beyond_seeds_all(p, urls) == deduplicate(urls)

beyond_seeds(p, urls) ==
  filter(Range(urls) \ Range(p.seeds), deduplicate(urls))

update_discovered(p, urls) ==
  IF urls = <<>> THEN p
  ELSE rebuild_order(p, beyond_seeds(p, urls), p.preferred)

connected(p, endpoint) == rebuild_order(p, p.discovered, endpoint)

\* Mutant: a failed endpoint keeps its place.
move_to_end_not(endpoint, endpoints) == endpoints

move_to_end(endpoint, endpoints) ==
  IF contains(endpoint, endpoints)
  THEN Append(Without(endpoint, endpoints), endpoint) ELSE endpoints

preferred_after(preferred, endpoint) ==
  IF preferred = endpoint THEN None ELSE preferred

failed(p, endpoint) ==
  LET q == update_discovered(p, p.discovered)
  IN  [q EXCEPT !.order = IF contains(endpoint, base(q))
                          THEN move_to_end(endpoint, @)
                          ELSE Without(endpoint, @),
                !.preferred = preferred_after(@, endpoint)]

-----------------------------------------------------------------------------
(* lib/eio/connection.ml: dialling, losing a transport, INFO.              *)

Init ==
  /\ pool = v(Seeds)
  /\ established = FALSE /\ current = None /\ pass = pool.order
  /\ skipped = [e \in Endpoints |-> 0]

\* make_dial: every redial of an established connection is a new pass over
\* the candidates of that moment.
BeginPass ==
  /\ established /\ current = None /\ pass = <<>>
  /\ pass' = pool.order
  /\ skipped' = [e \in Endpoints |-> IF contains(e, pool.order)
                                     THEN skipped[e] + 1 ELSE 0]
  /\ UNCHANGED << pool, established, current >>

\* dial_candidates: a candidate that cannot be reached rotates to the end.
DialFails ==
  /\ current = None /\ pass # <<>>
  /\ pool' = failed(pool, Head(pass))
  /\ pass' = Tail(pass)
  /\ skipped' = [skipped EXCEPT ![Head(pass)] = 0]
  /\ UNCHANGED << established, current >>

\* The first that can be reached ends a pass; the initial dial keeps what
\* remains for a handshake that fails.
DialSucceeds ==
  /\ current = None /\ pass # <<>>
  /\ pool' = connected(pool, Head(pass))
  /\ current' = Head(pass)
  /\ pass' = IF established THEN <<>> ELSE Tail(pass)
  /\ skipped' = [skipped EXCEPT ![Head(pass)] = 0]
  /\ UNCHANGED << established >>

\* connect returns once the first handshake is complete.
Established ==
  /\ ~established /\ current # None
  /\ established' = TRUE /\ pass' = <<>>
  /\ UNCHANGED << pool, current, skipped >>

\* handle_event on INFO with the endpoints of its connect_urls.
Info(urls) ==
  /\ current # None
  /\ pool' = update_discovered(pool, urls)
  /\ skipped' = [e \in Endpoints |-> IF contains(e, pool'.order)
                                     THEN skipped[e] ELSE 0]
  /\ UNCHANGED << established, current, pass >>

\* A lost transport (reset_reconnect_attempt) or a failed first handshake
\* (establish) fails its endpoint.
Lost ==
  /\ current # None
  /\ pool' = failed(pool, current)
  /\ current' = None
  /\ UNCHANGED << established, pass, skipped >>

Advertisements == UNION {[1..n -> Endpoints] : n \in 0..MaxAdvertised}

Next ==
  \/ BeginPass \/ DialFails \/ DialSucceeds \/ Established \/ Lost
  \/ \E urls \in Advertisements : Info(urls)

Spec == Init /\ [][Next]_vars

-----------------------------------------------------------------------------
(* Properties.                                                             *)

\* The dial order is always a permutation of the seeds and the discovered
\* endpoints: no update, success or failure loses a configured seed, dials a
\* candidate twice in one pass, or keeps one that is no longer known.
OrderIsPermutation ==
  /\ Range(pool.order) = Range(Seeds) \cup Range(pool.discovered)
  /\ IsInjective(pool.order) /\ IsInjective(pool.discovered)
  /\ Range(pool.seeds) \cap Range(pool.discovered) = {}

\* Rotation starves nobody: whatever is advertised and whichever candidates
\* fail or connect, a candidate that stays known is dialled again within as
\* many passes as there are endpoints.
EveryCandidateTried ==
  \A e \in Endpoints : skipped[e] <= Cardinality(Endpoints)
=============================================================================
