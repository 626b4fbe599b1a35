------------------------------ MODULE GatewayAuth ------------------------------
(***************************************************************************)
(* Authenticator of packages/esig-gateway/src/auth.ts in its mtls+jwt      *)
(* mode: the peer, the gates of the token, the key set that is fetched on  *)
(* demand, and the cache that makes a token single-use.                    *)
(*                                                                         *)
(* A request reads the clock once, when it arrives, and judges everything  *)
(* by that reading; awaiting the key set can take until long after.  What  *)
(* is wrong with a token is named by the gate that finds it.               *)
(***************************************************************************)
EXTENDS Integers, FiniteSets

CONSTANTS
  Bearer,      \* the requests
  Presents,    \* Presents[b]: the tokens [jti, kid, exp, faults] b may come with
  KeySet,      \* what the issuer may publish: sets of key ids
  Ttl,         \* ttlMs
  Cooldown,    \* minRefetchMs
  MaxEntries,  \* the capacity of the replay cache
  MaxClock,    \* bound: the clock
  MaxFetches   \* bound: the fetches of the key set

VARIABLES
  clock,
  keys,        \* JwksCache.keys
  fetchedAt,   \* JwksCache.fetchedAt
  fetches,     \* the fetches begun; the one in flight is "on"
  seen,        \* ReplayCache.seen, as a set of [jti, exp]
  bearer,      \* where each request is
  forgotten    \* the jtis that left the cache before they expired (a history)

avars == <<clock, keys, fetchedAt, fetches, seen, bearer, forgotten>>

Never == 0 - Ttl - 1

AInit ==
  /\ clock = 0
  /\ keys = {} /\ fetchedAt = Never
  /\ fetches = [on |-> FALSE, begun |-> 0]
  /\ seen = {}
  /\ bearer \in {f \in [Bearer -> {[stage |-> "away", token |-> t, now |-> 0, round |-> 0, at |-> 0] :
                                   t \in UNION {Presents[b] : b \in Bearer}}] :
                  \A b \in Bearer : f[b].token \in Presents[b]}
  /\ forgotten = {}

To(b, stage)   == [bearer EXCEPT ![b].stage = stage]
Refused(b)     == bearer' = To(b, "refused")

------------------------------------------------------------------------------
(***************************************************************************)
(* The gates of a token.                                                   *)
(***************************************************************************)
\* verifyPeer, parseXfcc.
PeerKnown(t)  == "peer" \notin t.faults

\* Three segments, JSON, an algorithm of the pinned set: before any key is
\* looked for.
WellFormed(t) == "form" \notin t.faults

\* The key's algorithm and type, and the signature.
KeyFits(t)    == "match" \notin t.faults

\* A token ends at some time, and two that carry the issuer's signature and the same
\* jti are the same token: they end together.
ASSUME TokenAssumption ==
  /\ \A b \in Bearer : \A t \in Presents[b] : t.exp \in Int
  /\ \A b, c \in Bearer : \A t \in Presents[b], u \in Presents[c] :
       KeyFits(t) /\ KeyFits(u) /\ t.jti = u.jti => t.exp = u.exp

\* Issuer, audience, subject, times, lifetime, jti, scope and tenant.  exp is
\* the end of the token with the skew added.
ClaimsHold(t, now) == "claims" \notin t.faults /\ t.exp > now

------------------------------------------------------------------------------
(***************************************************************************)
(* authenticate.                                                           *)
(***************************************************************************)
Arrives(b) ==
  /\ bearer[b].stage = "away"
  /\ bearer' = [bearer EXCEPT
       ![b].now = clock,
       ![b].stage = IF PeerKnown(bearer[b].token) /\ WellFormed(bearer[b].token)
                     THEN "lookup" ELSE "refused"]
  /\ UNCHANGED <<clock, keys, fetchedAt, fetches, seen, forgotten>>

\* refresh: joins the fetch in flight, or begins one.
Await(b) ==
  /\ fetches.on \/ fetches.begun < MaxFetches
  /\ fetches' = [on |-> TRUE, begun |-> IF fetches.on THEN fetches.begun ELSE fetches.begun + 1]
  /\ bearer' = [bearer EXCEPT ![b].stage = "awaiting", ![b].round = @ + 1]
  /\ UNCHANGED <<clock, keys, fetchedAt, seen, forgotten>>

\* get: the key set is stale by the request's own reading of the clock.
LooksUp(b) ==
  /\ bearer[b].stage = "lookup"
  /\ IF keys = {} \/ bearer[b].now - fetchedAt > Ttl
     THEN Await(b)
     ELSE bearer' = To(b, "select") /\ UNCHANGED <<clock, keys, fetchedAt, fetches, seen, forgotten>>

\* select, and one more fetch when the key is unknown and the last is old.
Selects(b) ==
  /\ bearer[b].stage = "select"
  /\ IF bearer[b].token.kid \in keys
     THEN bearer' = To(b, "verify") /\ UNCHANGED <<clock, keys, fetchedAt, fetches, seen, forgotten>>
     ELSE IF bearer[b].round < 2 /\ bearer[b].now - fetchedAt > Cooldown
     THEN Await(b)
     ELSE Refused(b) /\ UNCHANGED <<clock, keys, fetchedAt, fetches, seen, forgotten>>

\* The fetch in flight ends for everybody who awaits it.
Awaited(stage) ==
  bearer' = [b \in Bearer |-> IF bearer[b].stage = "awaiting"
                              THEN [bearer[b] EXCEPT !.stage = stage] ELSE bearer[b]]

FetchAnswers(published) ==
  /\ fetches.on
  /\ fetches' = [fetches EXCEPT !.on = FALSE]
  /\ keys' = published /\ fetchedAt' = clock
  /\ Awaited("select")
  /\ UNCHANGED <<clock, seen, forgotten>>

\* Not reachable, not ok, or not a key set: what was cached stays.
FetchFails ==
  /\ fetches.on
  /\ fetches' = [fetches EXCEPT !.on = FALSE]
  /\ Awaited("refused")
  /\ UNCHANGED <<clock, keys, fetchedAt, seen, forgotten>>

\* Mutation: the sweep drops what expires at the next tick.
SweepsEarly(now) == {e \in seen : e.exp > now + 1}

\* sweep.
Unexpired(now) == {e \in seen : e.exp > now}

\* What makes place for one more: nothing, or an entry that expires first.
Evictions(entries) ==
  IF Cardinality(entries) < MaxEntries THEN {{}}
  ELSE {{e} : e \in {f \in entries : \A g \in entries : f.exp <= g.exp}}

\* ReplayCache.use, of a jti that is not in the cache.
Uses(b, stage) ==
  LET live == Unexpired(bearer[b].now)
  IN  \E gone \in Evictions(live) :
        /\ seen' = (live \ gone) \cup {[jti |-> bearer[b].token.jti, exp |-> bearer[b].token.exp]}
        /\ forgotten' = forgotten \cup {e.jti : e \in gone}
        /\ bearer' = [bearer EXCEPT ![b].stage = stage, ![b].at = clock]

InUse(b) == \E e \in Unexpired(bearer[b].now) : e.jti = bearer[b].token.jti

Replayed(b) ==
  /\ bearer' = To(b, "replayed")
  /\ seen' = Unexpired(bearer[b].now)
  /\ UNCHANGED forgotten

\* verifyJwt from the key on, ending in ReplayCache.use: one synchronous step.
Judged(b) ==
  LET passes == KeyFits(bearer[b].token) /\ ClaimsHold(bearer[b].token, bearer[b].now)
  IN  \/ passes /\ InUse(b) /\ Replayed(b)
      \/ passes /\ ~InUse(b) /\ Uses(b, "accepted")
      \/ ~passes /\ Refused(b) /\ UNCHANGED <<seen, forgotten>>

Verifies(b) ==
  /\ bearer[b].stage = "verify"
  /\ Judged(b)
  /\ UNCHANGED <<clock, keys, fetchedAt, fetches>>

------------------------------------------------------------------------------
Tick ==
  /\ clock < MaxClock
  /\ clock' = clock + 1
  /\ UNCHANGED <<keys, fetchedAt, fetches, seen, bearer, forgotten>>

\* The process starts again: both caches are empty, requests under way are cut.
GatewayRestarts ==
  /\ seen # {}
  /\ keys' = {} /\ fetchedAt' = Never /\ seen' = {}
  /\ fetches' = [fetches EXCEPT !.on = FALSE]
  /\ forgotten' = forgotten \cup {e.jti : e \in seen}
  /\ bearer' = [b \in Bearer |->
       IF bearer[b].stage \in {"lookup", "awaiting", "select", "verify"}
       THEN [bearer[b] EXCEPT !.stage = "refused"] ELSE bearer[b]]
  /\ UNCHANGED clock

ANext ==
  \/ \E b \in Bearer : Arrives(b) \/ LooksUp(b) \/ Selects(b) \/ Verifies(b)
  \/ \E published \in KeySet : FetchAnswers(published)
  \/ FetchFails \/ Tick \/ GatewayRestarts

------------------------------------------------------------------------------
\* "replayed jti inside the token lifetime is rejected": no jti is accepted
\* twice before the token ends, whatever the order in which requests with
\* different readings of the clock come back from the key set and sweep the
\* cache - unless the entry left it early, to a restart or a full cache.  And
\* "a token rejected for any other reason does not burn its jti": who is told
\* that a token was replayed comes after somebody it was accepted from.
UsedOnce ==
  /\ \A b, c \in Bearer :
       /\ b # c
       /\ bearer[b].stage = "accepted" /\ bearer[b].at < bearer[b].token.exp
       /\ bearer[c].stage = "accepted" /\ bearer[c].at < bearer[c].token.exp
       /\ bearer[b].token.jti = bearer[c].token.jti
       => bearer[b].token.jti \in forgotten
  /\ \A b \in Bearer : bearer[b].stage = "replayed" =>
       \E c \in Bearer : bearer[c].stage = "accepted" /\ bearer[c].token.jti = bearer[b].token.jti
==============================================================================
