------------------------------ MODULE RateLimit ------------------------------
(***************************************************************************)
(* The token buckets in front of login and signup (ratelimit.ts): a map    *)
(* with a cap, which keeps insertion order.  Time is counted in ticks; a   *)
(* bucket gains one part of a token per tick, and a token is Parts parts.  *)
(***************************************************************************)
EXTENDS Naturals, Sequences, FiniteSets

CONSTANTS Ips, Mails,   \* the keys login:ip:, signup:ip: and login:email: are made of
          Parts,        \* ticks until a token is back (12 s)
          Burst,        \* AUTH_LIMIT.burst
          IdleTicks,    \* IDLE_MS
          MaxBuckets,
          MaxTime       \* bound: how long the clock runs

VARIABLES
    buckets,   \* the map: tokens (in parts) and last of each key, and its place in it
    now,
    passed     \* history: when requests of each key were let through, since the
               \* bucket was last dropped for want of room

vars == <<buckets, now, passed>>

LoginIp(ip) == <<"login:ip", ip>>
LoginMail(m) == <<"login:email", m>>
SignupIp(ip) == <<"signup:ip", ip>>
BucketKeys == {LoginIp(i) : i \in Ips} \cup {SignupIp(i) : i \in Ips} \cup {LoginMail(m) : m \in Mails}

Init ==
    /\ buckets = [k \in {} |-> 0]
    /\ now = 0
    /\ passed = [k \in BucketKeys |-> <<>>]

Least(a, b) == IF a < b THEN a ELSE b
-----------------------------------------------------------------------------
\* Of the keys in D, the newest that the map has room for.
Newest(m, D) == {k \in D : Cardinality({j \in D : m[k].place < m[j].place}) < MaxBuckets}

Busy(m) == {k \in DOMAIN m : now - m[k].last <= IdleTicks}

\* Wrong variant: the map is pruned one key too late.
LeftLate(m) == IF Cardinality(DOMAIN m) <= MaxBuckets + 1 THEN DOMAIN m ELSE Newest(m, Busy(m))

\* Only over the cap: the idle buckets go, then the oldest.
Left(m) == IF Cardinality(DOMAIN m) <= MaxBuckets THEN DOMAIN m ELSE Newest(m, Busy(m))

\* Those left move up.
Place(m, D, k) == 1 + Cardinality({j \in D : m[j].place < m[k].place})

Prune(m) == [k \in Left(m) |-> [m[k] EXCEPT !.place = Place(m, Left(m), k)]]

\* The history without the keys that were dropped for want of room.
Crowded(m, h) == [k \in BucketKeys |-> IF k \in Busy(m) \ Left(m) THEN <<>> ELSE h[k]]

\* Wrong variant: a refused request does not move the bucket's clock.
RefillTwice(b) ==
    LET t == Least(Burst * Parts, b.tokens + (now - b.last)) IN
    IF t < Parts THEN [b EXCEPT !.tokens = t]
    ELSE [b EXCEPT !.tokens = t - Parts, !.last = now]

\* What consume makes of a bucket: it is refilled, and pays if it can.
Refill(b) ==
    LET t == Least(Burst * Parts, b.tokens + (now - b.last)) IN
    [b EXCEPT !.tokens = IF t < Parts THEN t ELSE t - Parts, !.last = now]

Pays(b) == b.tokens + (now - b.last) >= Parts

\* The bucket of a key: its own, or a full one that is put in last.
BucketOf(p, key) ==
    IF key \in DOMAIN p THEN p[key]
    ELSE [tokens |-> Burst * Parts, last |-> now, place |-> 1 + Cardinality(DOMAIN p)]

\* consume: the map and the history after it, and whether the request passes.
Consume(m, h, key) ==
    LET p == Prune(m)
        b == BucketOf(p, key)
        c == Crowded(m, h) IN
    [ m  |-> [k \in (DOMAIN p) \cup {key} |-> IF k = key THEN Refill(b) ELSE p[k]],
      h  |-> IF Pays(b) THEN [c EXCEPT ![key] = Append(@, now)] ELSE c,
      ok |-> Pays(b) ]
-----------------------------------------------------------------------------
\* The login form asks for the address first and, when it passes, for the e-mail.
Login(ip, mail) ==
    LET first  == Consume(buckets, passed, LoginIp(ip))
        second == Consume(first.m, first.h, LoginMail(mail))
        last   == IF first.ok THEN second ELSE first IN
    buckets' = last.m /\ passed' = last.h /\ UNCHANGED now

Signup(ip) ==
    LET c == Consume(buckets, passed, SignupIp(ip)) IN
    buckets' = c.m /\ passed' = c.h /\ UNCHANGED now

Tick ==
    /\ now < MaxTime
    /\ now' = now + 1
    /\ UNCHANGED <<buckets, passed>>

Next ==
    \/ \E ip \in Ips : Signup(ip) \/ \E m \in Mails : Login(ip, m)
    \/ Tick

Spec == Init /\ [][Next]_vars
-----------------------------------------------------------------------------
\* A bucket has at most Burst tokens and a place of its own, and the map stays within
\* one of its cap: prune runs before the new key is put in.
TypeOK ==
    /\ now \in 0..MaxTime
    /\ \A k \in DOMAIN buckets : /\ k \in BucketKeys
                                 /\ buckets[k].tokens \in 0..(Burst * Parts)
                                 /\ buckets[k].last \in 0..now
    /\ \A j, k \in DOMAIN buckets : j # k => buckets[j].place # buckets[k].place
    /\ Cardinality(DOMAIN buckets) <= MaxBuckets + 1

\* In any span of time a key passes no more often than a full bucket and the
\* refill of that span allow, idle buckets being dropped and made anew in
\* between; only a bucket dropped for want of room starts over.
Throttled ==
    \A k \in BucketKeys : \A i, j \in DOMAIN passed[k] :
       i <= j => (j - i + 1) * Parts <= Burst * Parts + (passed[k][j] - passed[k][i])
=============================================================================
