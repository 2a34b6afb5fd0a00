----------------------------- MODULE FlashStore -----------------------------
(***************************************************************************)
(* The one-time store that shows an admin a fresh node token or a          *)
(* student's password after a redirect (flash.ts): the redirect names an   *)
(* entry, the next rendering of the page reads and deletes it.  Values are *)
(* numbered as they are made; a page may be rendered more than once, or    *)
(* never, and other redirects pass messages through the same store.        *)
(***************************************************************************)
EXTENDS Naturals, Sequences, FiniteSets

CONSTANTS Ttl,            \* TTL_MS
          MaxEntries,     \* MAX_ENTRIES
          MaxTime, MaxPuts

VARIABLES
    now,
    store,      \* the entries: id, value, expires
    secret,     \* placement_members.credential_secret: a value, 0 when consumed
    puts,       \* entries so far; entry i has id i
    made,       \* history: when entry i was put, and what
    seen,       \* history: which entries were shown, and when
    since       \* history: entries put before the process started

vars == <<now, store, secret, puts, made, seen, since>>

Init ==
    /\ now = 0 /\ store = {} /\ secret = 1 /\ puts = 0
    /\ made = <<>> /\ seen = {} /\ since = 0

\* A map keeps the order of insertion, which is that of the ids.
Older(s, e) == {f \in s : f.id < e.id}
Newer(s, e) == {f \in s : e.id < f.id}

\* Wrong variant: the newest entries make room.
EvictNewest(s) == {e \in s : Cardinality(Older(s, e)) < MaxEntries - 1}

\* The oldest entries make room for one more.
Evict(s) == {e \in s : Cardinality(Newer(s, e)) < MaxEntries - 1}

Prune(s) == {e \in s : now <= e.expires}

PutFlash(v) ==
    /\ puts < MaxPuts /\ puts' = puts + 1
    /\ store' = Evict(Prune(store)) \cup {[id |-> puts + 1, value |-> v, expires |-> now + Ttl]}
    /\ made' = Append(made, [at |-> now, value |-> v])

\* The token of a node that was provisioned or rotated; a message for a page
\* goes the same way.
ShowToken == PutFlash("other") /\ UNCHANGED <<now, secret, seen, since>>

\* Wrong variant: the password stays in the row until the page was shown.
RevealKeeps ==
    /\ PutFlash(IF secret # 0 THEN "password" ELSE "other")
    /\ UNCHANGED <<now, secret, seen, since>>

\* consumePlacementCredential empties the row, or there is only a message.
RevealPlacementCredential ==
    /\ PutFlash(IF secret # 0 THEN "password" ELSE "other")
    /\ secret' = 0
    /\ UNCHANGED <<now, seen, since>>

\* A page that names an entry is rendered.
TakeFlash(e) ==
    /\ store' = store \ {e}
    /\ seen' = IF now > e.expires THEN seen ELSE seen \cup {[id |-> e.id, at |-> now]}
    /\ UNCHANGED <<now, secret, puts, made, since>>

Restart ==
    /\ store # {}
    /\ store' = {} /\ since' = puts
    /\ UNCHANGED <<now, secret, puts, made, seen>>

Pass == now < MaxTime /\ now' = now + 1 /\ UNCHANGED <<store, secret, puts, made, seen, since>>

Next ==
    \/ ShowToken \/ RevealPlacementCredential
    \/ \E e \in store : TakeFlash(e)
    \/ Restart \/ Pass

Spec == Init /\ [][Next]_vars
-----------------------------------------------------------------------------
Taken(i) == \E s \in seen : s.id = i

\* A secret is shown at most once and only within the time to live of its entry,
\* whoever reloads the page, and a student's password leaves the database into
\* one entry at most.
ShownOnce ==
    /\ \A s, t \in seen : s.id = t.id => s = t
    /\ \A s \in seen : s.at <= made[s.id].at + Ttl
    /\ Cardinality({i \in 1..puts : made[i].value = "password"}) <= 1

\* Within its time to live a value waits for the page, unless it was shown, the
\* process was restarted, or as many entries as the store holds came after it;
\* and the store never holds more.
FlashWaits ==
    /\ Cardinality(store) <= MaxEntries
    /\ \A i \in since + 1..puts :
          now <= made[i].at + Ttl /\ puts - i < MaxEntries /\ ~Taken(i) =>
             \E e \in store : e.id = i /\ e.value = made[i].value
=============================================================================
