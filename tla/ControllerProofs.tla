--------------------------- MODULE ControllerProofs ---------------------------
(***************************************************************************)
(* Proofs about the parts of MCController, for every value of their        *)
(* constants: numbers, accounts and sessions, announcements, mail servers, *)
(* rate limits, secrets that are shown once, backups, upgrades, and logs   *)
(* with their alerts.                                                      *)
(***************************************************************************)
EXTENDS MCController, FiniteSetsExt, SequenceTheorems, FiniteSetTheorems, WellFoundedInduction, TLAPS

-----------------------------------------------------------------------------
(***************************************************************************)
(* Numbers.  That < is well-founded on them stands in for an induction.    *)
(***************************************************************************)
\* The order that makes an induction over numbers a search for the least one.
Below == {p \in Nat \X Nat : p[1] < p[2]}

\* A set of numbers that is not empty has a least one.
LEMMA LeastNatural ==
    ASSUME NEW T, T \subseteq Nat, T # {}
    PROVE  \E x \in T : \A y \in T : x <= y
<1>1. IsWellFoundedOn(Below, Nat)
  BY NatLessThanWellFounded DEF OpToRel, Below
<1>2. PICK x \in T : \A y \in T : ~ (<<y, x>> \in Below)
  BY <1>1, WFMin
<1>3. ASSUME NEW y \in T PROVE x <= y
  <2>1. x \in Nat /\ y \in Nat
    OBVIOUS
  <2>2. <<y, x>> \in Below <=> y < x
    BY <2>1 DEF Below
  <2> QED  BY <1>2, <2>1, <2>2
<1> QED  BY <1>3

\* Finitely many numbers have a bound.
LEMMA FiniteBound ==
    ASSUME NEW S, IsFiniteSet(S), S \subseteq Nat
    PROVE  \E b \in Nat : \A x \in S : x <= b
<1> DEFINE Sizes == {n \in Nat : \E G \in SUBSET S : Cardinality(G) = n /\ ~ \E b \in Nat : \A x \in G : x <= b}
<1>1. Sizes = {}
  <2>1. SUFFICES ASSUME Sizes # {} PROVE FALSE
    OBVIOUS
  <2>2. PICK n \in Sizes : \A m \in Sizes : n <= m
    BY <2>1, LeastNatural
  <2>3. PICK G \in SUBSET S : Cardinality(G) = n /\ ~ \E b \in Nat : \A x \in G : x <= b
    BY <2>2
  <2>4. G # {}
    BY <2>3
  <2>5. PICK y \in G : TRUE
    BY <2>4
  <2>6. IsFiniteSet(G) /\ n \in Nat /\ Cardinality(G \ {y}) = n - 1 /\ Cardinality(G) # 0
    BY <2>3, <2>4, <2>5, FS_Subset, FS_RemoveElement, FS_EmptySet
  <2>7. n - 1 \notin Sizes /\ n - 1 \in Nat
    BY <2>2, <2>3, <2>6
  <2>8. PICK b \in Nat : \A x \in G \ {y} : x <= b
    BY <2>6, <2>7
  <2>9. y \in Nat /\ G \subseteq Nat
    OBVIOUS
  <2>10. \A x \in G : x <= b + y
    BY <2>8, <2>9
  <2> QED  BY <2>3, <2>8, <2>9, <2>10
<1>2. Cardinality(S) \in Nat
  BY FS_CardinalityType
<1> QED  BY <1>1, <1>2

\* They have a greatest one, which Max is.
LEMMA MaxType ==
    ASSUME NEW S, IsFiniteSet(S), S \subseteq Nat, S # {}
    PROVE  Max(S) \in S /\ \A x \in S : x <= Max(S)
<1>1. PICK b \in Nat : \A x \in S : x <= b
  BY FiniteBound
<1> DEFINE Room == {n \in Nat : \E x \in S : n = b - x}
<1>2. Room # {} /\ Room \subseteq Nat
  <2>1. PICK x \in S : TRUE
    OBVIOUS
  <2>2. b - x \in Nat
    BY <1>1, <2>1
  <2> QED  BY <2>1, <2>2
<1>3. PICK n \in Room : \A m \in Room : n <= m
  BY <1>2, LeastNatural
<1>4. PICK x \in S : n = b - x
  BY <1>3
<1>5. \A y \in S : x >= y
  <2> TAKE y \in S
  <2>1. b - y \in Room
    BY <1>1
  <2>2. n <= b - y /\ x \in Nat /\ y \in Nat /\ n = b - x
    BY <1>3, <1>4, <2>1
  <2> HIDE DEF Room
  <2> QED  BY <2>2
<1>6. Max(S) \in S /\ \A y \in S : Max(S) >= y
  BY <1>5 DEF Max
<1> QED  BY <1>6

-----------------------------------------------------------------------------
(***************************************************************************)
(* Accounts and sessions.  A row's version counts the logoutAllSessions of *)
(* its admin, and a session has the version that counted those before it.  *)
(***************************************************************************)
Accounts == [mail : Mails, active : BOOLEAN, ver : 0..MaxBumps]
Requests == [step : {"idle", "hash", "compare", "issue", "sign", "gate"}, mail : Mails \cup {None},
             id : 0..MaxAdmins, ver : 0..MaxBumps, born : 0..MaxBumps]

\* A request and a session when there are n admins.
RequestFits(r, n) ==
    /\ r \in Requests
    /\ r.step = "hash" => r.mail \in Mails
    /\ r.step \in {"compare", "issue", "sign", "gate"} => r.id \in 1..n
    /\ r.step \in {"sign", "gate"} => r.ver = r.born

SessionFits(s, n) == s = None \/ (s \in A!Sessions /\ s.id \in 1..n /\ s.ver = s.born)

RowsFine ==
    /\ admins \in Seq(Accounts) /\ Len(admins) <= MaxAdmins
    /\ bumps \in Seq(0..MaxBumps) /\ Len(bumps) = Len(admins)
    /\ \A i \in 1..Len(admins) : admins[i].ver = bumps[i]
    /\ \A i, j \in 1..Len(admins) : admins[i].mail = admins[j].mail => i = j

SessionsFine ==
    /\ DOMAIN cookie = Browsers /\ DOMAIN req = Browsers
    /\ cookie = [b \in Browsers |-> cookie[b]] /\ req = [b \in Browsers |-> req[b]]
    /\ \A b \in Browsers : SessionFits(cookie[b], Len(admins)) /\ RequestFits(req[b], Len(admins))
    /\ ran = A!NoRun \/ ran \in A!Sessions

AccessInv == RowsFine /\ SessionsFine

\* What fits some admins fits more of them.
LEMMA FitsMore ==
    ASSUME NEW n \in Nat, NEW m \in Nat, n <= m
    PROVE  /\ \A r : RequestFits(r, n) => RequestFits(r, m)
           /\ \A s : SessionFits(s, n) => SessionFits(s, m)
<1>1. 1..n \subseteq 1..m
  OBVIOUS
<1> QED  BY <1>1 DEF RequestFits, SessionFits

\* There are no admins, no sessions and no requests.
LEMMA AccessBegins == A!Init => AccessInv
<1> SUFFICES ASSUME A!Init PROVE AccessInv
  OBVIOUS
<1>1. RowsFine
  BY ControllerAssumption DEF A!Init, RowsFine
<1>2. A!Idle \in Requests /\ A!Idle.step = "idle"
  BY ControllerAssumption DEF A!Idle, Requests
<1>3. RequestFits(A!Idle, Len(admins)) /\ SessionFits(None, Len(admins))
  BY <1>2 DEF RequestFits, SessionFits
<1>4. SessionsFine
  BY <1>3 DEF A!Init, SessionsFine
<1> QED  BY <1>1, <1>4 DEF AccessInv

\* The invariant says what the sessions need.
LEMMA AccessHolds ==
    ASSUME AccessInv
    PROVE  A!TypeOK /\ A!MailsUnique /\ A!FreshSessionsWork
<1>1. A!Ids = 1..Len(admins)
  BY DEF AccessInv, RowsFine, A!Ids
<1>2. \A b \in Browsers : cookie[b] # None =>
          cookie[b] \in A!Sessions /\ cookie[b].id \in A!Ids /\ cookie[b].ver = cookie[b].born
  BY <1>1 DEF AccessInv, SessionsFine, SessionFits
<1>3. \A b \in Browsers : /\ req[b].step \in {"compare", "issue", "sign", "gate"} => req[b].id \in A!Ids
                          /\ cookie[b] \in A!Sessions \cup {None}
  BY <1>1, <1>2 DEF AccessInv, SessionsFine, RequestFits
<1>4. cookie \in [Browsers -> A!Sessions \cup {None}]
  BY <1>3 DEF AccessInv, SessionsFine
<1>5. A!TypeOK
  BY <1>2, <1>3, <1>4 DEF AccessInv, RowsFine, SessionsFine, Accounts, A!TypeOK
<1>6. A!MailsUnique
  BY <1>1 DEF AccessInv, RowsFine, A!MailsUnique
<1>7. A!FreshSessionsWork
  BY <1>1, <1>2 DEF AccessInv, RowsFine, A!FreshSessionsWork, A!GateOpen
<1> QED  BY <1>5, <1>6, <1>7

\* A step of one browser that leaves the admins, and makes a request and a session that fit.
LEMMA BrowserMoves ==
    ASSUME AccessInv, NEW b \in Browsers, NEW r, NEW s,
           RequestFits(r, Len(admins)), SessionFits(s, Len(admins)),
           req' = [req EXCEPT ![b] = r], cookie' = [cookie EXCEPT ![b] = s],
           ran' = A!NoRun \/ ran' \in A!Sessions, UNCHANGED <<admins, bumps>>
    PROVE  AccessInv'
<1>1. RowsFine'
  BY DEF AccessInv, RowsFine
<1>2. /\ DOMAIN cookie' = Browsers /\ DOMAIN req' = Browsers
      /\ cookie' = [c \in Browsers |-> cookie'[c]] /\ req' = [c \in Browsers |-> req'[c]]
  BY DEF AccessInv, SessionsFine
<1>3. ASSUME NEW c \in Browsers
      PROVE  SessionFits(cookie'[c], Len(admins)) /\ RequestFits(req'[c], Len(admins))
  BY DEF AccessInv, SessionsFine
<1>4. SessionsFine'
  BY <1>2, <1>3 DEF SessionsFine
<1> QED  BY <1>1, <1>4 DEF AccessInv

\* A session that stays, a session that goes and an idle request always fit.
LEMMA FitsAlways ==
    ASSUME AccessInv, NEW b \in Browsers
    PROVE  /\ cookie = [cookie EXCEPT ![b] = cookie[b]] /\ SessionFits(cookie[b], Len(admins))
           /\ req = [req EXCEPT ![b] = req[b]] /\ RequestFits(req[b], Len(admins))
           /\ SessionFits(None, Len(admins)) /\ RequestFits(A!Idle, Len(admins))
           /\ req[b] \in Requests /\ Len(admins) \in Nat /\ 1..Len(admins) \subseteq 1..MaxAdmins
<1>1. A!Idle \in Requests /\ A!Idle.step = "idle"
  BY ControllerAssumption DEF A!Idle, Requests
<1>2. RequestFits(A!Idle, Len(admins)) /\ SessionFits(None, Len(admins))
  BY <1>1 DEF RequestFits, SessionFits
<1>3. SessionFits(cookie[b], Len(admins)) /\ RequestFits(req[b], Len(admins)) /\ req[b] \in Requests
  BY DEF AccessInv, SessionsFine, RequestFits
<1>4. cookie = [cookie EXCEPT ![b] = cookie[b]] /\ req = [req EXCEPT ![b] = req[b]]
  BY DEF AccessInv, SessionsFine
<1>5. Len(admins) \in Nat /\ 1..Len(admins) \subseteq 1..MaxAdmins
  BY ControllerAssumption DEF AccessInv, RowsFine
<1> QED  BY <1>2, <1>3, <1>4, <1>5

\* A signup begins when no admin has the address.
LEMMA SignupBegun ==
    ASSUME AccessInv, NEW b \in Browsers, NEW m \in Mails, A!SignupBegin(b, m)
    PROVE  AccessInv'
<1> DEFINE r == [A!Idle EXCEPT !.step = "hash", !.mail = m]
<1>1. req' = [req EXCEPT ![b] = r] /\ ran' = A!NoRun /\ UNCHANGED <<admins, cookie, bumps>>
  BY DEF A!SignupBegin
<1>2. r \in Requests /\ r.step = "hash" /\ r.mail \in Mails
  BY FitsAlways DEF RequestFits, Requests
<1>3. RequestFits(r, Len(admins))
  BY <1>2 DEF RequestFits
<1> HIDE DEF r
<1> QED  BY <1>1, <1>3, FitsAlways, BrowserMoves

\* Of the signups of one address the first to insert makes the admin.
LEMMA SignupInserted ==
    ASSUME AccessInv, NEW b \in Browsers, A!SignupInsert(b)
    PROVE  AccessInv'
<1>1. CASE A!Row(req[b].mail) # {} /\ req' = [req EXCEPT ![b] = A!Idle] /\ UNCHANGED <<admins, bumps>>
  <2>1. ran' = A!NoRun /\ cookie' = cookie
    BY DEF A!SignupInsert
  <2> QED  BY <1>1, <2>1, FitsAlways, BrowserMoves
<1>2. CASE /\ A!Row(req[b].mail) = {} /\ Len(admins) < MaxAdmins
           /\ admins' = Append(admins, [mail |-> req[b].mail, active |-> TRUE, ver |-> 0])
           /\ bumps' = Append(bumps, 0)
           /\ req' = [req EXCEPT ![b].step = "issue", ![b].id = Len(admins) + 1]
  <2> DEFINE row0 == [mail |-> req[b].mail, active |-> TRUE, ver |-> 0]
             n    == Len(admins)
             r    == [req[b] EXCEPT !.step = "issue", !.id = n + 1]
  <2>1. /\ req[b].step = "hash" /\ ran' = A!NoRun /\ cookie' = cookie
        /\ req[b] \in Requests /\ req[b].mail \in Mails /\ n \in Nat
    BY FitsAlways DEF A!SignupInsert, AccessInv, SessionsFine, RequestFits
  <2>2. row0 \in Accounts /\ row0.mail = req[b].mail /\ row0.ver = 0 /\ 0 \in 0..MaxBumps
    BY <2>1, ControllerAssumption DEF Accounts
  <2>3. \A i \in 1..n : admins[i].mail # req[b].mail
    BY <1>2 DEF A!Row, A!Ids, AccessInv, RowsFine
  <2> HIDE DEF row0
  <2>4. /\ admins' \in Seq(Accounts) /\ Len(admins') = n + 1 /\ admins'[n + 1] = row0
        /\ bumps' \in Seq(0..MaxBumps) /\ Len(bumps') = n + 1 /\ bumps'[n + 1] = 0
        /\ \A i \in 1..n : admins'[i] = admins[i] /\ bumps'[i] = bumps[i]
    BY <1>2, <2>2 DEF row0, AccessInv, RowsFine
  <2>5. \A i \in 1..n + 1 : i = n + 1 \/ i \in 1..n
    BY <2>1
  <2>6. /\ \A i \in 1..n + 1 : admins'[i].ver = bumps'[i]
        /\ \A i, j \in 1..n + 1 : admins'[i].mail = admins'[j].mail => i = j
    <3>1. /\ \A i \in 1..n : admins[i].ver = bumps[i]
          /\ \A i, j \in 1..n : admins[i].mail = admins[j].mail => i = j
      BY <1>2 DEF AccessInv, RowsFine
    <3>2. \A i \in 1..n + 1 : admins'[i].ver = bumps'[i]
      BY <2>2, <2>4, <2>5, <3>1
    <3>3. \A i \in 1..n : admins'[i].mail # admins'[n + 1].mail
      BY <2>2, <2>3, <2>4
    <3> QED  BY <2>4, <2>5, <3>1, <3>2, <3>3
  <2>7. n + 1 <= MaxAdmins
    BY <1>2, <2>1, ControllerAssumption
  <2>8. RowsFine'
    BY <2>4, <2>6, <2>7 DEF RowsFine
  <2>9. r \in Requests /\ r.step = "issue" /\ r.id = n + 1 /\ n + 1 \in 1..n + 1
    <3>1. n + 1 \in 0..MaxAdmins /\ n + 1 \in 1..n + 1
      BY <2>1, <2>7, ControllerAssumption
    <3> HIDE DEF n
    <3> QED  BY <2>1, <3>1 DEF Requests
  <2>10. RequestFits(r, n + 1)
    BY <2>9 DEF RequestFits
  <2>11. req' = [req EXCEPT ![b] = r]
    BY <1>2 DEF AccessInv, SessionsFine
  <2> HIDE DEF r, n
  <2>12. /\ DOMAIN cookie' = Browsers /\ DOMAIN req' = Browsers
         /\ cookie' = [c \in Browsers |-> cookie'[c]] /\ req' = [c \in Browsers |-> req'[c]]
    BY <2>1, <2>11 DEF AccessInv, SessionsFine
  <2>13. ASSUME NEW c \in Browsers
         PROVE  SessionFits(cookie'[c], n + 1) /\ RequestFits(req'[c], n + 1)
    <3>1. SessionFits(cookie[c], n) /\ RequestFits(req[c], n)
      BY DEF n, AccessInv, SessionsFine
    <3>2. SessionFits(cookie[c], n + 1) /\ RequestFits(req[c], n + 1)
      <4>1. n + 1 \in Nat /\ n <= n + 1
        BY <2>1
      <4> QED  BY <2>1, <3>1, <4>1, FitsMore
    <3> QED  BY <2>1, <2>10, <2>11, <3>2 DEF AccessInv, SessionsFine
  <2>14. SessionsFine'
    BY <2>1, <2>4, <2>12, <2>13 DEF SessionsFine
  <2> QED  BY <2>8, <2>14 DEF AccessInv
<1> QED  BY <1>1, <1>2 DEF A!SignupInsert

\* A login reads a row of an active admin, compares, and issues a session with the
\* version the row has then.
LEMMA LoginMoves ==
    ASSUME AccessInv, NEW b \in Browsers,
           \/ \E m \in Mails : A!LoginBegin(b, m)
           \/ \E ok \in BOOLEAN : A!LoginCompare(b, ok)
           \/ A!IssueSession(b) \/ A!SetSessionCookie(b) \/ A!LosesCookie(b)
    PROVE  AccessInv'
<1> DEFINE n == Len(admins)
<1>1. n \in Nat /\ req[b] \in Requests /\ RequestFits(req[b], n) /\ 1..n \subseteq 1..MaxAdmins
  BY FitsAlways
<1>2. /\ \A i \in 1..n : /\ i \in 0..MaxAdmins /\ i \in 1..MaxAdmins
                         /\ admins[i].ver \in 0..MaxBumps /\ admins[i].ver = bumps[i]
      /\ 0 \in 0..MaxBumps
  BY <1>1, ControllerAssumption DEF AccessInv, RowsFine, Accounts
<1>3. A!Ids = 1..n
  BY DEF AccessInv, RowsFine, A!Ids
<1> HIDE DEF n
<1>4. ASSUME NEW m \in Mails, A!LoginBegin(b, m)
      PROVE  AccessInv'
  <2>1. PICK i \in 1..n : req' = [req EXCEPT ![b] = [A!Idle EXCEPT !.step = "compare", !.mail = m, !.id = i,
                                                                   !.ver = admins[i].ver]]
    BY <1>3, <1>4 DEF A!LoginBegin, A!Row
  <2> DEFINE r == [A!Idle EXCEPT !.step = "compare", !.mail = m, !.id = i, !.ver = admins[i].ver]
  <2>2. r \in Requests /\ r.step = "compare" /\ r.id = i
    BY <1>2, FitsAlways DEF RequestFits, Requests
  <2>3. RequestFits(r, n)
    BY <2>2 DEF RequestFits
  <2>4. req' = [req EXCEPT ![b] = r] /\ ran' = A!NoRun /\ UNCHANGED <<admins, cookie, bumps>>
    BY <1>4, <2>1 DEF A!LoginBegin
  <2> HIDE DEF r
  <2> QED  BY <2>3, <2>4, FitsAlways, BrowserMoves DEF n
<1>5. ASSUME NEW ok \in BOOLEAN, A!LoginCompare(b, ok)
      PROVE  AccessInv'
  <2> DEFINE r == IF ok THEN [req[b] EXCEPT !.step = "issue"] ELSE A!Idle
  <2>1. /\ req[b].step = "compare" /\ req' = [req EXCEPT ![b] = r]
        /\ ran' = A!NoRun /\ UNCHANGED <<admins, cookie, bumps>>
    BY <1>5 DEF A!LoginCompare, AccessInv, SessionsFine
  <2>2. RequestFits(r, n)
    <3>1. CASE ok
      <4>1. r \in Requests /\ r.step = "issue" /\ r.id = req[b].id
        BY <1>1, <3>1 DEF Requests
      <4> QED  BY <1>1, <2>1, <4>1 DEF RequestFits
    <3>2. CASE ~ok
      BY <3>2, FitsAlways DEF n
    <3> QED  BY <3>1, <3>2
  <2> HIDE DEF r
  <2> QED  BY <2>1, <2>2, FitsAlways, BrowserMoves DEF n
<1>6. ASSUME A!IssueSession(b)
      PROVE  AccessInv'
  <2> DEFINE i == req[b].id
             r == [req[b] EXCEPT !.step = "sign", !.ver = bumps[i], !.born = bumps[i]]
  <2>1. i \in 1..n /\ A!TokenVersion(i) = bumps[i] /\ bumps[i] \in 0..MaxBumps
    BY <1>1, <1>2, <1>3, <1>6 DEF A!IssueSession, A!TokenVersion, RequestFits
  <2>2. /\ req' = [req EXCEPT ![b] = r]
        /\ ran' = A!NoRun /\ UNCHANGED <<admins, cookie, bumps>>
    BY <1>6, <2>1 DEF A!IssueSession, AccessInv, SessionsFine
  <2>3. r \in Requests /\ r.step = "sign" /\ r.id = i /\ r.ver = r.born
    BY <1>1, <2>1 DEF Requests
  <2>4. RequestFits(r, n)
    BY <2>1, <2>3 DEF RequestFits
  <2> HIDE DEF r
  <2> QED  BY <2>2, <2>4, FitsAlways, BrowserMoves DEF n
<1>7. ASSUME A!SetSessionCookie(b)
      PROVE  AccessInv'
  <2> DEFINE s == [id |-> req[b].id, ver |-> req[b].ver, born |-> req[b].born]
  <2>1. /\ req[b].step = "sign" /\ req' = [req EXCEPT ![b] = A!Idle] /\ cookie' = [cookie EXCEPT ![b] = s]
        /\ ran' = A!NoRun /\ UNCHANGED <<admins, bumps>>
    BY <1>7 DEF A!SetSessionCookie
  <2>2. s \in A!Sessions /\ s.id \in 1..n /\ s.ver = s.born
    BY <1>1, <1>2, <2>1 DEF RequestFits, Requests, A!Sessions
  <2>3. SessionFits(s, n)
    BY <2>2 DEF SessionFits
  <2> HIDE DEF s
  <2> QED  BY <2>1, <2>3, FitsAlways, BrowserMoves DEF n
<1>8. ASSUME A!LosesCookie(b)
      PROVE  AccessInv'
  <2>1. /\ cookie' = [cookie EXCEPT ![b] = None] /\ ran' = A!NoRun /\ UNCHANGED <<admins, req, bumps>>
    BY <1>8 DEF A!LosesCookie
  <2> QED  BY <2>1, FitsAlways, BrowserMoves
<1> QED  BY <1>4, <1>5, <1>6, <1>7, <1>8

\* The gate compares the session with the row as it is: an action runs on a session
\* that was issued since the last logout, for an active admin.
LEMMA GatePassed ==
    ASSUME AccessInv, NEW b \in Browsers, A!CurrentAdmin(b) \/ A!RequireAdmin(b) \/ A!RequireAdminPage(b)
    PROVE  /\ AccessInv'
           /\ ran' # A!NoRun => admins[ran'.id].active /\ ran'.born = bumps[ran'.id]
<1> DEFINE n == Len(admins)
<1>1. /\ n \in Nat /\ req[b] \in Requests /\ RequestFits(req[b], n) /\ SessionFits(cookie[b], n)
      /\ 1..n \subseteq 1..MaxAdmins
  BY FitsAlways
<1>2. \A i \in 1..n : i \in 0..MaxAdmins /\ admins[i].ver = bumps[i]
  BY <1>1, ControllerAssumption DEF AccessInv, RowsFine
<1> HIDE DEF n
<1>3. CASE A!CurrentAdmin(b)
  <2> DEFINE r == [A!Idle EXCEPT !.step = "gate", !.id = cookie[b].id, !.ver = cookie[b].ver, !.born = cookie[b].born]
  <2>1. /\ cookie[b] # None /\ req' = [req EXCEPT ![b] = r]
        /\ ran' = A!NoRun /\ UNCHANGED <<admins, cookie, bumps>>
    BY <1>3 DEF A!CurrentAdmin, A!ProxyPasses
  <2>2. r \in Requests /\ r.step = "gate" /\ r.id \in 1..n /\ r.ver = r.born
    BY <1>1, <1>2, <2>1, FitsAlways DEF SessionFits, A!Sessions, RequestFits, Requests
  <2>3. RequestFits(r, n)
    BY <2>2 DEF RequestFits
  <2> HIDE DEF r
  <2>4. AccessInv'
    BY <2>1, <2>3, FitsAlways, BrowserMoves DEF n
  <2> QED  BY <2>1, <2>4
<1>4. CASE A!RequireAdminPage(b)
  <2>1. req' = [req EXCEPT ![b] = A!Idle] /\ ran' = A!NoRun /\ UNCHANGED <<admins, cookie, bumps>>
    BY <1>4 DEF A!RequireAdminPage
  <2>2. AccessInv'
    BY <2>1, FitsAlways, BrowserMoves
  <2> QED  BY <2>1, <2>2
<1>5. CASE A!RequireAdmin(b) /\ A!GateOpen(req[b])
  <2>1. /\ req[b].step = "gate" /\ req' = [req EXCEPT ![b] = A!Idle]
        /\ ran' = [id |-> req[b].id, ver |-> req[b].ver, born |-> req[b].born]
        /\ UNCHANGED <<admins, cookie, bumps>>
    BY <1>5 DEF A!RequireAdmin
  <2>2. req[b].id \in 1..n /\ req[b].ver = req[b].born
    BY <1>1, <2>1 DEF RequestFits
  <2>3. ran' \in A!Sessions
    BY <1>1, <2>1, <2>2 DEF Requests, A!Sessions
  <2>4. AccessInv'
    BY <2>1, <2>3, FitsAlways, BrowserMoves
  <2>5. ran'.id = req[b].id /\ ran'.born = req[b].ver
    BY <2>1, <2>2
  <2> QED  BY <1>2, <1>5, <2>2, <2>4, <2>5 DEF A!GateOpen
<1>6. CASE A!RequireAdmin(b) /\ ~A!GateOpen(req[b])
  <2>1. /\ req' = [req EXCEPT ![b] = A!Idle] /\ ran' = A!NoRun /\ cookie' = [cookie EXCEPT ![b] = None]
        /\ UNCHANGED <<admins, bumps>>
    BY <1>6 DEF A!RequireAdmin
  <2>2. AccessInv'
    BY <2>1, FitsAlways, BrowserMoves
  <2> QED  BY <2>1, <2>2
<1> QED  BY <1>3, <1>4, <1>5, <1>6

\* The version and the count of logouts go up together; who is active changes nothing else.
LEMMA AdminChanged ==
    ASSUME AccessInv, NEW i \in A!Ids, A!LogoutAllSessions(i) \/ \E a \in BOOLEAN : A!SetAdminActive(i, a)
    PROVE  AccessInv' /\ ran' = A!NoRun
<1> DEFINE n == Len(admins)
<1>1. /\ i \in 1..n /\ admins \in Seq(Accounts) /\ admins[i] \in Accounts /\ bumps \in Seq(0..MaxBumps)
      /\ Len(bumps) = n /\ bumps[i] \in 0..MaxBumps /\ bumps[i] \in Nat /\ admins[i].ver = bumps[i]
      /\ bumps = [bumps EXCEPT ![i] = bumps[i]]
  <2>1. i \in 1..n /\ admins \in Seq(Accounts) /\ bumps \in Seq(0..MaxBumps) /\ Len(bumps) = n
    BY DEF AccessInv, RowsFine, A!Ids
  <2>2. bumps[i] \in 0..MaxBumps /\ admins[i] \in Accounts
    <3>1. i \in 1..Len(bumps) /\ i \in 1..Len(admins)
      BY <2>1
    <3>2. bumps[i] \in 0..MaxBumps
      BY <2>1, <3>1, ElementOfSeq
    <3>3. admins[i] \in Accounts
      BY <2>1, <3>1
    <3> QED  BY <3>2, <3>3
  <2>3. bumps = [bumps EXCEPT ![i] = bumps[i]]
    BY <2>1
  <2> QED  BY <2>1, <2>2, <2>3, ControllerAssumption DEF AccessInv, RowsFine
<1>2. PICK x \in Accounts, k \in 0..MaxBumps :
         /\ admins' = [admins EXCEPT ![i] = x] /\ bumps' = [bumps EXCEPT ![i] = k]
         /\ x.ver = k /\ x.mail = admins[i].mail
  <2>1. CASE A!LogoutAllSessions(i)
    <3> DEFINE x == [admins[i] EXCEPT !.ver = @ + 1]
               k == bumps[i] + 1
    <3>1. bumps[i] < MaxBumps /\ admins' = [admins EXCEPT ![i] = x] /\ bumps' = [bumps EXCEPT ![i] = k]
      BY <1>1, <2>1 DEF A!LogoutAllSessions
    <3>2. k \in 0..MaxBumps
      BY <1>1, <3>1, ControllerAssumption
    <3>3. x \in Accounts /\ x.ver = k /\ x.mail = admins[i].mail
      BY <1>1, <3>2 DEF Accounts
    <3> HIDE DEF x, k
    <3> QED  BY <3>1, <3>2, <3>3
  <2>2. ASSUME NEW a \in BOOLEAN, A!SetAdminActive(i, a)
        PROVE  \E x \in Accounts, k \in 0..MaxBumps :
                  /\ admins' = [admins EXCEPT ![i] = x] /\ bumps' = [bumps EXCEPT ![i] = k]
                  /\ x.ver = k /\ x.mail = admins[i].mail
    <3> DEFINE x == [admins[i] EXCEPT !.active = a]
    <3>1. admins' = [admins EXCEPT ![i] = x] /\ bumps' = bumps
      BY <2>2 DEF A!SetAdminActive
    <3>2. x \in Accounts /\ x.ver = bumps[i] /\ x.mail = admins[i].mail
      BY <1>1 DEF Accounts
    <3> HIDE DEF x
    <3> QED  BY <1>1, <3>1, <3>2
  <2> QED  BY <2>1, <2>2
<1>3. ran' = A!NoRun /\ UNCHANGED <<cookie, req>>
  BY DEF A!LogoutAllSessions, A!SetAdminActive
<1>4. /\ admins' \in Seq(Accounts) /\ Len(admins') = n /\ bumps' \in Seq(0..MaxBumps) /\ Len(bumps') = n
      /\ \A j \in 1..n : /\ admins'[j] = IF j = i THEN x ELSE admins[j]
                         /\ bumps'[j] = IF j = i THEN k ELSE bumps[j]
  BY <1>1, <1>2
<1>5. RowsFine'
  BY <1>1, <1>2, <1>4 DEF AccessInv, RowsFine
<1>6. SessionsFine'
  BY <1>3, <1>4 DEF AccessInv, SessionsFine
<1> QED  BY <1>3, <1>5, <1>6 DEF AccessInv

\* A restart ends the requests.
LEMMA AccessRestarted ==
    ASSUME AccessInv, A!Restart
    PROVE  AccessInv' /\ ran' = A!NoRun
<1>1. req' = [b \in Browsers |-> A!Idle] /\ ran' = A!NoRun /\ UNCHANGED <<admins, cookie, bumps>>
  BY DEF A!Restart
<1>2. \A b \in Browsers : RequestFits(A!Idle, Len(admins))
  BY FitsAlways
<1>3. RowsFine' /\ SessionsFine'
  BY <1>1, <1>2 DEF AccessInv, RowsFine, SessionsFine
<1> QED  BY <1>1, <1>3 DEF AccessInv

\* No action runs unless a gate let it.
LEMMA AccessStep ==
    ASSUME AccessInv, A!Next
    PROVE  /\ AccessInv'
           /\ ran' # A!NoRun => admins[ran'.id].active /\ ran'.born = bumps[ran'.id]
<1>1. CASE \E b \in Browsers, m \in Mails : A!SignupBegin(b, m)
  BY <1>1, SignupBegun DEF A!SignupBegin
<1>2. CASE \E b \in Browsers : A!SignupInsert(b)
  BY <1>2, SignupInserted DEF A!SignupInsert
<1>3. CASE \E b \in Browsers : \/ \E m \in Mails : A!LoginBegin(b, m)
                               \/ \E ok \in BOOLEAN : A!LoginCompare(b, ok)
                               \/ A!IssueSession(b) \/ A!SetSessionCookie(b) \/ A!LosesCookie(b)
  <2>1. ran' = A!NoRun
    BY <1>3 DEF A!LoginBegin, A!LoginCompare, A!IssueSession, A!SetSessionCookie, A!LosesCookie
  <2> QED  BY <1>3, <2>1, LoginMoves
<1>4. CASE \E b \in Browsers : A!CurrentAdmin(b) \/ A!RequireAdmin(b) \/ A!RequireAdminPage(b)
  BY <1>4, GatePassed
<1>5. CASE \E i \in A!Ids : A!LogoutAllSessions(i) \/ \E a \in BOOLEAN : A!SetAdminActive(i, a)
  BY <1>5, AdminChanged
<1>6. CASE A!Restart
  BY <1>6, AccessRestarted
<1> QED  BY <1>1, <1>2, <1>3, <1>4, <1>5, <1>6 DEF A!Next

\* Sessions are sound: signups of one address make one admin however they overlap;
\* a session works until its admin is disabled or logged out everywhere; and no action
\* runs on a session from before a logoutAllSessions, nor for a disabled admin.
THEOREM SessionsAreSound == Spec => SessionsSound
<1> DEFINE I == part = "access" => AccessInv
           Q == part = "access" => A!TypeOK /\ A!MailsUnique /\ A!FreshSessionsWork
<1>1. Init => I
  BY AccessBegins DEF Init
<1>2. I /\ [Next]_vars => I' /\ [ran' # A!NoRun => admins[ran'.id].active /\ ran'.born = bumps[ran'.id]]_(A!vars)
  <2> SUFFICES ASSUME I, [Next]_vars
               PROVE  I' /\ [ran' # A!NoRun => admins[ran'.id].active /\ ran'.born = bumps[ran'.id]]_(A!vars)
    OBVIOUS
  <2>1. CASE part = "access" /\ A!Next
    BY <2>1, AccessStep
  <2>2. CASE part' = part /\ UNCHANGED accessVars
    <3>1. UNCHANGED <<admins, cookie, req, bumps, ran>>
      BY <2>2 DEF accessVars
    <3>2. AccessInv => AccessInv'
      BY <3>1 DEF AccessInv, RowsFine, SessionsFine
    <3> QED  BY <2>2, <3>1, <3>2 DEF A!vars
  <2> QED  BY <2>1, <2>2 DEF Next, vars
<1>3. I => Q
  BY AccessHolds
<1> QED  BY <1>1, <1>2, <1>3, PTL DEF Spec, SessionsSound, A!RevokedStaysOut

-----------------------------------------------------------------------------
(***************************************************************************)
(* Announcements.  What was delivered is counted by the announcement it    *)
(* belongs to: in progress, in the history, or in neither any more.        *)
(***************************************************************************)
Copies  == [to : N!Addresses, via : {"any"}]
Sending == [id : Nat, to : SUBSET Copies, todo : SUBSET Copies, sent : Nat, skipped : BOOLEAN]
History == [id : Nat, recipients : Nat, sent : Nat, skipped : BOOLEAN]

CopiesOf(x) == {g \in got : g.id = x}

AnnTyped ==
    /\ students \subseteq People /\ pis \subseteq N!Addresses /\ smtp \in BOOLEAN /\ serial \in Nat
    /\ DOMAIN send = Admins /\ \A a \in Admins : send[a] # NoSend => send[a] \in Sending
    /\ rows \subseteq History
    /\ got \subseteq [id : Nat, to : Copies] /\ IsFiniteSet(got)

\* An announcement has one number.
AnnNumbered ==
    /\ \A a \in Admins : send[a] # NoSend => send[a].id \in 1..serial
    /\ \A r \in rows : r.id \in 1..serial
    /\ \A g \in got : g.id \in 1..serial
    /\ \A a, b \in Admins : a # b /\ send[a] # NoSend /\ send[b] # NoSend => send[a].id # send[b].id
    /\ \A a \in Admins, r \in rows : send[a] # NoSend => send[a].id # r.id
    /\ \A r, q \in rows : r.id = q.id => r = q

\* What was sent is what was delivered, to recipients that are not waiting for it.
AnnCounted ==
    /\ \A a \in Admins : send[a] # NoSend =>
          /\ send[a].todo \subseteq send[a].to
          /\ send[a].sent = Cardinality(CopiesOf(send[a].id))
          /\ \A g \in got : g.id = send[a].id => g.to \notin send[a].todo
          /\ send[a].sent + Cardinality(send[a].todo) <= Cardinality(send[a].to)
          /\ send[a].skipped => send[a].todo = {} /\ send[a].sent = 0
    /\ \A r \in rows : /\ r.sent = Cardinality(CopiesOf(r.id)) /\ r.sent <= r.recipients
                       /\ r.skipped => r.sent = 0

AnnKept ==
    \A g \in got : \/ g.id \in rowless \/ \E r \in rows : r.id = g.id
                   \/ \E a \in Admins : send[a] # NoSend /\ send[a].id = g.id

AnnInv == AnnTyped /\ AnnNumbered /\ AnnCounted /\ AnnKept

\* An announcement in progress is one.
LEMMA NoSendOther == NoSend \notin Sending
  BY PeopleAssumption DEF Sending, Copies

\* There are finitely many recipients.
LEMMA CopiesFinite == IsFiniteSet(Copies) /\ \A S \in SUBSET Copies : IsFiniteSet(S) /\ Cardinality(S) \in Nat
<1> DEFINE P == People \X (Spellings \cup {"low"})
           f == [c \in Copies |-> <<c.to.who, c.to.as>>]
<1>1. IsFiniteSet(Spellings \cup {"low"}) /\ IsFiniteSet(P)
  BY PeopleAssumption, FS_AddElement, FS_Product
<1>2. f \in Injection(Copies, P)
  <2>1. f \in [Copies -> P]
    BY DEF Copies, N!Addresses
  <2>2. ASSUME NEW c \in Copies, NEW d \in Copies, f[c] = f[d]
        PROVE  c = d
    BY <2>2 DEF Copies, N!Addresses
  <2> QED  BY <2>1, <2>2 DEF Injection, IsInjective
<1>3. IsFiniteSet(Copies)
  BY <1>1, <1>2, FS_Injection
<1> QED  BY <1>3, FS_Subset, FS_CardinalityType

\* The history and the delivered copies begin empty.
LEMMA AnnBegins == N!Init => AnnInv
<1> SUFFICES ASSUME N!Init PROVE AnnInv
  OBVIOUS
<1>1. /\ students = {} /\ pis = {} /\ smtp \in BOOLEAN /\ send = [a \in Admins |-> NoSend]
      /\ rows = {} /\ serial = 0 /\ got = {} /\ rowless = {}
  BY DEF N!Init
<1> QED  BY <1>1, FS_EmptySet DEF AnnInv, AnnTyped, AnnNumbered, AnnCounted, AnnKept

\* The invariant says what the history needs.
LEMMA AnnHolds ==
    ASSUME AnnInv
    PROVE  N!TypeOK /\ N!HistoryTrue
<1>1. \A x : N!Cardinality({g \in got : g.id = x}) = Cardinality(CopiesOf(x))
  BY DEF N!Cardinality, Cardinality, CopiesOf
<1>2. N!TypeOK
  BY DEF AnnInv, AnnTyped, AnnNumbered, AnnCounted, N!TypeOK
<1>3. \A r \in rows : r.sent = N!Cardinality({g \in got : g.id = r.id}) /\ (r.skipped => r.sent = 0)
  BY <1>1 DEF AnnInv, AnnCounted
<1>4. \A r, q \in rows : r.id = q.id => r = q
  BY DEF AnnInv, AnnNumbered
<1>5. \A a \in Admins : send[a] # NoSend =>
          /\ send[a].sent = N!Cardinality({g \in got : g.id = send[a].id})
          /\ \A b \in Admins \ {a} : send[b] # NoSend => send[a].id # send[b].id
  <2> TAKE a \in Admins
  <2> HAVE send[a] # NoSend
  <2>1. send[a].sent = Cardinality(CopiesOf(send[a].id))
    BY DEF AnnInv, AnnCounted
  <2>2. N!Cardinality({g \in got : g.id = send[a].id}) = Cardinality(CopiesOf(send[a].id))
    BY <1>1
  <2>3. \A b \in Admins \ {a} : send[b] # NoSend => send[a].id # send[b].id
    BY DEF AnnInv, AnnNumbered
  <2> QED  BY <2>1, <2>2, <2>3
<1>6. \A g \in got : \/ g.id \in rowless \cup {r.id : r \in rows}
                     \/ \E a \in Admins : send[a] # NoSend /\ send[a].id = g.id
  BY DEF AnnInv, AnnKept
<1> QED  BY <1>2, <1>3, <1>4, <1>5, <1>6 DEF N!HistoryTrue

\* With one spelling an address is a person's, and a copy is one of a kind.
LEMMA OneSpelling ==
    ASSUME AnnInv, Spellings \subseteq {"low"}
    PROVE  N!OneCopyEach
<1>1. Spellings \cup {"low"} = {"low"}
  OBVIOUS
<1>2. \A r, q \in N!Addresses : r.who = q.who => r = q
  BY <1>1 DEF N!Addresses
<1>3. \A c, d \in Copies : c.to.who = d.to.who => c = d
  BY <1>2 DEF Copies
<1>4. \A g, h \in got : g.id = h.id /\ g.to = h.to => g = h
  BY DEF AnnInv, AnnTyped
<1>5. \A g \in got : g.to \in Copies
  BY DEF AnnInv, AnnTyped
<1> QED  BY <1>3, <1>4, <1>5 DEF N!OneCopyEach

\* An announcement begins with recipients, a number of its own and nothing delivered.
LEMMA AnnouncementBegun ==
    ASSUME AnnInv, NEW admin \in Admins, NEW au \in SUBSET N!Audiences, NEW p \in SUBSET N!Addresses,
           N!SendAnnouncement(admin, au, p)
    PROVE  AnnInv'
<1> DEFINE to == N!Recipients(au, p)
           td == IF smtp THEN to ELSE {}
           s0 == [id |-> serial + 1, to |-> to, todo |-> td, sent |-> 0, skipped |-> ~smtp]
<1>1. /\ send[admin] = NoSend /\ serial' = serial + 1 /\ send' = [send EXCEPT ![admin] = s0]
      /\ UNCHANGED <<students, pis, smtp, rows, got, rowless>>
  BY DEF N!SendAnnouncement, N!roster
<1>2. to \in SUBSET Copies
  <2>1. \A a \in au : N!AudienceRecipients(a) \subseteq N!Addresses
    BY DEF N!AudienceRecipients, N!Low, N!Addresses, AnnInv, AnnTyped
  <2>2. \A r \in p \cup UNION {N!AudienceRecipients(a) : a \in au} : r \in N!Addresses
    BY <2>1
  <2> QED  BY <2>2 DEF N!Recipients, Copies
<1> HIDE DEF to
<1>3. /\ s0 \in Sending /\ s0.id = serial + 1 /\ s0.to = to /\ s0.todo \subseteq to /\ s0.sent = 0
      /\ s0.todo \in SUBSET Copies /\ (s0.skipped => s0.todo = {})
  <2>1. td \subseteq to /\ (~smtp => td = {})
    OBVIOUS
  <2>2. serial + 1 \in Nat /\ (~smtp) \in BOOLEAN
    BY DEF AnnInv, AnnTyped
  <2> HIDE DEF td
  <2> QED  BY <1>2, <2>1, <2>2 DEF Sending
<1> HIDE DEF s0, td
<1>4. serial \in Nat /\ 1..serial \subseteq 1..serial + 1 /\ serial + 1 \in 1..serial + 1 /\ serial + 1 \notin 1..serial
  BY DEF AnnInv, AnnTyped
<1>5. \A a \in Admins : send'[a] = IF a = admin THEN s0 ELSE send[a]
  BY <1>1 DEF AnnInv, AnnTyped
<1>6. AnnTyped'
  BY <1>1, <1>3, <1>4, <1>5 DEF AnnInv, AnnTyped
<1>7. AnnNumbered'
  BY <1>1, <1>3, <1>4, <1>5 DEF AnnInv, AnnNumbered
<1>8. \A x : CopiesOf(x)' = CopiesOf(x)
  BY <1>1 DEF CopiesOf
<1>9. CopiesOf(serial + 1) = {} /\ \A g \in got : g.id # serial + 1
  BY <1>4 DEF CopiesOf, AnnInv, AnnNumbered
<1>10. s0.sent + Cardinality(s0.todo) <= Cardinality(s0.to) /\ s0.sent = Cardinality(CopiesOf(serial + 1))
  <2>1. /\ Cardinality(s0.todo) <= Cardinality(to) /\ Cardinality(s0.todo) \in Nat
        /\ Cardinality(to) \in Nat
    BY <1>2, <1>3, CopiesFinite, FS_Subset
  <2>2. s0.sent = 0 /\ s0.to = to
    BY <1>3
  <2>3. Cardinality(CopiesOf(serial + 1)) = 0
    BY <1>9, FS_EmptySet
  <2> QED  BY <2>1, <2>2, <2>3
<1>11. AnnCounted'
  <2>1. ASSUME NEW a \in Admins, send'[a] # NoSend
        PROVE  /\ send'[a].todo \subseteq send'[a].to
               /\ send'[a].sent = Cardinality(CopiesOf(send'[a].id))
               /\ \A g \in got : g.id = send'[a].id => g.to \notin send'[a].todo
               /\ send'[a].sent + Cardinality(send'[a].todo) <= Cardinality(send'[a].to)
               /\ send'[a].skipped => send'[a].todo = {} /\ send'[a].sent = 0
    <3>1. CASE a = admin
      BY <1>3, <1>5, <1>9, <1>10, <3>1
    <3>2. CASE a # admin
      BY <1>5, <2>1, <3>2 DEF AnnInv, AnnCounted
    <3> QED  BY <3>1, <3>2
  <2>2. \A r \in rows : r.sent = Cardinality(CopiesOf(r.id)) /\ r.sent <= r.recipients /\ (r.skipped => r.sent = 0)
    BY DEF AnnInv, AnnCounted
  <2> QED  BY <1>1, <1>8, <2>1, <2>2 DEF AnnCounted, CopiesOf
<1>12. AnnKept'
  BY <1>1, <1>5 DEF AnnInv, AnnKept
<1> QED  BY <1>6, <1>7, <1>11, <1>12 DEF AnnInv

\* A mail that ends leaves one recipient less to wait for, and is counted when it was
\* delivered.
LEMMA MailEnded ==
    ASSUME AnnInv, NEW admin \in Admins, NEW r, NEW ok \in BOOLEAN, N!MailEnds(admin, r, ok)
    PROVE  AnnInv'
<1> DEFINE x  == send[admin].id
           c  == [id |-> x, to |-> r]
           s1 == [send[admin] EXCEPT !.todo = @ \ {r}, !.sent = N!CountMail(send[admin], ok)]
<1>1. /\ send[admin] # NoSend /\ send[admin] \in Sending /\ r \in send[admin].todo /\ r \in Copies
      /\ send' = [send EXCEPT ![admin] = s1]
      /\ got' = IF ok THEN got \cup {c} ELSE got
      /\ UNCHANGED <<students, pis, smtp, rows, serial, rowless>>
  BY DEF N!MailEnds, N!roster, AnnInv, AnnTyped, Sending
<1>2. /\ send[admin].sent \in Nat /\ send[admin].todo \subseteq send[admin].to /\ x \in Nat
      /\ send[admin].sent = Cardinality(CopiesOf(x)) /\ x \in 1..serial
      /\ \A g \in got : g.id = x => g.to \notin send[admin].todo
      /\ send[admin].sent + Cardinality(send[admin].todo) <= Cardinality(send[admin].to)
      /\ ~send[admin].skipped
  BY <1>1 DEF AnnInv, AnnTyped, AnnNumbered, AnnCounted, Sending
<1>3. /\ s1 \in Sending /\ s1.id = x /\ s1.to = send[admin].to /\ s1.todo = send[admin].todo \ {r}
      /\ s1.sent = (IF ok THEN send[admin].sent + 1 ELSE send[admin].sent) /\ ~s1.skipped
  <2>1. N!CountMail(send[admin], ok) = (IF ok THEN send[admin].sent + 1 ELSE send[admin].sent)
    BY <1>2 DEF N!CountMail
  <2>2. N!CountMail(send[admin], ok) \in Nat
    BY <1>2, <2>1
  <2> QED  BY <1>1, <1>2, <2>1, <2>2 DEF Sending
<1> HIDE DEF s1
<1>4. \A a \in Admins : send'[a] = IF a = admin THEN s1 ELSE send[a]
  BY <1>1 DEF AnnInv, AnnTyped
<1>5. c \in [id : Nat, to : Copies] /\ c.id = x /\ c.to = r /\ c \notin got
  BY <1>1, <1>2
<1> HIDE DEF c
<1>6. AnnTyped'
  <2>1. got' \subseteq [id : Nat, to : Copies] /\ IsFiniteSet(got')
    BY <1>1, <1>5, FS_AddElement DEF AnnInv, AnnTyped
  <2> QED  BY <1>1, <1>3, <1>4, <2>1 DEF AnnInv, AnnTyped
<1>7. s1 # NoSend
  BY <1>3, NoSendOther
<1>8. AnnNumbered'
  <2>1. \A a \in Admins : send'[a] # NoSend => send[a] # NoSend /\ send'[a].id = send[a].id
    BY <1>1, <1>3, <1>4
  <2>2. \A g \in got' : g.id \in 1..serial
    BY <1>1, <1>2, <1>5 DEF AnnInv, AnnNumbered
  <2> QED  BY <1>1, <2>1, <2>2 DEF AnnInv, AnnNumbered
<1> DEFINE K(y) == {g \in got' : g.id = y}
<1>9. /\ \A y : y # x => K(y) = CopiesOf(y)
      /\ K(x) = IF ok THEN CopiesOf(x) \cup {c} ELSE CopiesOf(x)
  BY <1>1, <1>5 DEF CopiesOf
<1>10. Cardinality(K(x)) = s1.sent
  <2>1. IsFiniteSet(CopiesOf(x)) /\ c \notin CopiesOf(x)
    <3>1. CopiesOf(x) \in SUBSET got
      BY DEF CopiesOf
    <3> QED  BY <1>5, <3>1, FS_Subset DEF AnnInv, AnnTyped
  <2>2. Cardinality(CopiesOf(x) \cup {c}) = Cardinality(CopiesOf(x)) + 1
    BY <2>1, FS_AddElement
  <2> QED  BY <1>2, <1>3, <1>9, <2>2
<1>11. /\ s1.todo \subseteq s1.to /\ s1.sent + Cardinality(s1.todo) <= Cardinality(s1.to)
       /\ \A g \in got' : g.id = x => g.to \notin s1.todo
  <2>1. IsFiniteSet(send[admin].todo) /\ Cardinality(send[admin].todo) \in Nat /\ Cardinality(send[admin].to) \in Nat
    BY <1>1, CopiesFinite DEF Sending
  <2>2. Cardinality(s1.todo) = Cardinality(send[admin].todo) - 1
    <3>1. Cardinality(send[admin].todo \ {r}) = Cardinality(send[admin].todo) - 1
      BY <1>1, <2>1, FS_RemoveElement
    <3> QED  BY <1>3, <3>1
  <2>3. s1.sent + Cardinality(s1.todo) <= Cardinality(s1.to)
    BY <1>2, <1>3, <2>1, <2>2
  <2>4. \A g \in got' : g.id = x => g.to \notin s1.todo
    BY <1>1, <1>2, <1>3, <1>5
  <2> QED  BY <1>2, <1>3, <2>3, <2>4
<1>12. AnnCounted'
  <2>1. ASSUME NEW a \in Admins, send'[a] # NoSend
        PROVE  /\ send'[a].todo \subseteq send'[a].to
               /\ send'[a].sent = Cardinality(K(send'[a].id))
               /\ \A g \in got' : g.id = send'[a].id => g.to \notin send'[a].todo
               /\ send'[a].sent + Cardinality(send'[a].todo) <= Cardinality(send'[a].to)
               /\ send'[a].skipped => send'[a].todo = {} /\ send'[a].sent = 0
    <3>1. CASE a = admin
      BY <1>3, <1>4, <1>10, <1>11, <3>1
    <3>2. CASE a # admin
      <4>1. send'[a] = send[a] /\ send[a] # NoSend /\ send[a].id # x
        BY <1>1, <1>4, <2>1, <3>2 DEF AnnInv, AnnNumbered
      <4>2. K(send[a].id) = CopiesOf(send[a].id) /\ \A g \in got' : g.id = send[a].id => g \in got
        BY <1>1, <1>5, <1>9, <4>1
      <4> HIDE DEF K
      <4> QED  BY <4>1, <4>2 DEF AnnInv, AnnCounted
    <3> QED  BY <3>1, <3>2
  <2>2. ASSUME NEW q \in rows
        PROVE  q.sent = Cardinality(K(q.id)) /\ q.sent <= q.recipients /\ (q.skipped => q.sent = 0)
    <3>1. q.id # x
      BY <1>1 DEF AnnInv, AnnNumbered
    <3>2. K(q.id) = CopiesOf(q.id)
      BY <1>9, <3>1
    <3> HIDE DEF K
    <3> QED  BY <3>2 DEF AnnInv, AnnCounted
  <2> QED  BY <1>1, <2>1, <2>2 DEF AnnCounted, CopiesOf
<1>13. AnnKept'
  BY <1>1, <1>3, <1>4, <1>5, <1>7 DEF AnnInv, AnnKept
<1> QED  BY <1>6, <1>8, <1>12, <1>13 DEF AnnInv

\* The row that ends an announcement has its number and its count.
LEMMA AnnouncementRecorded ==
    ASSUME AnnInv, NEW admin \in Admins, N!RecordAnnouncement(admin)
    PROVE  AnnInv'
<1> DEFINE s0 == send[admin]
           r0 == [id |-> s0.id, recipients |-> Cardinality(s0.to), sent |-> s0.sent, skipped |-> s0.skipped]
<1>1. /\ s0 # NoSend /\ s0.todo = {} /\ rows' = rows \cup {r0} /\ send' = [send EXCEPT ![admin] = NoSend]
      /\ UNCHANGED <<students, pis, smtp, serial, got, rowless>>
  <2>1. N!Cardinality(s0.to) = Cardinality(s0.to)
    BY DEF N!Cardinality, Cardinality
  <2> QED  BY <2>1 DEF N!RecordAnnouncement, N!roster
<1>2. /\ s0 \in Sending /\ s0.id \in 1..serial /\ s0.sent = Cardinality(CopiesOf(s0.id)) /\ s0.sent \in Nat
      /\ s0.sent + Cardinality({}) <= Cardinality(s0.to) /\ (s0.skipped => s0.sent = 0)
      /\ s0.to \in SUBSET Copies
  BY <1>1 DEF AnnInv, AnnTyped, AnnNumbered, AnnCounted, Sending
<1>3. /\ r0 \in History /\ r0.id = s0.id /\ r0.sent = s0.sent /\ r0.sent <= r0.recipients
      /\ (r0.skipped => r0.sent = 0)
  <2>1. Cardinality(s0.to) \in Nat /\ Cardinality({}) = 0
    BY <1>2, CopiesFinite, FS_EmptySet
  <2>2. s0.id \in Nat /\ s0.skipped \in BOOLEAN /\ s0.sent <= Cardinality(s0.to)
    BY <1>2, <2>1 DEF Sending
  <2> QED  BY <1>2, <2>1, <2>2 DEF History
<1> HIDE DEF r0
<1>4. \A a \in Admins : send'[a] = IF a = admin THEN NoSend ELSE send[a]
  BY <1>1 DEF AnnInv, AnnTyped
<1>5. \A r \in rows : r.id # s0.id
  BY <1>1 DEF AnnInv, AnnNumbered
<1>6. AnnTyped'
  BY <1>1, <1>3, <1>4 DEF AnnInv, AnnTyped
<1>7. \A a \in Admins : send'[a] # NoSend => a # admin /\ send[a] # NoSend /\ send'[a] = send[a] /\ send[a].id # s0.id
  BY <1>1, <1>4 DEF AnnInv, AnnNumbered
<1>8. AnnNumbered'
  BY <1>1, <1>2, <1>3, <1>5, <1>7 DEF AnnInv, AnnNumbered
<1>9. \A x : {g \in got' : g.id = x} = CopiesOf(x)
  BY <1>1 DEF CopiesOf
<1>10. AnnCounted'
  <2>1. \A r \in rows' : /\ r.sent = Cardinality(CopiesOf(r.id)) /\ r.sent <= r.recipients
                         /\ r.skipped => r.sent = 0
    BY <1>1, <1>2, <1>3 DEF AnnInv, AnnCounted
  <2>2. \A a \in Admins : send'[a] # NoSend =>
          /\ send'[a].todo \subseteq send'[a].to
          /\ send'[a].sent = Cardinality(CopiesOf(send'[a].id))
          /\ \A g \in got' : g.id = send'[a].id => g.to \notin send'[a].todo
          /\ send'[a].sent + Cardinality(send'[a].todo) <= Cardinality(send'[a].to)
          /\ send'[a].skipped => send'[a].todo = {} /\ send'[a].sent = 0
    BY <1>1, <1>7 DEF AnnInv, AnnCounted
  <2> QED  BY <1>9, <2>1, <2>2 DEF AnnCounted, CopiesOf
<1>11. AnnKept'
  BY <1>1, <1>3, <1>4 DEF AnnInv, AnnKept
<1> QED  BY <1>6, <1>8, <1>10, <1>11 DEF AnnInv

\* What is deleted from the history is known to be.
LEMMA HistoryDeleted ==
    ASSUME AnnInv, N!ClearAnnouncements \/ \E r \in rows : N!DeleteAnnouncement(r)
    PROVE  AnnInv'
<1>1. /\ rows' \subseteq rows /\ \A r \in rows : r \in rows' \/ r.id \in rowless'
      /\ rowless \subseteq rowless' /\ UNCHANGED <<students, pis, smtp, send, serial, got>>
  <2>1. CASE N!ClearAnnouncements
    BY <2>1 DEF N!ClearAnnouncements, N!roster
  <2>2. ASSUME NEW r \in rows, N!DeleteAnnouncement(r)
        PROVE  /\ rows' \subseteq rows /\ \A q \in rows : q \in rows' \/ q.id \in rowless'
               /\ rowless \subseteq rowless' /\ UNCHANGED <<students, pis, smtp, send, serial, got>>
    BY <2>2 DEF N!DeleteAnnouncement, N!roster
  <2> QED  BY <2>1, <2>2
<1>2. AnnTyped' /\ AnnNumbered'
  BY <1>1 DEF AnnInv, AnnTyped, AnnNumbered
<1>3. AnnCounted'
  BY <1>1 DEF AnnInv, AnnCounted, CopiesOf
<1>4. AnnKept'
  BY <1>1 DEF AnnInv, AnnKept
<1> QED  BY <1>2, <1>3, <1>4 DEF AnnInv

\* The roster and the mail settings change under announcements that have begun.
LEMMA RosterMoves ==
    ASSUME AnnInv,
           \/ \E who \in People : N!Enrols(who)
           \/ \E p, q \in [who : People, as : Spellings] : N!PiChanges(p, q)
           \/ N!SmtpChanges
    PROVE  AnnInv'
<1>1. /\ students' \subseteq People /\ pis' \subseteq N!Addresses /\ smtp' \in BOOLEAN
      /\ UNCHANGED <<send, rows, serial, got, rowless>>
  <2>1. ASSUME NEW who \in People, N!Enrols(who)
        PROVE  /\ students' \subseteq People /\ UNCHANGED <<pis, smtp, send, rows, serial, got, rowless>>
    BY <2>1 DEF N!Enrols, AnnInv, AnnTyped
  <2>2. ASSUME NEW p \in [who : People, as : Spellings], NEW q \in [who : People, as : Spellings], N!PiChanges(p, q)
        PROVE  /\ pis' \subseteq N!Addresses /\ UNCHANGED <<students, smtp, send, rows, serial, got, rowless>>
    <3>1. q \in N!Addresses
      BY DEF N!Addresses
    <3> QED  BY <2>2, <3>1 DEF N!PiChanges, AnnInv, AnnTyped
  <2>3. CASE N!SmtpChanges
    BY <2>3 DEF N!SmtpChanges, AnnInv, AnnTyped
  <2> QED  BY <2>1, <2>2, <2>3 DEF AnnInv, AnnTyped
<1>2. AnnTyped' /\ AnnNumbered'
  BY <1>1 DEF AnnInv, AnnTyped, AnnNumbered
<1>3. AnnCounted' /\ AnnKept'
  BY <1>1 DEF AnnInv, AnnCounted, AnnKept, CopiesOf
<1> QED  BY <1>2, <1>3 DEF AnnInv

\* A restart cuts announcements off, which is known of them.
LEMMA AnnouncementsCut ==
    ASSUME AnnInv, N!Restart
    PROVE  AnnInv'
<1>1. /\ send' = [a \in Admins |-> NoSend] /\ rowless \subseteq rowless'
      /\ \A a \in Admins : send[a] # NoSend => send[a].id \in rowless'
      /\ UNCHANGED <<students, pis, smtp, rows, serial, got>>
  BY DEF N!Restart, N!roster
<1>2. \A a \in Admins : send'[a] = NoSend
  BY <1>1
<1>3. AnnTyped' /\ AnnNumbered'
  BY <1>1, <1>2 DEF AnnInv, AnnTyped, AnnNumbered
<1>4. AnnCounted'
  BY <1>1, <1>2 DEF AnnInv, AnnCounted, CopiesOf
<1>5. AnnKept'
  BY <1>1 DEF AnnInv, AnnKept
<1> QED  BY <1>3, <1>4, <1>5 DEF AnnInv

\* While announcements take their turn their invariant holds.
LEMMA AnnouncementsRun ==
    /\ Init => (part = "announcements" => AnnInv)
    /\ (part = "announcements" => AnnInv) /\ [Next]_vars => (part = "announcements" => AnnInv)'
<1>1. Init => (part = "announcements" => AnnInv)
  BY AnnBegins DEF Init
<1>2. ASSUME AnnInv, N!Next
      PROVE  AnnInv'
  <2>1. CASE \E a \in Admins, au \in SUBSET N!Audiences, p \in SUBSET N!Addresses : N!SendAnnouncement(a, au, p)
    BY <1>2, <2>1, AnnouncementBegun
  <2>2. CASE \E a \in Admins : send[a] # NoSend /\ \E r \in send[a].todo, ok \in BOOLEAN : N!MailEnds(a, r, ok)
    BY <1>2, <2>2, MailEnded
  <2>3. CASE \E a \in Admins : N!RecordAnnouncement(a)
    BY <1>2, <2>3, AnnouncementRecorded
  <2>4. CASE N!ClearAnnouncements \/ \E r \in rows : N!DeleteAnnouncement(r)
    BY <1>2, <2>4, HistoryDeleted
  <2>5. CASE \/ \E who \in People : N!Enrols(who)
             \/ \E p, q \in [who : People, as : Spellings] : N!PiChanges(p, q)
             \/ N!SmtpChanges
    BY <1>2, <2>5, RosterMoves
  <2>6. CASE N!Restart
    BY <1>2, <2>6, AnnouncementsCut
  <2> QED  BY <1>2, <2>1, <2>2, <2>3, <2>4, <2>5, <2>6 DEF N!Next
<1>3. ASSUME part = "announcements" => AnnInv, [Next]_vars, part' = "announcements"
      PROVE  AnnInv'
  <2>1. CASE part = "announcements" /\ N!Next
    BY <1>2, <1>3, <2>1
  <2>2. CASE part = "announcements" /\ UNCHANGED annVars
    <3>1. UNCHANGED <<students, pis, smtp, send, rows, serial, got, rowless>>
      BY <2>2 DEF annVars
    <3>2. AnnInv
      BY <1>3, <2>2
    <3>3. AnnTyped' /\ AnnNumbered'
      BY <3>1, <3>2 DEF AnnInv, AnnTyped, AnnNumbered
    <3>4. AnnCounted' /\ AnnKept'
      BY <3>1, <3>2 DEF AnnInv, AnnCounted, AnnKept, CopiesOf
    <3> QED  BY <3>3, <3>4 DEF AnnInv
  <2> QED  BY <1>3, <2>1, <2>2 DEF Next, vars
<1> QED  BY <1>1, <1>3

\* Announcements are told truly, if addresses are spelled in one way: a person gets one
\* copy, a row counts what was delivered, and what was delivered has its row, is on its
\* way, was cut off by a restart or had its row deleted.
THEOREM AnnouncementsAreTrue == Spellings \subseteq {"low"} => (Spec => []AnnouncementsTrue)
<1> SUFFICES ASSUME Spellings \subseteq {"low"}
             PROVE  Spec => []AnnouncementsTrue
  OBVIOUS
<1> DEFINE I == part = "announcements" => AnnInv
<1>1. I => AnnouncementsTrue
  BY AnnHolds, OneSpelling DEF AnnouncementsTrue
<1> QED  BY <1>1, AnnouncementsRun, PTL DEF Spec

\* The history is true however addresses are spelled.
THEOREM HistoryIsTrue == Spec => [](part = "announcements" => N!TypeOK /\ N!HistoryTrue)
<1> DEFINE I == part = "announcements" => AnnInv
<1>1. I => (part = "announcements" => N!TypeOK /\ N!HistoryTrue)
  BY AnnHolds
<1> QED  BY <1>1, AnnouncementsRun, PTL DEF Spec

-----------------------------------------------------------------------------
(***************************************************************************)
(* Mail servers.  What is stored for a server is the password last typed   *)
(* for it, or nothing after the key changed; what is stored under another  *)
(* key belongs to a server whose password was typed before the change; a   *)
(* server that is not listed was deleted or never had a password.          *)
(***************************************************************************)
Known  == Passwords \cup {M!Unset}
Stored == [key : Keys \cup {M!Plain}, val : Known]
Kept   == [rank : Nat \ {0}, pass : Stored, usable : BOOLEAN]
Listed == [rank : Nat \ {0}, pass : Known, usable : BOOLEAN]

KeyFits(s, p) == p.key \in {M!Plain, secret} \/ s \in turned
PassFits(s, pass) == pass = given[s] \/ (s \in turned /\ pass = M!Unset)

MailTyped ==
    /\ row = NoRow \/ \E D \in SUBSET M!Servers : row \in [D -> Kept]
    /\ old = NoRow \/ old \in Stored
    /\ secret \in Keys
    /\ given \in [M!Servers -> Known]
    /\ turned \in SUBSET M!Servers /\ dropped \in SUBSET M!Servers

ListKept ==
    row # NoRow =>
       /\ \A s \in DOMAIN row : /\ s \notin dropped
                                /\ PassFits(s, row[s].pass.val) /\ KeyFits(s, row[s].pass)
       /\ \A s \in M!Servers \ DOMAIN row : s \in dropped \/ given[s] = M!Unset

OldKept ==
    row = NoRow =>
       /\ dropped = {}
       /\ old = NoRow => given[M!Legacy] = M!Unset
       /\ old # NoRow => PassFits(M!Legacy, old.val) /\ KeyFits(M!Legacy, old)
       /\ \A s \in M!Servers \ {M!Legacy} : given[s] = M!Unset

\* The servers that took a mail were tried, and are as many as answers were lost.
MailTried ==
    /\ mail.step \in {"none", "trying", "sent", "failed", "skipped"}
    /\ mail = [step |-> mail.step, todo |-> mail.todo, all |-> mail.all]
    /\ mail.all \in SUBSET M!Servers /\ DOMAIN mail.todo \subseteq mail.all
    /\ mail.step = "trying" <=> DOMAIN mail.todo # {}
    /\ took.lost \in Nat /\ took.by \subseteq mail.all \ DOMAIN mail.todo
    /\ Cardinality(took.by) = took.lost + (IF mail.step = "sent" THEN 1 ELSE 0)

MailInv == MailTyped /\ ListKept /\ OldKept /\ MailTried

\* A list as it is decrypted, and what it keeps.
ListFits(c) ==
    /\ \E D \in SUBSET M!Servers : c \in [D -> Listed]
    /\ \A s \in DOMAIN c : s \notin dropped /\ PassFits(s, c[s].pass)
    /\ \A s \in M!Servers \ DOMAIN c : s \in dropped \/ given[s] = M!Unset

\* A password that fits its server is read as one that fits it.
LEMMA DecryptFits ==
    ASSUME NEW s \in M!Servers, NEW p \in Stored, PassFits(s, p.val), KeyFits(s, p)
    PROVE  M!DecryptSecret(p) \in Known /\ PassFits(s, M!DecryptSecret(p))
<1>1. p.val \in Known /\ M!Unset \in Known
  BY DEF Stored, Known
<1>2. CASE p.key \in {M!Plain, secret}
  <2>1. M!DecryptSecret(p) = p.val
    BY <1>2 DEF M!DecryptSecret
  <2> QED  BY <1>1, <2>1
<1>3. CASE p.key \notin {M!Plain, secret}
  <2>1. M!DecryptSecret(p) = M!Unset /\ s \in turned
    BY <1>3 DEF M!DecryptSecret, KeyFits
  <2> QED  BY <1>1, <2>1 DEF PassFits
<1> QED  BY <1>2, <1>3

\* The list that the code reads, from the row or from the old settings, fits.
LEMMA ConfigsFit ==
    ASSUME MailInv
    PROVE  ListFits(M!GetSmtpConfigs)
<1> DEFINE c == M!GetSmtpConfigs
<1>1. CASE row # NoRow
  <2>1. c = [s \in DOMAIN row |-> [row[s] EXCEPT !.pass = M!DecryptSecret(@)]]
    BY <1>1 DEF M!GetSmtpConfigs
  <2>2. PICK D \in SUBSET M!Servers : row \in [D -> Kept]
    BY <1>1 DEF MailInv, MailTyped
  <2> HIDE DEF c
  <2>3. DOMAIN row = D /\ DOMAIN c = D
    BY <2>1, <2>2
  <2>4. ASSUME NEW s \in D
        PROVE  c[s] \in Listed /\ s \notin dropped /\ PassFits(s, c[s].pass)
    <3>1. row[s] \in Kept /\ row[s].pass \in Stored
      BY <2>2 DEF Kept
    <3>2. s \notin dropped /\ PassFits(s, row[s].pass.val) /\ KeyFits(s, row[s].pass)
      BY <1>1, <2>3 DEF MailInv, ListKept
    <3>3. M!DecryptSecret(row[s].pass) \in Known /\ PassFits(s, M!DecryptSecret(row[s].pass))
      BY <3>1, <3>2, DecryptFits
    <3>4. c[s] = [row[s] EXCEPT !.pass = M!DecryptSecret(row[s].pass)]
      BY <2>1, <2>3
    <3>5. c[s] \in Listed /\ c[s].pass = M!DecryptSecret(row[s].pass)
      BY <3>1, <3>3, <3>4 DEF Kept, Listed
    <3> QED  BY <3>2, <3>3, <3>5
  <2>5. c \in [D -> Listed]
    BY <2>1, <2>3, <2>4
  <2>6. \A s \in M!Servers \ D : s \in dropped \/ given[s] = M!Unset
    BY <1>1, <2>3 DEF MailInv, ListKept
  <2> QED  BY <2>3, <2>4, <2>5, <2>6 DEF ListFits, c
<1>2. CASE row = NoRow /\ old # NoRow
  <2> DEFINE one == [rank |-> 1, pass |-> M!DecryptSecret(old), usable |-> TRUE]
  <2>1. c = [s \in {M!Legacy} |-> one]
    BY <1>2 DEF M!GetSmtpConfigs
  <2>2. M!Legacy \in M!Servers
    BY MailAssumption DEF M!Legacy, M!Servers
  <2>3. /\ old \in Stored /\ dropped = {} /\ PassFits(M!Legacy, old.val) /\ KeyFits(M!Legacy, old)
        /\ \A s \in M!Servers \ {M!Legacy} : given[s] = M!Unset
    BY <1>2 DEF MailInv, MailTyped, OldKept
  <2>4. M!DecryptSecret(old) \in Known /\ PassFits(M!Legacy, M!DecryptSecret(old))
    BY <2>2, <2>3, DecryptFits
  <2>5. one \in Listed /\ one.pass = M!DecryptSecret(old)
    BY <2>4 DEF Listed
  <2> HIDE DEF one, c
  <2>6. c \in [{M!Legacy} -> Listed] /\ DOMAIN c = {M!Legacy} /\ c[M!Legacy] = one
    BY <2>1, <2>5
  <2>7. {M!Legacy} \in SUBSET M!Servers
    BY <2>2
  <2>8. \A s \in DOMAIN c : s \notin dropped /\ PassFits(s, c[s].pass)
    BY <2>3, <2>4, <2>5, <2>6
  <2> QED  BY <2>3, <2>6, <2>7, <2>8 DEF ListFits, c
<1>3. CASE row = NoRow /\ old = NoRow
  <2>1. c = [s \in {} |-> {}]
    BY <1>3 DEF M!GetSmtpConfigs
  <2> HIDE DEF c
  <2>2. c \in [{} -> Listed] /\ DOMAIN c = {} /\ {} \in SUBSET M!Servers
    BY <2>1
  <2>3. \A s \in M!Servers : given[s] = M!Unset
    BY <1>3 DEF MailInv, OldKept
  <2> QED  BY <2>2, <2>3 DEF ListFits, c
<1> QED  BY <1>1, <1>2, <1>3

\* Every server of a list is stored with a password that fits and the key of the day.
LEMMA EncryptFits ==
    ASSUME NEW pass \in Known, secret \in Keys
    PROVE  /\ M!EncryptSecret(pass) \in Stored /\ M!EncryptSecret(pass).val = pass
           /\ M!EncryptSecret(pass).key \in {M!Plain, secret}
<1>1. CASE pass = M!Unset
  BY <1>1 DEF M!EncryptSecret, M!Blank, Stored, Known
<1>2. CASE pass # M!Unset
  BY <1>2 DEF M!EncryptSecret, Stored, Known
<1> QED  BY <1>1, <1>2

\* A form that writes a list that fits keeps the invariant.
LEMMA ListWritten ==
    ASSUME MailInv, NEW c, ListFits(c)', M!SetSmtpConfigs(c),
           UNCHANGED <<old, secret, mail, took>>,
           given' \in [M!Servers -> Known], turned' \subseteq M!Servers, dropped' \subseteq M!Servers
    PROVE  MailInv'
<1>1. secret \in Keys
  BY DEF MailInv, MailTyped
<1>2. PICK D \in SUBSET M!Servers : c \in [D -> Listed]
  BY DEF ListFits
<1>3. row' = [s \in D |-> [c[s] EXCEPT !.pass = M!EncryptSecret(@)]]
  BY <1>2 DEF M!SetSmtpConfigs
<1>4. ASSUME NEW s \in D
      PROVE  /\ row'[s] \in Kept /\ row'[s].pass.val = c[s].pass
             /\ row'[s].pass.key \in {M!Plain, secret}
  <2>1. c[s] \in Listed /\ c[s].pass \in Known
    BY <1>2 DEF Listed
  <2>2. row'[s] = [c[s] EXCEPT !.pass = M!EncryptSecret(c[s].pass)]
    BY <1>3
  <2>3. /\ M!EncryptSecret(c[s].pass) \in Stored /\ M!EncryptSecret(c[s].pass).val = c[s].pass
        /\ M!EncryptSecret(c[s].pass).key \in {M!Plain, secret}
    BY <1>1, <2>1, EncryptFits
  <2>4. row'[s] \in Kept /\ row'[s].pass = M!EncryptSecret(c[s].pass)
    BY <2>1, <2>2, <2>3 DEF Kept, Listed
  <2> QED  BY <2>3, <2>4
<1>5. row' \in [D -> Kept] /\ DOMAIN row' = D /\ DOMAIN c = D
  BY <1>2, <1>3, <1>4
<1>6. row' # NoRow
  BY <1>5, MailAssumption DEF Kept, Stored, Known
<1>7. MailTyped'
  BY <1>5 DEF MailInv, MailTyped
<1>8. ListKept'
  BY <1>4, <1>5 DEF ListFits, ListKept, KeyFits, PassFits
<1>9. OldKept'
  BY <1>6 DEF OldKept
<1>10. MailTried'
  BY DEF MailInv, MailTried
<1> QED  BY <1>7, <1>8, <1>9, <1>10 DEF MailInv

\* A rank that is not given is one more than the greatest.
LEMMA RankTyped ==
    ASSUME NEW c, NEW D \in SUBSET M!Servers, c \in [D -> Listed], NEW s, NEW rank \in 0..MaxRank
    PROVE  M!RankToSave(c, s, rank) \in Nat \ {0}
<1>1. 0..MaxRank \subseteq Nat
  BY MailAssumption
<1>2. \A t \in D : c[t].rank \in Nat \ {0}
  BY DEF Listed
<1> DEFINE ranks == {0} \cup {c[t].rank : t \in D}
<1>3. ranks \subseteq Nat /\ ranks # {} /\ IsFiniteSet(ranks)
  <2>1. IsFiniteSet(D)
    <3>1. 1 \in Int /\ MaxServer \in Int
      BY MailAssumption
    <3>2. IsFiniteSet(M!Servers)
      BY <3>1, FS_Interval DEF M!Servers
    <3> QED  BY <3>2, FS_Subset
  <2> DEFINE rankOf == [t \in D |-> c[t].rank]
             used == {c[t].rank : t \in D}
  <2>2. rankOf \in Surjection(D, used)
    BY DEF Surjection
  <2>3. IsFiniteSet(used)
    BY <2>1, <2>2, FS_Surjection
  <2> HIDE DEF used
  <2>4. IsFiniteSet(used \cup {0}) /\ {0} \cup used = used \cup {0}
    BY <2>3, FS_AddElement
  <2> QED  BY <1>2, <2>4 DEF used
<1>4. M!Max(ranks) = Max(ranks)
  BY DEF M!Max, Max
<1>5. Max(ranks) \in Nat
  BY <1>3, MaxType
<1> HIDE DEF ranks
<1>6. 1 + M!Max(ranks) \in Nat \ {0}
  BY <1>4, <1>5
<1>7. DOMAIN c = D
  OBVIOUS
<1>8. M!RankToSave(c, s, rank) =
        IF rank # 0 THEN rank ELSE IF s \in D THEN c[s].rank ELSE 1 + M!Max(ranks)
  BY <1>7 DEF M!RankToSave, ranks
<1> QED  BY <1>1, <1>2, <1>6, <1>8

\* A server that is saved has the password that was typed, or the one it had.
LEMMA MailServerSaved ==
    ASSUME MailInv, NEW s \in M!Servers, NEW rank \in 0..MaxRank, NEW pass \in Known,
           NEW usable \in BOOLEAN, M!SaveSmtpSettings(s, rank, pass, usable)
    PROVE  MailInv'
<1>1. PICK c : c = M!GetSmtpConfigs
  OBVIOUS
<1>2. ListFits(c)
  BY <1>1, ConfigsFit
<1>3. PICK D \in SUBSET M!Servers : c \in [D -> Listed]
  BY <1>2 DEF ListFits
<1> DEFINE one == [rank |-> M!RankToSave(c, s, rank), pass |-> M!PassToSave(c, s, pass),
                   usable |-> usable]
           more == [t \in D \cup {s} |-> IF t = s THEN one ELSE c[t]]
<1>4. DOMAIN c = D
  BY <1>3
<1>5. /\ M!SetSmtpConfigs(more)
      /\ given' = [given EXCEPT ![s] = IF pass # M!Unset THEN pass
                                       ELSE IF s \in dropped THEN M!Unset ELSE given[s]]
      /\ turned' = IF pass # M!Unset THEN turned \ {s} ELSE turned
      /\ dropped' = dropped \ {s}
      /\ UNCHANGED <<old, secret, mail, took>>
  BY <1>1, <1>4 DEF M!SaveSmtpSettings
<1>6. /\ given \in [M!Servers -> Known] /\ turned \subseteq M!Servers /\ dropped \subseteq M!Servers
      /\ M!Unset \in Known
  BY DEF MailInv, MailTyped, Known
<1>7. given' \in [M!Servers -> Known] /\ turned' \subseteq M!Servers /\ dropped' \subseteq M!Servers
  BY <1>5, <1>6
<1>8. \A t \in M!Servers \ {s} : given'[t] = given[t] /\ (t \in turned' <=> t \in turned)
                                 /\ (t \in dropped' <=> t \in dropped)
  BY <1>5, <1>6
<1>9. one.pass \in Known /\ PassFits(s, one.pass)' /\ s \notin dropped'
  <2>1. one.pass = M!PassToSave(c, s, pass)
    OBVIOUS
  <2> HIDE DEF one, more
  <2>2. CASE pass # M!Unset
    <3>1. one.pass = pass /\ given'[s] = pass
      BY <1>5, <1>6, <2>1, <2>2 DEF M!PassToSave
    <3> QED  BY <1>5, <3>1 DEF PassFits
  <2>3. CASE pass = M!Unset /\ s \in D
    <3>1. one.pass = c[s].pass /\ c[s].pass \in Known
      BY <1>3, <1>4, <2>1, <2>3 DEF M!PassToSave, Listed
    <3>2. s \notin dropped /\ PassFits(s, c[s].pass)
      BY <1>2, <1>4, <2>3 DEF ListFits
    <3>3. given'[s] = given[s] /\ turned' = turned
      BY <1>5, <1>6, <2>3, <3>2
    <3> QED  BY <1>5, <3>1, <3>2, <3>3 DEF PassFits
  <2>4. CASE pass = M!Unset /\ s \notin D
    <3>1. one.pass = M!Unset
      BY <1>4, <2>1, <2>4 DEF M!PassToSave
    <3>2. given'[s] = M!Unset
      BY <1>2, <1>4, <1>5, <1>6, <2>4 DEF ListFits
    <3> QED  BY <1>5, <1>6, <3>1, <3>2 DEF PassFits
  <2> QED  BY <2>2, <2>3, <2>4
<1>10. one \in Listed
  <2>1. one.rank \in Nat \ {0}
    BY <1>3, RankTyped
  <2> QED  BY <1>9, <2>1 DEF Listed
<1> HIDE DEF one
<1>11. more \in [D \cup {s} -> Listed] /\ DOMAIN more = D \cup {s} /\ D \cup {s} \in SUBSET M!Servers
  BY <1>3, <1>10
<1>12. \A t \in D \cup {s} : more[t] = IF t = s THEN one ELSE c[t]
  OBVIOUS
<1> HIDE DEF more
<1>13. PICK m : m = more
  OBVIOUS
<1>14. ListFits(m)'
  <2>1. \A t \in DOMAIN m : t \notin dropped' /\ PassFits(t, m[t].pass)'
    <3> TAKE t \in DOMAIN m
    <3>1. CASE t = s
      BY <1>9, <1>11, <1>12, <1>13, <3>1
    <3>2. CASE t # s
      <4>1. t \in D /\ m[t] = c[t] /\ t \in M!Servers
        BY <1>11, <1>12, <1>13, <3>2
      <4>2. t \notin dropped /\ PassFits(t, c[t].pass)
        BY <1>2, <1>4, <4>1 DEF ListFits
      <4> QED  BY <1>8, <3>2, <4>1, <4>2 DEF PassFits
    <3> QED  BY <3>1, <3>2
  <2>2. \A t \in M!Servers \ DOMAIN m : t \in dropped' \/ given'[t] = M!Unset
    BY <1>2, <1>4, <1>8, <1>11, <1>13 DEF ListFits
  <2> QED  BY <1>11, <1>13, <2>1, <2>2 DEF ListFits
<1> QED  BY <1>5, <1>7, <1>13, <1>14, ListWritten

\* A server that is deleted is out of the list, and the list stays written.
LEMMA MailServerDeleted ==
    ASSUME MailInv, NEW s \in M!Servers, M!DeleteSmtpSettings(s)
    PROVE  MailInv'
<1>1. PICK c : c = M!GetSmtpConfigs
  OBVIOUS
<1>2. ListFits(c)
  BY <1>1, ConfigsFit
<1>3. PICK D \in SUBSET M!Servers : c \in [D -> Listed]
  BY <1>2 DEF ListFits
<1>4. DOMAIN c = D
  BY <1>3
<1>5. PICK m : m = [t \in D \ {s} |-> c[t]]
  OBVIOUS
<1>6. /\ M!SetSmtpConfigs(m) /\ dropped' = dropped \cup {s}
      /\ UNCHANGED <<old, secret, mail, took, given, turned>>
  BY <1>1, <1>4, <1>5 DEF M!DeleteSmtpSettings
<1>7. /\ given \in [M!Servers -> Known] /\ turned \subseteq M!Servers /\ dropped \subseteq M!Servers
  BY DEF MailInv, MailTyped
<1>8. m \in [D \ {s} -> Listed] /\ DOMAIN m = D \ {s} /\ D \ {s} \in SUBSET M!Servers
  BY <1>3, <1>5
<1>9. ListFits(m)'
  <2>1. \A t \in DOMAIN m : t \notin dropped' /\ PassFits(t, m[t].pass)'
    BY <1>2, <1>4, <1>5, <1>6, <1>8 DEF ListFits, PassFits
  <2>2. \A t \in M!Servers \ DOMAIN m : t \in dropped' \/ given'[t] = M!Unset
    BY <1>2, <1>4, <1>6, <1>8 DEF ListFits
  <2> QED  BY <1>8, <2>1, <2>2 DEF ListFits
<1> QED  BY <1>6, <1>7, <1>9, ListWritten

\* Starting again forgets the mail, and another key the passwords.
LEMMA MailRestarted ==
    ASSUME MailInv, NEW k \in Keys, M!Restart(k)
    PROVE  MailInv'
<1>1. /\ secret' = k /\ turned' = IF k = secret THEN turned ELSE M!Servers
      /\ mail' = M!NoMail /\ took' = M!NoTook /\ UNCHANGED <<row, old, given, dropped>>
  BY DEF M!Restart
<1>2. MailTyped'
  BY <1>1 DEF MailInv, MailTyped
<1>3. /\ \A s \in M!Servers, p \in Stored : KeyFits(s, p) => KeyFits(s, p)'
      /\ \A s \in M!Servers, p \in Known : PassFits(s, p) => PassFits(s, p)'
  BY <1>1 DEF KeyFits, PassFits
<1>4. ListKept'
  <2> SUFFICES ASSUME row # NoRow PROVE ListKept'
    BY <1>1 DEF ListKept
  <2>1. PICK D \in SUBSET M!Servers : row \in [D -> Kept]
    BY DEF MailInv, MailTyped
  <2>2. \A s \in DOMAIN row : row[s].pass \in Stored /\ row[s].pass.val \in Known /\ s \in M!Servers
    BY <2>1 DEF Kept, Stored
  <2>3. \A s \in DOMAIN row : PassFits(s, row[s].pass.val)' /\ KeyFits(s, row[s].pass)'
    <3> TAKE s \in DOMAIN row
    <3>1. PassFits(s, row[s].pass.val) /\ KeyFits(s, row[s].pass)
      BY DEF MailInv, ListKept
    <3>2. row'[s] = row[s]
      BY <1>1
    <3> QED  BY <1>1, <3>1, <3>2, <2>2 DEF KeyFits, PassFits
  <2> QED  BY <1>1, <2>3 DEF MailInv, ListKept
<1>5. OldKept'
  <2>1. M!Legacy \in M!Servers
    BY MailAssumption DEF M!Legacy, M!Servers
  <2> QED  BY <1>1, <2>1 DEF MailInv, OldKept, KeyFits, PassFits
<1>6. MailTried'
  <2>1. DOMAIN M!NoServers = {} /\ {} \subseteq M!Servers
    BY DEF M!NoServers
  <2>2. Cardinality({}) = 0
    BY FS_EmptySet
  <2> QED  BY <1>1, <2>1, <2>2 DEF MailTried, M!NoMail, M!NoTook
<1> QED  BY <1>2, <1>4, <1>5, <1>6 DEF MailInv

\* What a mail does not touch.
LEMMA MailSettingsStay ==
    ASSUME MailInv, UNCHANGED <<row, old, secret, given, turned, dropped>>
    PROVE  MailTyped' /\ ListKept' /\ OldKept'
<1>1. MailTyped'
  BY DEF MailInv, MailTyped
<1>2. ListKept'
  BY DEF MailInv, ListKept, KeyFits, PassFits
<1>3. OldKept'
  BY DEF MailInv, OldKept, KeyFits, PassFits
<1> QED  BY <1>1, <1>2, <1>3

\* A mail starts with all its servers to try.
LEMMA MailStarted ==
    ASSUME MailInv, M!SendMail
    PROVE  MailInv'
<1>1. PICK c : c = M!GetSmtpConfigs
  OBVIOUS
<1>2. PICK order : order = M!FailoverOrder(c)
  OBVIOUS
<1>3. DOMAIN order \subseteq M!Servers
  <2>1. DOMAIN c \subseteq M!Servers
    BY <1>1, ConfigsFit DEF ListFits
  <2> QED  BY <1>2, <2>1 DEF M!FailoverOrder
<1>4. /\ mail' = [step |-> IF DOMAIN order = {} THEN "skipped" ELSE "trying",
                  todo |-> order, all |-> DOMAIN order]
      /\ took' = [by |-> {}, lost |-> 0]
      /\ UNCHANGED <<row, old, secret, given, turned, dropped>>
  BY <1>1, <1>2 DEF M!SendMail, M!NoTook, M!stored, M!typed
<1>5. MailTried'
  <2>1. Cardinality({}) = 0
    BY FS_EmptySet
  <2>2. CASE DOMAIN order = {}
    BY <1>3, <1>4, <2>1, <2>2 DEF MailTried
  <2>3. CASE DOMAIN order # {}
    BY <1>3, <1>4, <2>1, <2>3 DEF MailTried
  <2> QED  BY <2>2, <2>3
<1> QED  BY <1>4, <1>5, MailSettingsStay DEF MailInv

\* A server is tried once: the mail is sent, or its other servers are left.
LEMMA MailAttempted ==
    ASSUME MailInv, NEW s \in M!Servers, NEW answer \in {"taken", "refused", "lost"},
           M!Attempt(s, answer)
    PROVE  MailInv'
<1>1. /\ mail.step = "trying" /\ s \in DOMAIN mail.todo
      /\ took' = [by   |-> IF answer = "refused" THEN took.by ELSE took.by \cup {s},
                  lost |-> took.lost + IF answer = "lost" THEN 1 ELSE 0]
      /\ mail' = M!AfterAnswer(s, answer)
      /\ UNCHANGED <<row, old, secret, given, turned, dropped>>
  BY DEF M!Attempt, M!IsFirst, M!stored, M!typed
<1>2. /\ mail = [step |-> mail.step, todo |-> mail.todo, all |-> mail.all]
      /\ mail.all \in SUBSET M!Servers /\ DOMAIN mail.todo \subseteq mail.all
      /\ took.lost \in Nat /\ took.by \subseteq mail.all \ DOMAIN mail.todo
      /\ Cardinality(took.by) = took.lost
  <2>1. MailTried
    BY DEF MailInv
  <2>2. took.lost \in Nat
    BY <2>1 DEF MailTried
  <2> QED  BY <1>1, <2>1, <2>2 DEF MailTried
<1>3. PICK rest2 : rest2 = M!Left(s)
  OBVIOUS
<1>4. DOMAIN rest2 = (DOMAIN mail.todo) \ {s}
  BY <1>3 DEF M!Left
<1>5. IsFiniteSet(took.by) /\ Cardinality(took.by \cup {s}) = Cardinality(took.by) + 1
  <2>1. 1 \in Int /\ MaxServer \in Int
    BY MailAssumption
  <2>2. IsFiniteSet(M!Servers)
    BY <2>1, FS_Interval DEF M!Servers
  <2>3. took.by \subseteq M!Servers /\ s \notin took.by
    BY <1>1, <1>2
  <2> QED  BY <2>2, <2>3, FS_Subset, FS_AddElement
<1>6. CASE answer = "taken"
  <2>1. mail' = [step |-> "sent", todo |-> M!NoServers, all |-> mail.all] /\ DOMAIN M!NoServers = {}
    <3>1. mail' = [mail EXCEPT !.step = "sent", !.todo = M!NoServers]
      BY <1>1, <1>6 DEF M!AfterAnswer
    <3> QED  BY <1>2, <3>1 DEF M!NoServers
  <2>2. took'.by = took.by \cup {s} /\ took'.lost = took.lost
    BY <1>1, <1>2, <1>6
  <2>3. Cardinality(took'.by) = took'.lost + 1
    BY <1>2, <1>5, <2>2
  <2> HIDE DEF M!NoServers
  <2> QED  BY <1>1, <1>2, <2>1, <2>2, <2>3, MailSettingsStay DEF MailInv, MailTried
<1>7. CASE answer # "taken"
  <2>1. mail' = [step |-> IF DOMAIN rest2 # {} THEN "trying" ELSE "failed", todo |-> rest2, all |-> mail.all]
    <3>1. mail' = [mail EXCEPT !.todo = rest2, !.step = IF DOMAIN rest2 # {} THEN mail.step ELSE "failed"]
      BY <1>1, <1>3, <1>7 DEF M!AfterAnswer
    <3> QED  BY <1>1, <1>2, <3>1
  <2>2. /\ took'.by = (IF answer = "refused" THEN took.by ELSE took.by \cup {s})
        /\ took'.lost = took.lost + (IF answer = "lost" THEN 1 ELSE 0)
    BY <1>1
  <2>3. Cardinality(took'.by) = took'.lost /\ took'.lost \in Nat
    <3>1. CASE answer = "refused"
      BY <1>2, <2>2, <3>1
    <3>2. CASE answer = "lost"
      BY <1>2, <1>5, <2>2, <3>2
    <3> QED  BY <1>7, <3>1, <3>2
  <2>4. took'.by \subseteq mail.all \ DOMAIN rest2
    BY <1>1, <1>2, <1>4, <2>2
  <2>5. MailTried'
    <3>1. CASE DOMAIN rest2 = {}
      BY <1>2, <1>4, <2>1, <2>3, <2>4, <3>1 DEF MailTried
    <3>2. CASE DOMAIN rest2 # {}
      BY <1>2, <1>4, <2>1, <2>3, <2>4, <3>2 DEF MailTried
    <3> QED  BY <3>1, <3>2
  <2> QED  BY <1>1, <2>5, MailSettingsStay DEF MailInv
<1> QED  BY <1>6, <1>7

\* The list is not written yet and no server but the old settings' has a password.
LEMMA MailBegins == M!Init => MailInv
<1> SUFFICES ASSUME M!Init PROVE MailInv
  OBVIOUS
<1>1. M!Legacy \in M!Servers /\ M!Unset \in Known
  BY MailAssumption DEF M!Legacy, M!Servers, Known
<1>2. /\ row = NoRow /\ secret \in Keys /\ turned = {} /\ dropped = {}
      /\ mail = M!NoMail /\ took = M!NoTook
      /\ (old = NoRow <=> given[M!Legacy] = M!Unset)
      /\ old \in {NoRow} \cup {[key |-> k, val |-> given[M!Legacy]] : k \in {secret, M!Plain}}
      /\ given \in [M!Servers -> {M!Unset}] \cup
            {[s \in M!Servers |-> IF s = M!Legacy THEN p ELSE M!Unset] : p \in Passwords}
  BY DEF M!Init
<1>3. given \in [M!Servers -> Known] /\ \A s \in M!Servers \ {M!Legacy} : given[s] = M!Unset
  <2>1. CASE given \in [M!Servers -> {M!Unset}]
    BY <1>1, <2>1
  <2>2. ASSUME NEW p \in Passwords, given = [s \in M!Servers |-> IF s = M!Legacy THEN p ELSE M!Unset]
        PROVE  given \in [M!Servers -> Known] /\ \A s \in M!Servers \ {M!Legacy} : given[s] = M!Unset
    BY <1>1, <2>2 DEF Known
  <2> QED  BY <1>2, <2>1, <2>2
<1>4. given[M!Legacy] \in Known
  BY <1>1, <1>3
<1>5. old # NoRow => old \in Stored /\ old.val = given[M!Legacy] /\ old.key \in {M!Plain, secret}
  BY <1>2, <1>4 DEF Stored
<1>6. MailTyped
  BY <1>2, <1>3, <1>5 DEF MailTyped
<1>7. ListKept /\ OldKept
  BY <1>2, <1>3, <1>5 DEF ListKept, OldKept, PassFits, KeyFits
<1>8. MailTried
  <2>1. DOMAIN M!NoServers = {} /\ {} \subseteq M!Servers
    BY DEF M!NoServers
  <2>2. Cardinality({}) = 0
    BY FS_EmptySet
  <2> QED  BY <1>2, <2>1, <2>2 DEF MailTried, M!NoMail, M!NoTook
<1> QED  BY <1>6, <1>7, <1>8 DEF MailInv

\* The invariant says what mail servers do.
LEMMA MailHolds == MailInv => M!TypeOK /\ M!PasswordsKept /\ M!DeletedStaysOut /\ M!MailAccounted
<1> SUFFICES ASSUME MailInv
             PROVE  M!TypeOK /\ M!PasswordsKept /\ M!DeletedStaysOut /\ M!MailAccounted
  OBVIOUS
<1>1. MailTried
  BY DEF MailInv
<1>2. M!TypeOK
  <2>1. \/ row = NoRow
        \/ DOMAIN row \subseteq M!Servers /\
             \A s \in DOMAIN row : /\ row[s].rank \in Nat \ {0} /\ row[s].usable \in BOOLEAN
                                   /\ row[s].pass.val \in Known /\ row[s].pass.key \in Keys \cup {M!Plain}
    <3> SUFFICES ASSUME row # NoRow
                 PROVE  DOMAIN row \subseteq M!Servers /\
                          \A s \in DOMAIN row :
                             /\ row[s].rank \in Nat \ {0} /\ row[s].usable \in BOOLEAN
                             /\ row[s].pass.val \in Known /\ row[s].pass.key \in Keys \cup {M!Plain}
      OBVIOUS
    <3>1. PICK D \in SUBSET M!Servers : row \in [D -> Kept]
      BY DEF MailInv, MailTyped
    <3>2. \A s \in D : row[s] \in Kept
      BY <3>1
    <3> QED  BY <3>1, <3>2 DEF Kept, Stored
  <2> QED  BY <1>1, <2>1 DEF M!TypeOK, MailTried, Known
<1>3. ListFits(M!GetSmtpConfigs)
  BY ConfigsFit
<1>4. M!PasswordsKept /\ M!DeletedStaysOut
  BY <1>3 DEF ListFits, PassFits, M!PasswordsKept, M!DeletedStaysOut
<1>5. M!MailAccounted
  <2>1. M!Cardinality(took.by) = Cardinality(took.by)
    BY DEF M!Cardinality, Cardinality
  <2> QED  BY <1>1, <2>1 DEF MailTried, M!MailAccounted
<1> QED  BY <1>2, <1>4, <1>5

\* Every step of the mail servers keeps the invariant.
LEMMA MailStep == MailInv /\ M!Next => MailInv'
<1> SUFFICES ASSUME MailInv, M!Next PROVE MailInv'
  OBVIOUS
<1>1. CASE \E s \in M!Servers, r \in 0..MaxRank, p \in Passwords \cup {M!Unset}, u \in BOOLEAN :
              M!SaveSmtpSettings(s, r, p, u)
  BY <1>1, MailServerSaved DEF Known
<1>2. CASE \E s \in M!Servers : M!DeleteSmtpSettings(s)
  BY <1>2, MailServerDeleted
<1>3. CASE \E k \in Keys : M!Restart(k)
  BY <1>3, MailRestarted
<1>4. CASE M!SendMail
  BY <1>4, MailStarted
<1>5. CASE \E s \in M!Servers, a \in {"taken", "refused", "lost"} : M!Attempt(s, a)
  BY <1>5, MailAttempted
<1> QED  BY <1>1, <1>2, <1>3, <1>4, <1>5 DEF M!Next

\* What is not a step of the mail servers leaves them alone.
LEMMA MailStays == MailInv /\ UNCHANGED mailVars => MailInv'
<1> SUFFICES ASSUME MailInv, UNCHANGED mailVars PROVE MailInv'
  OBVIOUS
<1>1. UNCHANGED <<row, old, secret, mail, given, turned, dropped, took>>
  BY DEF mailVars
<1>2. MailTried'
  BY <1>1 DEF MailInv, MailTried
<1> QED  BY <1>1, <1>2, MailSettingsStay DEF MailInv

\* Mail servers do as they were told: a server signs in with the password last typed
\* for it, or with none after the key changed; a deleted server is not used again;
\* what a mail is reported to be is what became of it.
THEOREM MailServersAreKept == Spec => []MailServersKept
<1>1. Init => MailInv
  BY MailBegins DEF Init
<1>2. MailInv => MailServersKept
  BY MailHolds DEF MailServersKept
<1>3. MailInv /\ [Next]_vars => MailInv'
  <2> SUFFICES ASSUME MailInv, [Next]_vars PROVE MailInv'
    OBVIOUS
  <2>1. CASE M!Next
    BY <2>1, MailStep
  <2>2. CASE UNCHANGED mailVars
    BY <2>2, MailStays
  <2> QED  BY <2>1, <2>2 DEF Next, vars
<1> QED  BY <1>1, <1>2, <1>3, PTL DEF Spec

-----------------------------------------------------------------------------
(***************************************************************************)
(* Rate limits.  What a key has left, after the requests that passed since *)
(* any earlier one, is at most a full bucket and what came back since.  A  *)
(* key without a bucket has a full one: a bucket that is dropped for being *)
(* idle was full, since it was idle for as long as it takes to fill it.    *)
(***************************************************************************)
Cap == Burst * Parts
Cost(n) == n * Parts
Levels == [tokens : 0..Cap, last : Nat, place : Nat]

\* The times at which a key passed, and the bucket it has.
HistoryFits(s, b) ==
    /\ s \in Seq(Nat)
    /\ \A i \in 1..Len(s) : s[i] <= now
    /\ \A i \in 1..Len(s) : Cost(Len(s) - i + 1) + b.tokens <= Cap + (b.last - s[i])
    /\ \A i, j \in 1..Len(s) : i <= j => Cost(j - i + 1) <= Cap + (s[j] - s[i])

MapFits(m) ==
    /\ \E D \in SUBSET L!BucketKeys : m \in [D -> Levels]
    /\ IsFiniteSet(DOMAIN m)
    /\ \A k \in DOMAIN m : m[k].last <= now /\ m[k].place <= Cardinality(DOMAIN m)
    /\ \A j, k \in DOMAIN m : m[j].place = m[k].place => j = k

CreditFits(m, h) ==
    /\ DOMAIN h = L!BucketKeys /\ h = [k \in L!BucketKeys |-> h[k]]
    /\ \A k \in L!BucketKeys : HistoryFits(h[k], L!BucketOf(m, k))

LimitInv ==
    /\ now \in 0..MaxLimitTime
    /\ MapFits(buckets) /\ CreditFits(buckets, passed)
    /\ Cardinality(DOMAIN buckets) <= MaxBuckets + 1

\* Tokens are numbers, and one more request costs one token more.
LEMMA Costs ==
    /\ Cap \in Nat /\ Parts \in Nat /\ Parts <= Cap /\ Cap <= IdleTicks + 1 /\ IdleTicks \in Nat
    /\ \A n \in Nat : Cost(n) \in Nat /\ Cost(n + 1) = Cost(n) + Parts
    /\ Cost(1) = Parts
<1>1. Parts \in Nat /\ Burst \in Nat \ {0} /\ IdleTicks \in Nat /\ Burst * Parts <= IdleTicks + 1
  BY LimitAssumption
<1>2. \A a \in Nat, b \in Nat : a * b \in Nat /\ (a + 1) * b = a * b + b
  OBVIOUS
<1>3. Burst - 1 \in Nat /\ Burst = (Burst - 1) + 1
  BY <1>1
<1>4. Burst * Parts \in Nat /\ Burst * Parts = (Burst - 1) * Parts + Parts /\ (Burst - 1) * Parts \in Nat
  BY <1>1, <1>2, <1>3
<1>5. Parts <= Burst * Parts
  BY <1>1, <1>4
<1>6. \A n \in Nat : n * Parts \in Nat /\ (n + 1) * Parts = n * Parts + Parts
  BY <1>1, <1>2
<1>7. 1 * Parts = Parts
  BY <1>1
<1> QED  BY <1>1, <1>4, <1>5, <1>6, <1>7 DEF Cap, Cost

\* A request that passes pays for itself, one that is refused changes nothing but the time.
LEMMA RefillFits ==
    ASSUME now \in Nat, NEW s, NEW b \in Levels, b.last <= now, HistoryFits(s, b)
    PROVE  /\ L!Refill(b) \in Levels /\ L!Refill(b).last = now /\ L!Refill(b).place = b.place
           /\ L!Pays(b) => HistoryFits(Append(s, now), L!Refill(b))
           /\ ~ L!Pays(b) => HistoryFits(s, L!Refill(b))
<1>1. PICK tokens \in Nat, at \in Nat : tokens = b.tokens /\ at = b.last
  BY DEF Levels
<1>2. tokens <= Cap /\ at <= now /\ Cap \in Nat /\ Parts \in Nat /\ Parts <= Cap
  BY <1>1, Costs DEF Levels
<1>3. PICK t \in Nat : t = L!Least(Cap, tokens + (now - at))
  BY <1>2 DEF L!Least
<1>4. t <= Cap /\ t <= tokens + (now - at) /\ (t >= Parts <=> tokens + (now - at) >= Parts)
  BY <1>2, <1>3 DEF L!Least
<1>5. PICK left \in Nat : left = IF t < Parts THEN t ELSE t - Parts
  <2>1. CASE t < Parts
    BY <2>1
  <2>2. CASE ~ (t < Parts)
    <3>1. t - Parts \in Nat
      BY <1>2, <2>2
    <3> QED  BY <2>2, <3>1
  <2> QED  BY <2>1, <2>2
<1>6. left <= t /\ left <= Cap
  BY <1>2, <1>4, <1>5
<1>7. L!Refill(b) = [b EXCEPT !.tokens = left, !.last = now]
  BY <1>1, <1>3, <1>5 DEF L!Refill, Cap
<1>8. /\ L!Refill(b) \in Levels /\ L!Refill(b).tokens = left /\ L!Refill(b).last = now
      /\ L!Refill(b).place = b.place
  <2>1. left \in 0..Cap
    BY <1>2, <1>6
  <2> QED  BY <1>7, <2>1 DEF Levels
<1>9. L!Pays(b) <=> tokens + (now - at) >= Parts
  BY <1>1 DEF L!Pays
<1>10. s \in Seq(Nat) /\ Len(s) \in Nat /\ \A i \in 1..Len(s) : s[i] \in Nat
  BY ElementOfSeq DEF HistoryFits
<1>11. ASSUME NEW i \in 1..Len(s), NEW x \in Nat, x = s[i], NEW c \in Nat, c = Cost(Len(s) - i + 1)
       PROVE  c + tokens <= Cap + (at - x)
  BY <1>1, <1>11 DEF HistoryFits
<1>12. ASSUME L!Pays(b)
       PROVE  HistoryFits(Append(s, now), L!Refill(b))
  <2>0. left = t - Parts
    <3>1. t >= Parts
      BY <1>4, <1>9, <1>12
    <3> QED  BY <1>2, <1>5, <3>1
  <2> DEFINE r == Append(s, now)
  <2>1. r \in Seq(Nat) /\ Len(r) = Len(s) + 1 /\ r[Len(s) + 1] = now /\ \A i \in 1..Len(s) : r[i] = s[i]
    BY <1>10, AppendProperties
  <2> HIDE DEF r
  <2>2. \A i \in 1..Len(s) + 1 : i = Len(s) + 1 \/ (i \in 1..Len(s) /\ r[i] = s[i])
    BY <1>10, <2>1
  <2>3. \A i \in 1..Len(s) + 1 : r[i] <= now
    <3> TAKE i \in 1..Len(s) + 1
    <3>1. CASE i = Len(s) + 1
      BY <2>1, <3>1
    <3>2. CASE i \in 1..Len(s) /\ r[i] = s[i]
      BY <3>2 DEF HistoryFits
    <3> QED  BY <2>2, <3>1, <3>2
  <2>4. ASSUME NEW i \in 1..Len(s) + 1, NEW x \in Nat, x = r[i],
               NEW c \in Nat, c = Cost(Len(s) + 1 - i + 1)
        PROVE  c + left <= Cap + (now - x)
    <3>1. CASE i = Len(s) + 1
      <4>1. Len(s) + 1 - i + 1 = 1
        BY <1>10, <3>1
      <4>2. c = Parts /\ x = now
        BY <2>1, <2>4, <3>1, <4>1, Costs
      <4> QED  BY <1>2, <1>4, <2>0, <4>2
    <3>2. CASE i # Len(s) + 1
      <4>1. i \in 1..Len(s) /\ x = s[i]
        BY <2>2, <2>4, <3>2
      <4>2. Len(s) - i + 1 \in Nat /\ Len(s) + 1 - i + 1 = (Len(s) - i + 1) + 1
        BY <1>10, <4>1
      <4>3. PICK d \in Nat : d = Cost(Len(s) - i + 1)
        BY <4>2, Costs
      <4>4. c = d + Parts
        BY <2>4, <4>2, <4>3, Costs
      <4>5. d + tokens <= Cap + (at - x)
        BY <1>11, <4>1, <4>3
      <4> QED  BY <1>2, <1>4, <2>0, <4>4, <4>5
    <3> QED  BY <3>1, <3>2
  <2>5. ASSUME NEW i \in 1..Len(s) + 1
        PROVE  Cost(Len(s) + 1 - i + 1) + left <= Cap + (now - r[i])
    <3>1. Len(s) + 1 - i + 1 \in Nat
      BY <1>10
    <3>2. PICK x \in Nat, c \in Nat : x = r[i] /\ c = Cost(Len(s) + 1 - i + 1)
      BY <1>10, <2>1, <2>2, <3>1, Costs
    <3> QED  BY <2>4, <3>2
  <2>6. ASSUME NEW i \in 1..Len(s) + 1, NEW j \in 1..Len(s) + 1, i <= j
        PROVE  Cost(j - i + 1) <= Cap + (r[j] - r[i])
    <3>1. CASE j = Len(s) + 1
      <4>1. Len(s) + 1 - i + 1 \in Nat
        BY <1>10
      <4>2. PICK x \in Nat, c \in Nat : x = r[i] /\ c = Cost(Len(s) + 1 - i + 1)
        BY <1>10, <2>1, <2>2, <4>1, Costs
      <4>3. c + left <= Cap + (now - x)
        BY <2>4, <4>2
      <4>4. c <= Cap + (now - x)
        BY <1>2, <4>3
      <4> QED  BY <2>1, <3>1, <4>2, <4>4
    <3>2. CASE j # Len(s) + 1
      <4>1. i \in 1..Len(s) /\ j \in 1..Len(s) /\ r[i] = s[i] /\ r[j] = s[j]
        BY <1>10, <2>2, <2>6, <3>2
      <4> QED  BY <2>6, <4>1 DEF HistoryFits
    <3> QED  BY <3>1, <3>2
  <2>7. \A i \in 1..Len(r) : Cost(Len(r) - i + 1) + L!Refill(b).tokens <= Cap + (L!Refill(b).last - r[i])
    BY <1>8, <2>1, <2>5
  <2>8. \A i, j \in 1..Len(r) : i <= j => Cost(j - i + 1) <= Cap + (r[j] - r[i])
    BY <2>1, <2>6
  <2>9. \A i \in 1..Len(r) : r[i] <= now
    BY <2>1, <2>3
  <2> QED  BY <2>1, <2>7, <2>8, <2>9 DEF HistoryFits, r
<1>13. ASSUME ~ L!Pays(b)
       PROVE  HistoryFits(s, L!Refill(b))
  <2>1. ASSUME NEW i \in 1..Len(s)
        PROVE  Cost(Len(s) - i + 1) + left <= Cap + (now - s[i])
    <3>1. Len(s) - i + 1 \in Nat
      BY <1>10
    <3>2. PICK x \in Nat, c \in Nat : x = s[i] /\ c = Cost(Len(s) - i + 1)
      BY <1>10, <3>1, Costs
    <3>3. c + tokens <= Cap + (at - x)
      BY <1>11, <3>2
    <3>4. c + left <= Cap + (now - x)
      BY <1>2, <1>4, <1>6, <3>3
    <3> QED  BY <3>2, <3>4
  <2> QED  BY <1>8, <2>1 DEF HistoryFits
<1> QED  BY <1>8, <1>12, <1>13

\* A full bucket as it is made now.
Full(b) == b.tokens = Cap /\ b.last = now

\* No history fits any bucket.
LEMMA NoHistoryFits == ASSUME NEW b PROVE HistoryFits(<<>>, b)
<1>1. <<>> \in Seq(Nat) /\ Len(<<>>) = 0
  BY EmptySeq
<1> QED  BY <1>1 DEF HistoryFits

\* A bucket that was idle for so long was full.
LEMMA IdleIsFull ==
    ASSUME now \in Nat, NEW s, NEW b \in Levels, now - b.last > IdleTicks, HistoryFits(s, b),
           NEW f, Full(f)
    PROVE  HistoryFits(s, f)
<1>1. PICK tokens \in Nat, at \in Nat : tokens = b.tokens /\ at = b.last
  BY DEF Levels
<1>2. PICK idle \in Nat : idle = IdleTicks
  BY Costs
<1>3. now - at > idle /\ Cap \in Nat /\ Cap <= idle + 1
  BY <1>1, <1>2, Costs
<1>4. s \in Seq(Nat) /\ Len(s) \in Nat /\ \A i \in 1..Len(s) : s[i] \in Nat
  BY ElementOfSeq DEF HistoryFits
<1>5. ASSUME NEW i \in 1..Len(s)
      PROVE  Cost(Len(s) - i + 1) + f.tokens <= Cap + (f.last - s[i])
  <2>1. Len(s) - i + 1 \in Nat
    BY <1>4
  <2>2. PICK x \in Nat, c \in Nat : x = s[i] /\ c = Cost(Len(s) - i + 1)
    BY <1>4, <2>1, Costs
  <2>3. c + tokens <= Cap + (at - x)
    BY <1>1, <2>2 DEF HistoryFits
  <2>4. c + Cap <= Cap + (now - x)
    BY <1>3, <2>3
  <2> QED  BY <2>2, <2>4 DEF Full
<1> QED  BY <1>5 DEF HistoryFits

\* A bucket counts for its tokens and its time.
LEMMA SameLevel ==
    ASSUME NEW s, NEW b, HistoryFits(s, b), NEW f, f.tokens = b.tokens, f.last = b.last
    PROVE  HistoryFits(s, f)
BY DEF HistoryFits

\* Of finitely many keys, those with fewer than k newer ones are at most k.
LEMMA NewestFit ==
    ASSUME NEW D, IsFiniteSet(D), NEW m,
           \A k \in D : m[k].place \in Nat,
           \A j, k \in D : m[j].place = m[k].place => j = k
    PROVE  L!Newest(m, D) \subseteq D /\ Cardinality(L!Newest(m, D)) <= MaxBuckets
<1> DEFINE Later(k) == {j \in D : m[k].place < m[j].place}
           few == L!Newest(m, D)
<1>1. few = {k \in D : Cardinality(Later(k)) < MaxBuckets} /\ MaxBuckets \in Nat
  BY LimitAssumption DEF L!Newest, L!Cardinality, Cardinality
<1> HIDE DEF few
<1>2. CASE few = {}
  <2>1. Cardinality(few) = 0
    BY <1>2, FS_EmptySet
  <2>2. Cardinality(few) <= MaxBuckets
    BY <2>1, LimitAssumption
  <2> QED  BY <1>1, <2>2 DEF few
<1>3. CASE few # {}
  <2> DEFINE places == {n \in Nat : \E k \in few : m[k].place = n}
  <2>1. places # {} /\ places \subseteq Nat
    BY <1>1, <1>3
  <2>2. PICK n \in places : \A q \in places : n <= q
    BY <2>1, LeastNatural
  <2>3. PICK k \in few : m[k].place = n
    BY <2>2
  <2>4. k \in D /\ few \subseteq D
    BY <1>1
  <2>5. \A j \in few \ {k} : j \in Later(k)
    <3> TAKE j \in few \ {k}
    <3>1. PICK q \in Nat : q = m[j].place
      BY <2>4
    <3>2. q \in places /\ q # n
      BY <2>3, <2>4, <3>1
    <3>3. n < q
      BY <2>2, <3>1, <3>2
    <3> QED  BY <2>3, <2>4, <3>1, <3>3
  <2>6. /\ IsFiniteSet(few) /\ IsFiniteSet(Later(k)) /\ Cardinality(few \ {k}) <= Cardinality(Later(k))
    <3>1. IsFiniteSet(few) /\ IsFiniteSet(Later(k))
      BY <2>4, FS_Subset
    <3>2. few \ {k} \subseteq Later(k)
      BY <2>5
    <3> QED  BY <3>1, <3>2, FS_Subset
  <2>7. Cardinality(few \ {k}) = Cardinality(few) - 1
    BY <2>6, FS_RemoveElement
  <2>8. PICK c \in Nat, d \in Nat : c = Cardinality(few) /\ d = Cardinality(Later(k))
    BY <2>6, FS_CardinalityType
  <2>9. d < MaxBuckets /\ c - 1 <= d
    BY <1>1, <2>6, <2>7, <2>8
  <2>10. c <= MaxBuckets
    BY <1>1, <2>9
  <2> QED  BY <1>1, <2>4, <2>8, <2>10 DEF few
<1> QED  BY <1>2, <1>3

\* Moving up keeps the order, and the places are those of the keys that are left.
LEMMA PlacesMove ==
    ASSUME NEW D, IsFiniteSet(D), NEW m, \A k \in D : m[k].place \in Nat
    PROVE  /\ \A k \in D : L!Place(m, D, k) \in 1..Cardinality(D)
           /\ \A j, k \in D : m[j].place < m[k].place => L!Place(m, D, j) < L!Place(m, D, k)
<1> DEFINE Sooner(k) == {j \in D : m[j].place < m[k].place}
<1>1. \A k \in D : L!Place(m, D, k) = 1 + Cardinality(Sooner(k))
  BY DEF L!Place, L!Cardinality, Cardinality
<1>2. \A k \in D : IsFiniteSet(Sooner(k)) /\ Cardinality(Sooner(k)) \in Nat
  <2> TAKE k \in D
  <2>1. Sooner(k) \subseteq D
    OBVIOUS
  <2> QED  BY <2>1, FS_Subset, FS_CardinalityType
<1>3. Cardinality(D) \in Nat
  BY FS_CardinalityType
<1>4. ASSUME NEW k \in D
      PROVE  1 + Cardinality(Sooner(k)) \in 1..Cardinality(D)
  <2>1. Sooner(k) \subseteq D \ {k}
    OBVIOUS
  <2>2. IsFiniteSet(D \ {k}) /\ Cardinality(D \ {k}) = Cardinality(D) - 1
    BY FS_RemoveElement
  <2>3. Cardinality(Sooner(k)) <= Cardinality(D \ {k})
    BY <2>1, <2>2, FS_Subset
  <2> QED  BY <1>2, <1>3, <2>2, <2>3
<1>5. ASSUME NEW j \in D, NEW k \in D, m[j].place < m[k].place
      PROVE  1 + Cardinality(Sooner(j)) < 1 + Cardinality(Sooner(k))
  <2>1. j \in Sooner(k) /\ j \notin Sooner(j)
    BY <1>5
  <2>2. Sooner(j) \subseteq Sooner(k) \ {j}
    <3> SUFFICES ASSUME NEW i \in Sooner(j) PROVE i \in Sooner(k) \ {j}
      OBVIOUS
    <3>1. PICK x \in Nat, y \in Nat, z \in Nat : x = m[i].place /\ y = m[j].place /\ z = m[k].place
      OBVIOUS
    <3>2. x < y /\ y < z
      BY <1>5, <3>1
    <3>3. x < z
      BY <3>2
    <3> QED  BY <2>1, <3>1, <3>3
  <2>3. IsFiniteSet(Sooner(k) \ {j}) /\ Cardinality(Sooner(k) \ {j}) = Cardinality(Sooner(k)) - 1
    BY <1>2, <2>1, FS_RemoveElement
  <2>4. Cardinality(Sooner(j)) <= Cardinality(Sooner(k) \ {j})
    BY <2>2, <2>3, FS_Subset
  <2>5. PICK c \in Nat, d \in Nat : c = Cardinality(Sooner(j)) /\ d = Cardinality(Sooner(k))
    BY <1>2
  <2>6. c <= d - 1
    BY <2>3, <2>4, <2>5
  <2> HIDE DEF Sooner
  <2> QED  BY <2>5, <2>6
<1> QED  BY <1>1, <1>4, <1>5

\* Pruning keeps the order, the tokens and the times of what is left, and makes room.
LEMMA PruneFits ==
    ASSUME now \in Nat, NEW m, MapFits(m)
    PROVE  /\ MapFits(L!Prune(m)) /\ DOMAIN L!Prune(m) = L!Left(m) /\ L!Left(m) \subseteq DOMAIN m
           /\ Cardinality(L!Left(m)) <= MaxBuckets
           /\ \A k \in L!Left(m) : /\ L!Prune(m)[k].tokens = m[k].tokens
                                   /\ L!Prune(m)[k].last = m[k].last
           /\ \A k \in (DOMAIN m) \ L!Left(m) : k \in L!Busy(m) \/ now - m[k].last > IdleTicks
<1>1. PICK D \in SUBSET L!BucketKeys : m \in [D -> Levels]
  BY DEF MapFits
<1>2. /\ DOMAIN m = D /\ IsFiniteSet(D) /\ \A k \in D : m[k] \in Levels /\ m[k].last <= now
      /\ \A j, k \in D : m[j].place = m[k].place => j = k
  BY <1>1 DEF MapFits
<1>3. \A k \in D : m[k].place \in Nat
  BY <1>2 DEF Levels
<1>4. PICK left : left = L!Left(m)
  OBVIOUS
<1>5. left \subseteq D /\ IsFiniteSet(left) /\ Cardinality(left) <= MaxBuckets
  <2>1. CASE Cardinality(D) <= MaxBuckets
    <3>1. left = D
      BY <1>2, <1>4, <2>1 DEF L!Left, L!Cardinality, Cardinality
    <3> QED  BY <1>2, <2>1, <3>1
  <2>2. CASE ~ (Cardinality(D) <= MaxBuckets)
    <3> DEFINE busy == L!Busy(m)
    <3>1. left = L!Newest(m, busy)
      BY <1>2, <1>4, <2>2 DEF L!Left, L!Cardinality, Cardinality
    <3>2. busy \subseteq D
      BY <1>2 DEF L!Busy
    <3> HIDE DEF busy
    <3>3. IsFiniteSet(busy)
      BY <1>2, <3>2, FS_Subset
    <3>4. left \subseteq busy /\ Cardinality(left) <= MaxBuckets
      <4>1. \A k \in busy : m[k].place \in Nat
        BY <1>3, <3>2
      <4>2. \A j, k \in busy : m[j].place = m[k].place => j = k
        BY <1>2, <3>2
      <4> QED  BY <3>1, <3>3, <4>1, <4>2, NewestFit
    <3> QED  BY <3>2, <3>3, <3>4, FS_Subset
  <2> QED  BY <2>1, <2>2
<1>6. PICK p : p = L!Prune(m)
  OBVIOUS
<1>7. p = [k \in left |-> [m[k] EXCEPT !.place = L!Place(m, left, k)]]
  BY <1>4, <1>6 DEF L!Prune
<1>8. /\ \A k \in left : L!Place(m, left, k) \in 1..Cardinality(left)
      /\ \A j, k \in left : m[j].place < m[k].place => L!Place(m, left, j) < L!Place(m, left, k)
  BY <1>3, <1>5, PlacesMove
<1>9. ASSUME NEW k \in left
      PROVE  /\ p[k] \in Levels /\ p[k].tokens = m[k].tokens /\ p[k].last = m[k].last
             /\ p[k].place = L!Place(m, left, k) /\ p[k].last <= now
             /\ p[k].place <= Cardinality(left)
  <2>1. p[k] = [m[k] EXCEPT !.place = L!Place(m, left, k)] /\ m[k] \in Levels /\ m[k].last <= now
    BY <1>2, <1>5, <1>7
  <2>2. Cardinality(left) \in Nat /\ L!Place(m, left, k) \in 1..Cardinality(left)
    BY <1>5, <1>8, FS_CardinalityType
  <2>3. L!Place(m, left, k) \in Nat /\ L!Place(m, left, k) <= Cardinality(left)
    BY <2>2
  <2> QED  BY <2>1, <2>3 DEF Levels
<1>10. ASSUME NEW j \in left, NEW k \in left, p[j].place = p[k].place
       PROVE  j = k
  <2>1. PICK x \in Nat, y \in Nat : x = m[j].place /\ y = m[k].place
    BY <1>3, <1>5
  <2>2. PICK u \in Int, v \in Int : u = L!Place(m, left, j) /\ v = L!Place(m, left, k)
    BY <1>8
  <2>3. u = v
    BY <1>9, <1>10, <2>2
  <2>4. ~ (x < y) /\ ~ (y < x)
    <3>1. x < y => u < v
      BY <1>8, <2>1, <2>2
    <3>2. y < x => v < u
      BY <1>8, <2>1, <2>2
    <3> QED  BY <2>2, <2>3, <3>1, <3>2
  <2>5. m[j].place = m[k].place
    BY <2>1, <2>4
  <2> QED  BY <1>2, <1>5, <2>5
<1>11. p \in [left -> Levels] /\ DOMAIN p = left
  BY <1>7, <1>9
<1>12. MapFits(p)
  <2>1. left \in SUBSET L!BucketKeys
    BY <1>5
  <2> QED  BY <1>5, <1>9, <1>10, <1>11, <2>1 DEF MapFits
<1>13. \A k \in D : k \in L!Busy(m) \/ now - m[k].last > IdleTicks
  <2> TAKE k \in D
  <2>1. PICK x \in Nat, idle \in Nat : x = m[k].last /\ idle = IdleTicks
    BY <1>2, Costs DEF Levels
  <2>2. now - x <= idle \/ now - x > idle
    OBVIOUS
  <2> QED  BY <1>2, <2>1, <2>2 DEF L!Busy
<1> QED  BY <1>2, <1>4, <1>5, <1>6, <1>9, <1>11, <1>12, <1>13

\* What is dropped had a full bucket, or is not remembered.
LEMMA CrowdedFits ==
    ASSUME now \in Nat, NEW m, NEW h, MapFits(m), CreditFits(m, h)
    PROVE  CreditFits(L!Prune(m), L!Crowded(m, h))
<1>1. PICK p, c : p = L!Prune(m) /\ c = L!Crowded(m, h)
  OBVIOUS
<1>2. /\ DOMAIN p = L!Left(m) /\ L!Left(m) \subseteq DOMAIN m
      /\ \A k \in L!Left(m) : p[k].tokens = m[k].tokens /\ p[k].last = m[k].last
      /\ \A k \in (DOMAIN m) \ L!Left(m) : k \in L!Busy(m) \/ now - m[k].last > IdleTicks
  BY <1>1, PruneFits
<1>3. /\ DOMAIN c = L!BucketKeys
      /\ \A k \in L!BucketKeys : c[k] = IF k \in L!Busy(m) \ L!Left(m) THEN <<>> ELSE h[k]
      /\ c = [k \in L!BucketKeys |-> c[k]]
  BY <1>1 DEF L!Crowded
<1>4. \A k : k \notin DOMAIN p => Full(L!BucketOf(p, k))
  BY DEF L!BucketOf, Full, Cap
<1>5. ASSUME NEW k \in L!BucketKeys
      PROVE  HistoryFits(c[k], L!BucketOf(p, k))
  <2>0. HistoryFits(h[k], L!BucketOf(m, k))
    BY DEF CreditFits
  <2>1. CASE k \in L!Left(m)
    <3>1. L!BucketOf(p, k) = p[k] /\ L!BucketOf(m, k) = m[k]
      BY <1>2, <2>1 DEF L!BucketOf
    <3>2. c[k] = h[k] /\ p[k].tokens = m[k].tokens /\ p[k].last = m[k].last
      BY <1>2, <1>3, <2>1
    <3> QED  BY <2>0, <3>1, <3>2, SameLevel
  <2>2. CASE k \in (DOMAIN m) \ L!Left(m) /\ k \in L!Busy(m)
    <3>1. c[k] = <<>>
      BY <1>3, <2>2
    <3> QED  BY <3>1, NoHistoryFits
  <2>3. CASE k \in (DOMAIN m) \ L!Left(m) /\ k \notin L!Busy(m)
    <3>1. c[k] = h[k] /\ Full(L!BucketOf(p, k)) /\ now - m[k].last > IdleTicks
      BY <1>2, <1>3, <1>4, <2>3
    <3>2. L!BucketOf(m, k) = m[k] /\ m[k] \in Levels
      BY <2>3 DEF L!BucketOf, MapFits
    <3> QED  BY <2>0, <3>1, <3>2, IdleIsFull
  <2>4. CASE k \notin DOMAIN m
    <3>1. c[k] = h[k] /\ Full(L!BucketOf(p, k))
      BY <1>2, <1>3, <1>4, <2>4 DEF L!Busy
    <3>2. Full(L!BucketOf(m, k))
      BY <2>4 DEF L!BucketOf, Full, Cap
    <3> QED  BY <2>0, <3>1, <3>2, SameLevel DEF Full
  <2> QED  BY <2>1, <2>2, <2>3, <2>4
<1> QED  BY <1>1, <1>3, <1>5 DEF CreditFits

\* A request takes from its own bucket, which is put in last when it is new.
LEMMA ConsumeFits ==
    ASSUME now \in Nat, NEW m, NEW h, MapFits(m), CreditFits(m, h), NEW key1 \in L!BucketKeys
    PROVE  /\ MapFits(L!Consume(m, h, key1).m)
           /\ CreditFits(L!Consume(m, h, key1).m, L!Consume(m, h, key1).h)
           /\ Cardinality(DOMAIN L!Consume(m, h, key1).m) <= MaxBuckets + 1
<1>1. PICK p, c : p = L!Prune(m) /\ c = L!Crowded(m, h)
  OBVIOUS
<1>2. PICK b : b = L!BucketOf(p, key1)
  OBVIOUS
<1>3. PICK q, g : /\ q = [k \in (DOMAIN p) \cup {key1} |-> IF k = key1 THEN L!Refill(b) ELSE p[k]]
                  /\ g = IF L!Pays(b) THEN [c EXCEPT ![key1] = Append(@, now)] ELSE c
  OBVIOUS
<1>4. L!Consume(m, h, key1).m = q /\ L!Consume(m, h, key1).h = g
  BY <1>1, <1>2, <1>3 DEF L!Consume
<1>5. MapFits(p) /\ Cardinality(DOMAIN p) <= MaxBuckets
  BY <1>1, PruneFits
<1>6. CreditFits(p, c)
  BY <1>1, CrowdedFits
<1>7. PICK D \in SUBSET L!BucketKeys : p \in [D -> Levels]
  BY <1>5 DEF MapFits
<1>8. /\ DOMAIN p = D /\ IsFiniteSet(D) /\ Cardinality(D) \in Nat /\ Cardinality(D) <= MaxBuckets
      /\ \A k \in D : p[k] \in Levels /\ p[k].last <= now /\ p[k].place <= Cardinality(D)
      /\ \A j, k \in D : p[j].place = p[k].place => j = k
  BY <1>5, <1>7, FS_CardinalityType DEF MapFits
<1>9. /\ b \in Levels /\ b.last <= now
      /\ key1 \in D => b = p[key1]
      /\ key1 \notin D => b.place = 1 + Cardinality(D)
  <2>1. CASE key1 \in D
    BY <1>2, <1>8, <2>1 DEF L!BucketOf
  <2>2. CASE key1 \notin D
    <3>1. b = [tokens |-> Cap, last |-> now, place |-> 1 + Cardinality(D)]
      BY <1>2, <1>8, <2>2 DEF L!BucketOf, Cap, L!Cardinality, Cardinality
    <3>2. 1 + Cardinality(D) \in Nat /\ Cap \in 0..Cap
      BY <1>8, Costs
    <3> QED  BY <2>2, <3>1, <3>2 DEF Levels
  <2> QED  BY <2>1, <2>2
<1>10. HistoryFits(c[key1], b)
  BY <1>2, <1>6 DEF CreditFits
<1>11. PICK r : r = L!Refill(b)
  OBVIOUS
<1>12. /\ r \in Levels /\ r.last = now /\ r.place = b.place
       /\ L!Pays(b) => HistoryFits(Append(c[key1], now), r)
       /\ ~ L!Pays(b) => HistoryFits(c[key1], r)
  BY <1>9, <1>10, <1>11, RefillFits
<1>13. PICK E : E = D \cup {key1}
  OBVIOUS
<1>14. /\ DOMAIN q = E /\ \A k \in E : q[k] = IF k = key1 THEN r ELSE p[k]
       /\ q \in [E -> Levels] /\ E \in SUBSET L!BucketKeys /\ key1 \in E
  BY <1>3, <1>8, <1>11, <1>12, <1>13
<1>15. /\ IsFiniteSet(E) /\ Cardinality(E) \in Nat
       /\ Cardinality(E) = IF key1 \in D THEN Cardinality(D) ELSE Cardinality(D) + 1
  BY <1>8, <1>13, FS_AddElement, FS_CardinalityType
<1>16. Cardinality(E) <= MaxBuckets + 1 /\ Cardinality(D) <= Cardinality(E)
  BY <1>8, <1>15, LimitAssumption
<1>17. ASSUME NEW k \in E
       PROVE  q[k].last <= now /\ q[k].place <= Cardinality(E)
  <2>1. CASE k # key1
    <3>1. PICK x \in Nat, e \in Nat, d \in Nat : x = p[k].place /\ e = Cardinality(E) /\ d = Cardinality(D)
      BY <1>8, <1>13, <1>15, <2>1 DEF Levels
    <3>2. q[k] = p[k] /\ k \in D
      BY <1>13, <1>14, <2>1
    <3>3. x <= d /\ d <= e
      BY <1>8, <1>16, <3>1, <3>2
    <3>4. x <= e
      BY <3>1, <3>3
    <3> QED  BY <1>8, <3>1, <3>2, <3>4
  <2>2. CASE k = key1
    <3>1. q[k] = r /\ q[k].last = now /\ q[k].place = b.place
      BY <1>12, <1>14, <2>2
    <3>2. CASE key1 \in D
      BY <1>8, <1>9, <1>12, <1>15, <3>1, <3>2
    <3>3. CASE key1 \notin D
      BY <1>8, <1>9, <1>15, <3>1, <3>3
    <3> QED  BY <3>2, <3>3
  <2> QED  BY <2>1, <2>2
<1>18. ASSUME NEW k \in D, k # key1
       PROVE  b.place # p[k].place
  <2>1. CASE key1 \in D
    BY <1>8, <1>9, <1>18, <2>1
  <2>2. CASE key1 \notin D
    <3>1. PICK x \in Nat, d \in Nat : x = p[k].place /\ d = Cardinality(D)
      BY <1>8 DEF Levels
    <3>2. x <= d
      BY <1>8, <3>1
    <3>3. x # 1 + d
      BY <3>1, <3>2
    <3> QED  BY <1>9, <2>2, <3>1, <3>3
  <2> QED  BY <2>1, <2>2
<1>19. ASSUME NEW j \in E, NEW k \in E, q[j].place = q[k].place
       PROVE  j = k
  <2>1. CASE j # key1 /\ k # key1
    BY <1>8, <1>13, <1>14, <1>19, <2>1
  <2>2. CASE j = key1 /\ k # key1
    <3>1. q[j].place = b.place /\ q[k] = p[k] /\ k \in D
      BY <1>12, <1>13, <1>14, <2>2
    <3> QED  BY <1>18, <1>19, <2>2, <3>1
  <2>3. CASE j # key1 /\ k = key1
    <3>1. q[k].place = b.place /\ q[j] = p[j] /\ j \in D
      BY <1>12, <1>13, <1>14, <2>3
    <3> QED  BY <1>18, <1>19, <2>3, <3>1
  <2> QED  BY <2>1, <2>2, <2>3
<1>20. MapFits(q)
  BY <1>14, <1>15, <1>17, <1>19 DEF MapFits
<1>21. CreditFits(q, g)
  <2>1. DOMAIN c = L!BucketKeys /\ c = [k \in L!BucketKeys |-> c[k]]
    BY <1>6 DEF CreditFits
  <2>2. /\ DOMAIN g = L!BucketKeys
        /\ \A k \in L!BucketKeys : g[k] = IF k = key1 /\ L!Pays(b) THEN Append(c[k], now) ELSE c[k]
        /\ g = [k \in L!BucketKeys |-> g[k]]
    <3>1. CASE L!Pays(b)
      <4>1. g = [c EXCEPT ![key1] = Append(c[key1], now)]
        BY <1>3, <3>1
      <4> QED  BY <2>1, <3>1, <4>1
    <3>2. CASE ~ L!Pays(b)
      <4>1. g = c
        BY <1>3, <3>2
      <4> QED  BY <2>1, <3>2, <4>1
    <3> QED  BY <3>1, <3>2
  <2>3. ASSUME NEW k \in L!BucketKeys
        PROVE  HistoryFits(g[k], L!BucketOf(q, k))
    <3>1. CASE k = key1
      <4>1. L!BucketOf(q, k) = r
        BY <1>14, <3>1 DEF L!BucketOf
      <4>2. CASE L!Pays(b)
        <5>1. g[k] = Append(c[key1], now) /\ HistoryFits(Append(c[key1], now), r)
          BY <1>12, <2>2, <3>1, <4>2
        <5> QED  BY <4>1, <5>1
      <4>3. CASE ~ L!Pays(b)
        <5>1. g[k] = c[key1] /\ HistoryFits(c[key1], r)
          BY <1>12, <2>2, <3>1, <4>3
        <5> QED  BY <4>1, <5>1
      <4> QED  BY <4>2, <4>3
    <3>2. CASE k # key1
      <4>1. g[k] = c[k] /\ HistoryFits(c[k], L!BucketOf(p, k))
        BY <1>6, <2>2, <3>2 DEF CreditFits
      <4>2. CASE k \in D
        <5>1. L!BucketOf(q, k) = p[k] /\ L!BucketOf(p, k) = p[k]
          BY <1>8, <1>13, <1>14, <3>2, <4>2 DEF L!BucketOf
        <5> QED  BY <4>1, <5>1
      <4>3. CASE k \notin D
        <5>1. k \notin DOMAIN q /\ k \notin DOMAIN p
          BY <1>8, <1>13, <1>14, <3>2, <4>3
        <5>2. Full(L!BucketOf(q, k)) /\ Full(L!BucketOf(p, k))
          BY <5>1 DEF L!BucketOf, Full, Cap
        <5> QED  BY <4>1, <5>2, SameLevel DEF Full
      <4> QED  BY <4>2, <4>3
    <3> QED  BY <3>1, <3>2
  <2> QED  BY <2>2, <2>3 DEF CreditFits
<1> QED  BY <1>4, <1>14, <1>16, <1>20, <1>21

\* What fits a map and a history fits the state that has them.
LEMMA LimitSame ==
    ASSUME now' = now, NEW m, NEW h, m = buckets', h = passed', MapFits(m), CreditFits(m, h)
    PROVE  MapFits(buckets)' /\ CreditFits(buckets, passed)'
<1>1. MapFits(buckets)'
  BY DEF MapFits
<1>2. \A k \in L!BucketKeys : HistoryFits(h[k], L!BucketOf(m, k))
  BY DEF CreditFits
<1>3. ASSUME NEW k \in L!BucketKeys
      PROVE  HistoryFits(passed[k], L!BucketOf(buckets, k))'
  <2>1. PICK s, b : s = h[k] /\ b = L!BucketOf(m, k)
    OBVIOUS
  <2>2. HistoryFits(s, b)
    BY <1>2, <2>1
  <2>3. passed'[k] = s /\ L!BucketOf(buckets, k)' = b
    BY <2>1 DEF L!BucketOf, L!Cardinality, Cardinality
  <2> QED  BY <2>2, <2>3 DEF HistoryFits
<1> QED  BY <1>1, <1>3 DEF CreditFits

\* A login asks twice, a signup once.
LEMMA LimitAsked ==
    ASSUME LimitInv, (\E ip \in Ips : L!Signup(ip)) \/ (\E ip \in Ips, m \in Mails : L!Login(ip, m))
    PROVE  LimitInv'
<1>1. now \in Nat /\ now \in 0..MaxLimitTime /\ MapFits(buckets) /\ CreditFits(buckets, passed)
  BY DEF LimitInv
<1>2. ASSUME NEW m, NEW h, m = buckets', h = passed', now' = now, MapFits(m), CreditFits(m, h),
             Cardinality(DOMAIN m) <= MaxBuckets + 1
      PROVE  LimitInv'
  BY <1>1, <1>2, LimitSame DEF LimitInv
<1>3. ASSUME NEW ip \in Ips, L!Signup(ip)
      PROVE  LimitInv'
  <2>1. L!SignupIp(ip) \in L!BucketKeys
    BY DEF L!BucketKeys
  <2>2. PICK c : c = L!Consume(buckets, passed, L!SignupIp(ip))
    OBVIOUS
  <2>3. PICK m, h : m = c.m /\ h = c.h
    OBVIOUS
  <2>4. MapFits(m) /\ CreditFits(m, h) /\ Cardinality(DOMAIN m) <= MaxBuckets + 1
    BY <1>1, <2>1, <2>2, <2>3, ConsumeFits
  <2>5. m = buckets' /\ h = passed' /\ now' = now
    BY <1>3, <2>2, <2>3 DEF L!Signup
  <2> QED  BY <1>2, <2>4, <2>5
<1>4. ASSUME NEW ip \in Ips, NEW mail1 \in Mails, L!Login(ip, mail1)
      PROVE  LimitInv'
  <2>1. L!LoginIp(ip) \in L!BucketKeys /\ L!LoginMail(mail1) \in L!BucketKeys
    BY DEF L!BucketKeys
  <2>2. PICK first : first = L!Consume(buckets, passed, L!LoginIp(ip))
    OBVIOUS
  <2>3. PICK m, h : m = first.m /\ h = first.h
    OBVIOUS
  <2>4. MapFits(m) /\ CreditFits(m, h) /\ Cardinality(DOMAIN m) <= MaxBuckets + 1
    BY <1>1, <2>1, <2>2, <2>3, ConsumeFits
  <2>5. PICK second : second = L!Consume(m, h, L!LoginMail(mail1))
    OBVIOUS
  <2>6. PICK n, g : n = second.m /\ g = second.h
    OBVIOUS
  <2>7. MapFits(n) /\ CreditFits(n, g) /\ Cardinality(DOMAIN n) <= MaxBuckets + 1
    BY <1>1, <2>1, <2>4, <2>5, <2>6, ConsumeFits
  <2>8. /\ first.ok => n = buckets' /\ g = passed'
        /\ ~ first.ok => m = buckets' /\ h = passed'
        /\ now' = now
    BY <1>4, <2>2, <2>3, <2>5, <2>6 DEF L!Login
  <2>9. CASE first.ok
    BY <1>2, <2>7, <2>8, <2>9
  <2>10. CASE ~ first.ok
    BY <1>2, <2>4, <2>8, <2>10
  <2> QED  BY <2>9, <2>10
<1> QED  BY <1>3, <1>4

\* Time passes.
LEMMA LimitTicks ==
    ASSUME LimitInv, L!Tick
    PROVE  LimitInv'
<1>1. /\ now \in Nat /\ now' = now + 1 /\ now' \in 0..MaxLimitTime /\ now' \in Nat
      /\ UNCHANGED <<buckets, passed>>
  <2>1. now \in 0..MaxLimitTime /\ MaxLimitTime \in Nat /\ now < MaxLimitTime /\ now' = now + 1
    BY LimitAssumption DEF LimitInv, L!Tick
  <2> QED  BY <2>1 DEF L!Tick
<1>2. MapFits(buckets)'
  <2>1. \A k \in DOMAIN buckets : buckets[k].last <= now'
    <3> TAKE k \in DOMAIN buckets
    <3>1. PICK x \in Nat : x = buckets[k].last
      BY DEF LimitInv, MapFits, Levels
    <3>2. x <= now
      BY <3>1 DEF LimitInv, MapFits
    <3> QED  BY <1>1, <3>1, <3>2
  <2> QED  BY <1>1, <2>1 DEF LimitInv, MapFits
<1>3. ASSUME NEW k \in L!BucketKeys
      PROVE  HistoryFits(passed[k], L!BucketOf(buckets, k))'
  <2>1. PICK s, b, f : s = passed[k] /\ b = L!BucketOf(buckets, k) /\ f = L!BucketOf(buckets, k)'
    OBVIOUS
  <2>2. HistoryFits(s, b)
    BY <2>1 DEF LimitInv, CreditFits
  <2>3. s \in Seq(Nat) /\ Len(s) \in Nat /\ \A i \in 1..Len(s) : s[i] \in Nat
    BY <2>2, ElementOfSeq DEF HistoryFits
  <2>4. \A i \in 1..Len(s) : s[i] <= now'
    <3> TAKE i \in 1..Len(s)
    <3>1. PICK x \in Nat : x = s[i]
      BY <2>3
    <3>2. x <= now
      BY <2>2, <3>1 DEF HistoryFits
    <3> QED  BY <1>1, <3>1, <3>2
  <2>5. \A i \in 1..Len(s) : Cost(Len(s) - i + 1) + f.tokens <= Cap + (f.last - s[i])
    <3>1. CASE k \in DOMAIN buckets
      <4>1. f = b
        BY <1>1, <2>1, <3>1 DEF L!BucketOf
      <4> QED  BY <2>2, <4>1 DEF HistoryFits
    <3>2. CASE k \notin DOMAIN buckets
      <4>1. b.tokens = Cap /\ b.last = now /\ f.tokens = Cap /\ f.last = now'
        BY <1>1, <2>1, <3>2 DEF L!BucketOf, Cap
      <4> TAKE i \in 1..Len(s)
      <4>2. Len(s) - i + 1 \in Nat
        BY <2>3
      <4>3. PICK x \in Nat, c \in Nat : x = s[i] /\ c = Cost(Len(s) - i + 1)
        BY <2>3, <4>2, Costs
      <4>4. c + Cap <= Cap + (now - x)
        BY <2>2, <4>1, <4>3 DEF HistoryFits
      <4>5. c + Cap <= Cap + (now' - x)
        BY <1>1, <4>4, Costs
      <4> QED  BY <4>1, <4>3, <4>5
    <3> QED  BY <3>1, <3>2
  <2>6. HistoryFits(s, f)'
    BY <2>2, <2>4, <2>5 DEF HistoryFits
  <2>7. passed'[k] = s
    BY <1>1, <2>1
  <2> QED  BY <2>1, <2>6, <2>7 DEF HistoryFits
<1>4. CreditFits(buckets, passed)'
  BY <1>1, <1>3 DEF LimitInv, CreditFits
<1> QED  BY <1>1, <1>2, <1>4 DEF LimitInv

\* There are no buckets and no requests.
LEMMA LimitBegins ==
    ASSUME L!Init
    PROVE  LimitInv
<1>1. now = 0 /\ buckets = [k \in {} |-> 0] /\ passed = [k \in L!BucketKeys |-> <<>>]
  BY DEF L!Init
<1>2. DOMAIN buckets = {} /\ buckets \in [{} -> Levels] /\ {} \in SUBSET L!BucketKeys
  BY <1>1
<1>3. IsFiniteSet({}) /\ Cardinality({}) = 0
  BY FS_EmptySet
<1>4. MapFits(buckets)
  BY <1>2, <1>3 DEF MapFits
<1>5. CreditFits(buckets, passed)
  BY <1>1, NoHistoryFits DEF CreditFits
<1>6. Cardinality(DOMAIN buckets) <= MaxBuckets + 1
  BY <1>2, <1>3, LimitAssumption
<1>7. 0 \in 0..MaxLimitTime
  BY LimitAssumption
<1> QED  BY <1>1, <1>4, <1>5, <1>6, <1>7 DEF LimitInv

\* The invariant says what the rate limit promises.
LEMMA LimitHolds ==
    ASSUME LimitInv
    PROVE  L!TypeOK /\ L!Throttled
<1>1. MapFits(buckets) /\ CreditFits(buckets, passed) /\ now \in 0..MaxLimitTime
  BY DEF LimitInv
<1>2. PICK D \in SUBSET L!BucketKeys : buckets \in [D -> Levels]
  BY <1>1 DEF MapFits
<1>3. ASSUME NEW k \in DOMAIN buckets
      PROVE  k \in L!BucketKeys /\ buckets[k].tokens \in 0..(Burst * Parts) /\ buckets[k].last \in 0..now
  <2>1. k \in L!BucketKeys /\ buckets[k] \in Levels
    BY <1>2
  <2>2. PICK x \in Nat : x = buckets[k].last
    BY <2>1 DEF Levels
  <2>3. x <= now
    BY <1>1, <2>2 DEF MapFits
  <2> QED  BY <2>1, <2>2, <2>3 DEF Levels, Cap
<1>4. L!TypeOK
  <2>1. \A j, k \in DOMAIN buckets : j # k => buckets[j].place # buckets[k].place
    BY <1>1 DEF MapFits
  <2>2. Cardinality(DOMAIN buckets) <= MaxBuckets + 1
    BY DEF LimitInv
  <2> QED  BY <1>1, <1>3, <2>1, <2>2 DEF L!TypeOK, L!Cardinality, Cardinality
<1>5. L!Throttled
  <2> SUFFICES ASSUME NEW k \in L!BucketKeys, NEW i \in DOMAIN passed[k], NEW j \in DOMAIN passed[k], i <= j
               PROVE  (j - i + 1) * Parts <= Burst * Parts + (passed[k][j] - passed[k][i])
    BY DEF L!Throttled
  <2>1. HistoryFits(passed[k], L!BucketOf(buckets, k))
    BY <1>1 DEF CreditFits
  <2>2. passed[k] \in Seq(Nat)
    BY <2>1 DEF HistoryFits
  <2>3. i \in 1..Len(passed[k]) /\ j \in 1..Len(passed[k])
    BY <2>2, LenProperties
  <2>4. Cost(j - i + 1) <= Cap + (passed[k][j] - passed[k][i])
    BY <2>1, <2>3 DEF HistoryFits
  <2> QED  BY <2>4 DEF Cost, Cap
<1> QED  BY <1>4, <1>5

\* In any span of time a key passes no more often than a full bucket and the refill of
\* that span allow, whatever the burst, the rate and the size of the map: dropping a
\* bucket that is idle gives nothing away, if it is idle for the time it takes to fill.
THEOREM LoginsAreThrottled == Spec => []Throttled
<1> DEFINE I == part = "limit" => LimitInv
<1>1. Init => I
  BY LimitBegins DEF Init
<1>2. ASSUME LimitInv, L!Next
      PROVE  LimitInv'
  <2>1. CASE L!Tick
    BY <1>2, <2>1, LimitTicks
  <2>2. CASE (\E ip \in Ips : L!Signup(ip)) \/ (\E ip \in Ips, m \in Mails : L!Login(ip, m))
    BY <1>2, <2>2, LimitAsked
  <2> QED  BY <1>2, <2>1, <2>2 DEF L!Next
<1>3. I /\ [Next]_vars => I'
  <2> SUFFICES ASSUME part = "limit" => LimitInv, [Next]_vars, part' = "limit"
               PROVE  LimitInv'
    OBVIOUS
  <2>1. CASE part = "limit" /\ L!Next
    BY <1>2, <2>1
  <2>2. CASE part = "limit" /\ UNCHANGED <<now, limitVars>>
    <3>1. now' = now /\ buckets' = buckets /\ passed' = passed
      BY <2>2 DEF limitVars
    <3>2. LimitInv
      BY <2>2
    <3>3. PICK m, h : m = buckets /\ h = passed
      OBVIOUS
    <3>4. MapFits(m) /\ CreditFits(m, h)
      BY <3>2, <3>3 DEF LimitInv
    <3>5. MapFits(buckets)' /\ CreditFits(buckets, passed)'
      BY <3>1, <3>3, <3>4, LimitSame
    <3> QED  BY <3>1, <3>2, <3>5 DEF LimitInv
  <2> QED  BY <2>1, <2>2 DEF Next, vars
<1>4. I => Throttled
  BY LimitHolds DEF Throttled
<1> QED  BY <1>1, <1>3, <1>4, PTL DEF Spec

-----------------------------------------------------------------------------
(***************************************************************************)
(* Secrets that are shown once.  An entry has the value and the time to    *)
(* live of the put that made it, entries that were shown are out of the    *)
(* store, and the password is put at most once.                            *)
(***************************************************************************)
Puts == [at : Nat, value : {"password", "other"}]

FlashTyped ==
    /\ now \in Nat /\ password \in {0, 1} /\ puts \in Nat /\ since \in 0..puts
    /\ made \in Seq(Puts) /\ Len(made) = puts
    /\ \A i \in 1..puts : made[i].at <= now

FlashStored ==
    /\ IsFiniteSet(flashes) /\ Cardinality(flashes) <= MaxEntries
    /\ \A e \in flashes : /\ e.id \in since + 1..puts
                          /\ e.value = made[e.id].value /\ e.expires = made[e.id].at + Ttl
    /\ \A e, f \in flashes : e.id = f.id => e = f

FlashSeen ==
    /\ \A s \in seen : s.id \in 1..puts /\ s.at \in Nat /\ s.at <= made[s.id].at + Ttl
    /\ \A s, t \in seen : s.id = t.id => s = t
    /\ \A s \in seen, e \in flashes : s.id # e.id

FlashKept ==
    \A i \in since + 1..puts :
       now <= made[i].at + Ttl /\ puts - i < MaxEntries /\ (\A s \in seen : s.id # i) =>
          \E e \in flashes : e.id = i

PasswordOnce ==
    /\ \A i, j \in 1..puts : made[i].value = "password" /\ made[j].value = "password" => i = j
    /\ password # 0 => \A i \in 1..puts : made[i].value # "password"

FlashInv == FlashTyped /\ FlashStored /\ FlashSeen /\ FlashKept /\ PasswordOnce

\* Of finitely many entries, those with fewer than k newer ones are at most k.
LEMMA NewestAreFew ==
    ASSUME NEW s, IsFiniteSet(s), NEW k \in Nat,
           \A e \in s : e.id \in Nat,
           \A e, f \in s : e.id = f.id => e = f
    PROVE  Cardinality({e \in s : Cardinality(F!Newer(s, e)) < k}) <= k
<1> DEFINE few == {e \in s : Cardinality(F!Newer(s, e)) < k}
<1>1. CASE few = {}
  BY <1>1, FS_EmptySet
<1>2. CASE few # {}
  <2> DEFINE ids == {n \in Nat : \E e \in few : e.id = n}
  <2>1. ids # {} /\ ids \subseteq Nat
    BY <1>2
  <2>2. PICK n \in ids : \A m \in ids : n <= m
    BY <2>1, LeastNatural
  <2>3. PICK e \in few : e.id = n
    BY <2>2
  <2>4. \A f \in few \ {e} : f \in F!Newer(s, e)
    <3> TAKE f \in few \ {e}
    <3>1. f.id \in ids /\ f.id # e.id /\ f.id \in Nat /\ e.id \in Nat
      BY <2>3
    <3>2. n <= f.id /\ f \in s /\ e.id = n
      BY <2>2, <2>3, <3>1
    <3> HIDE DEF few, ids
    <3>3. e.id < f.id
      BY <3>1, <3>2
    <3> QED  BY <3>2, <3>3 DEF F!Newer
  <2>5. IsFiniteSet(few) /\ IsFiniteSet(F!Newer(s, e)) /\ e \in few
    BY <2>3, FS_Subset DEF F!Newer
  <2>6. Cardinality(few \ {e}) <= Cardinality(F!Newer(s, e)) /\ Cardinality(F!Newer(s, e)) < k
    <3>1. few \ {e} \subseteq F!Newer(s, e)
      BY <2>4
    <3> QED  BY <2>3, <2>5, <3>1, FS_Subset
  <2>7. /\ Cardinality(few \ {e}) = Cardinality(few) - 1 /\ Cardinality(few) \in Nat
        /\ Cardinality(F!Newer(s, e)) \in Nat
    BY <2>5, FS_RemoveElement, FS_CardinalityType
  <2> HIDE DEF few
  <2> QED  BY <2>6, <2>7 DEF few
<1> QED  BY <1>1, <1>2

\* The store has room for one more, and keeps an entry that few newer ones follow.
LEMMA EvictKeeps ==
    ASSUME NEW s, IsFiniteSet(s), NEW n \in Nat,
           \A e \in s : e.id \in 1..n,
           \A e, f \in s : e.id = f.id => e = f
    PROVE  /\ F!Evict(s) \subseteq s /\ IsFiniteSet(F!Evict(s))
           /\ Cardinality(F!Evict(s)) < MaxEntries
           /\ \A e \in s : n - e.id < MaxEntries - 1 => e \in F!Evict(s)
<1>1. MaxEntries - 1 \in Nat /\ MaxEntries \in Nat
  BY FlashAssumption
<1>2. F!Evict(s) = {e \in s : Cardinality(F!Newer(s, e)) < MaxEntries - 1}
  BY DEF F!Evict, F!Cardinality, Cardinality
<1>3. F!Evict(s) \subseteq s /\ IsFiniteSet(F!Evict(s))
  <2>1. F!Evict(s) \subseteq s
    BY <1>2
  <2> QED  BY <2>1, FS_Subset
<1>4. Cardinality(F!Evict(s)) < MaxEntries
  <2>1. \A e \in s : e.id \in Nat
    OBVIOUS
  <2>2. Cardinality(F!Evict(s)) <= MaxEntries - 1
    BY <1>1, <1>2, <2>1, NewestAreFew
  <2>3. Cardinality(F!Evict(s)) \in Nat
    BY <1>3, FS_CardinalityType
  <2> QED  BY <1>1, <2>2, <2>3
<1>5. ASSUME NEW e \in s, n - e.id < MaxEntries - 1
      PROVE  e \in F!Evict(s)
  <2> DEFINE newer == F!Newer(s, e)
             idOf == [f \in newer |-> f.id]
  <2>1. newer \subseteq s /\ IsFiniteSet(newer)
    <3>1. newer \subseteq s
      BY DEF F!Newer
    <3> QED  BY <3>1, FS_Subset
  <2>2. e.id + 1 \in Int /\ n \in Int /\ e.id \in 1..n
    OBVIOUS
  <2>3. IsFiniteSet(e.id + 1..n) /\ Cardinality(e.id + 1..n) = n - e.id
    <3>1. IsFiniteSet(e.id + 1..n) /\ Cardinality(e.id + 1..n) = IF e.id + 1 > n THEN 0 ELSE n - (e.id + 1) + 1
      BY <2>2, FS_Interval
    <3> QED  BY <2>2, <3>1
  <2>4. idOf \in Injection(newer, e.id + 1..n)
    <3>1. \A f \in newer : f.id \in e.id + 1..n
      BY <2>2 DEF F!Newer
    <3>2. \A f, g \in newer : f.id = g.id => f = g
      BY <2>1
    <3> HIDE DEF newer
    <3> QED  BY <3>1, <3>2 DEF Injection, IsInjective
  <2> HIDE DEF newer, idOf
  <2>5. Cardinality(newer) <= n - e.id
    BY <2>1, <2>3, <2>4, FS_Injection
  <2>6. Cardinality(newer) \in Nat /\ n - e.id \in Nat
    BY <2>1, <2>2, FS_CardinalityType
  <2>7. Cardinality(newer) < MaxEntries - 1
    BY <1>1, <1>5, <2>5, <2>6
  <2> QED  BY <1>2, <2>7 DEF newer
<1> QED  BY <1>3, <1>4, <1>5

\* A put makes an entry of its own, and puts the password at most once.
LEMMA FlashPut ==
    ASSUME FlashInv, NEW v \in {"password", "other"}, F!PutFlash(v),
           UNCHANGED <<now, seen, since>>,
           password' \in {0, 1}, v = "password" => password # 0,
           password' # 0 => password # 0 /\ v # "password"
    PROVE  FlashInv'
<1> DEFINE new == [id |-> puts + 1, value |-> v, expires |-> now + Ttl]
           live == F!Prune(flashes)
           left == F!Evict(live)
<1>1. /\ puts' = puts + 1 /\ flashes' = left \cup {new}
      /\ made' = Append(made, [at |-> now, value |-> v])
  BY DEF F!PutFlash
<1>2. /\ now \in Nat /\ password \in {0, 1} /\ puts \in Nat /\ since \in 0..puts
      /\ made \in Seq(Puts) /\ Len(made) = puts
  BY DEF FlashInv, FlashTyped
<1>3. Ttl \in Nat /\ MaxEntries \in Nat \ {0}
  BY FlashAssumption
<1>4. /\ new.id = puts + 1 /\ new.value = v /\ new.expires = now + Ttl
  OBVIOUS
<1>5. /\ live \subseteq flashes /\ IsFiniteSet(live)
      /\ \A e \in flashes : now <= e.expires => e \in live
  <2>1. live \subseteq flashes /\ \A e \in flashes : now <= e.expires => e \in live
    BY DEF F!Prune
  <2> QED  BY <2>1, FS_Subset DEF FlashInv, FlashStored
<1>6. /\ \A e \in live : e.id \in 1..puts
      /\ \A e, f \in live : e.id = f.id => e = f
  BY <1>2, <1>5 DEF FlashInv, FlashStored
<1>7. /\ left \subseteq live /\ IsFiniteSet(left) /\ Cardinality(left) < MaxEntries
      /\ \A e \in live : puts - e.id < MaxEntries - 1 => e \in left
  BY <1>2, <1>5, <1>6, EvictKeeps
<1> HIDE DEF new, live, left
<1>8. /\ Len(made') = puts + 1 /\ made' \in Seq(Puts)
      /\ \A i \in 1..puts : made'[i] = made[i]
      /\ made'[puts + 1].at = now /\ made'[puts + 1].value = v
  <2> DEFINE entry == [at |-> now, value |-> v]
  <2>1. entry \in Puts
    BY <1>2 DEF Puts
  <2>2. made' = Append(made, entry) /\ entry.at = now /\ entry.value = v
    BY <1>1
  <2> HIDE DEF entry
  <2>3. /\ made' \in Seq(Puts) /\ Len(made') = Len(made) + 1
        /\ made'[Len(made) + 1] = entry
        /\ \A i \in 1..Len(made) : made'[i] = made[i]
    BY <1>2, <2>1, <2>2, AppendProperties
  <2> QED  BY <1>2, <2>2, <2>3
<1>9. FlashTyped'
  <2>1. \A i \in 1..puts + 1 : made'[i].at <= now
    BY <1>2, <1>8 DEF FlashInv, FlashTyped
  <2> QED  BY <1>1, <1>2, <1>8, <2>1 DEF FlashTyped
<1>10. FlashStored'
  <2>1. IsFiniteSet(left \cup {new}) /\ Cardinality(left \cup {new}) <= MaxEntries
    <3>1. /\ IsFiniteSet(left \cup {new})
          /\ Cardinality(left \cup {new}) = IF new \in left THEN Cardinality(left) ELSE Cardinality(left) + 1
      BY <1>7, FS_AddElement
    <3>2. Cardinality(left) \in Nat
      BY <1>7, FS_CardinalityType
    <3> QED  BY <1>3, <1>7, <3>1, <3>2
  <2>2. ASSUME NEW e \in left
        PROVE  /\ e.id \in since + 1..puts /\ e.id # puts + 1
               /\ e.value = made'[e.id].value /\ e.expires = made'[e.id].at + Ttl
    <3>1. /\ e.id \in since + 1..puts
          /\ e.value = made[e.id].value /\ e.expires = made[e.id].at + Ttl
      BY <1>5, <1>7 DEF FlashInv, FlashStored
    <3>2. e.id \in 1..puts
      BY <1>2, <3>1
    <3> QED  BY <1>2, <1>8, <3>1, <3>2
  <2>3. \A e \in flashes' : /\ e.id \in since + 1..puts + 1
                            /\ e.value = made'[e.id].value /\ e.expires = made'[e.id].at + Ttl
    <3> TAKE e \in flashes'
    <3>1. CASE e \in left
      BY <1>2, <2>2, <3>1
    <3>2. CASE e = new
      BY <1>2, <1>4, <1>8, <3>2
    <3> QED  BY <1>1, <3>1, <3>2
  <2>4. \A e, f \in flashes' : e.id = f.id => e = f
    BY <1>1, <1>4, <1>6, <1>7, <2>2
  <2> QED  BY <1>1, <2>1, <2>3, <2>4 DEF FlashStored
<1>11. FlashSeen'
  <2>1. \A s \in seen : s.id \in 1..puts /\ s.at \in Nat /\ s.at <= made[s.id].at + Ttl
    BY DEF FlashInv, FlashSeen
  <2>2. \A s \in seen : s.id \in 1..puts + 1 /\ s.at <= made'[s.id].at + Ttl /\ s.id # puts + 1
    BY <1>2, <1>8, <2>1
  <2>3. \A s \in seen, e \in flashes' : s.id # e.id
    BY <1>1, <1>4, <1>5, <1>7, <2>2 DEF FlashInv, FlashSeen
  <2> QED  BY <1>1, <2>1, <2>2, <2>3 DEF FlashInv, FlashSeen
<1>12. FlashKept'
  <2> SUFFICES ASSUME NEW i \in (since + 1..puts)', (now <= made[i].at + Ttl)',
                      (puts - i < MaxEntries)', \A s \in seen' : s.id # i
               PROVE  \E e \in flashes' : e.id = i
    BY DEF FlashKept
  <2>1. CASE i = puts + 1
    BY <1>1, <1>4, <2>1
  <2>2. CASE i # puts + 1
    <3>1. /\ i \in since + 1..puts /\ i \in 1..puts /\ made'[i] = made[i]
          /\ puts - i < MaxEntries - 1 /\ puts - i < MaxEntries
          /\ now <= made[i].at + Ttl /\ \A s \in seen : s.id # i
      BY <1>1, <1>2, <1>3, <1>8, <2>2
    <3>2. PICK e \in flashes : e.id = i
      BY <3>1 DEF FlashInv, FlashKept
    <3>3. e.expires = made[i].at + Ttl
      BY <3>2 DEF FlashInv, FlashStored
    <3>4. e \in live
      BY <1>5, <3>1, <3>3
    <3>5. e \in left
      BY <1>7, <3>1, <3>2, <3>4
    <3> QED  BY <1>1, <3>2, <3>5
  <2> QED  BY <2>1, <2>2
<1>13. PasswordOnce'
  <2>1. \A i \in 1..puts + 1 : made'[i].value = "password" =>
          IF i = puts + 1 THEN v = "password" ELSE i \in 1..puts /\ made[i].value = "password"
    BY <1>2, <1>8
  <2>2. v = "password" => \A i \in 1..puts : made[i].value # "password"
    BY DEF FlashInv, PasswordOnce
  <2>3. \A i, j \in 1..puts + 1 : made'[i].value = "password" /\ made'[j].value = "password" => i = j
    BY <2>1, <2>2 DEF FlashInv, PasswordOnce
  <2>4. password' # 0 => \A i \in 1..puts + 1 : made'[i].value # "password"
    BY <2>1 DEF FlashInv, PasswordOnce
  <2> QED  BY <1>1, <2>3, <2>4 DEF PasswordOnce
<1> QED  BY <1>9, <1>10, <1>11, <1>12, <1>13 DEF FlashInv

\* What a page shows leaves the store, what it does not show was late.
LEMMA FlashTaken ==
    ASSUME FlashInv, NEW e \in flashes, F!TakeFlash(e)
    PROVE  FlashInv'
<1>1. /\ flashes' = flashes \ {e}
      /\ seen' = IF now > e.expires THEN seen ELSE seen \cup {[id |-> e.id, at |-> now]}
      /\ UNCHANGED <<now, password, puts, made, since>>
  BY DEF F!TakeFlash
<1>2. /\ now \in Nat /\ puts \in Nat /\ since \in 0..puts /\ Ttl \in Nat
      /\ e.id \in since + 1..puts /\ e.expires = made[e.id].at + Ttl /\ e.id \in 1..puts
      /\ made[e.id].at \in Nat
  <2>1. /\ now \in Nat /\ puts \in Nat /\ since \in 0..puts /\ Ttl \in Nat
        /\ made \in Seq(Puts) /\ Len(made) = puts
    BY FlashAssumption DEF FlashInv, FlashTyped
  <2>2. e.id \in since + 1..puts /\ e.expires = made[e.id].at + Ttl
    BY DEF FlashInv, FlashStored
  <2>3. e.id \in 1..puts
    BY <2>1, <2>2
  <2>4. made[e.id] \in Puts
    BY <2>1, <2>3, ElementOfSeq
  <2> QED  BY <2>1, <2>2, <2>3, <2>4 DEF Puts
<1>3. \A f \in flashes : f # e => f.id # e.id /\ f \in flashes'
  BY <1>1 DEF FlashInv, FlashStored
<1>4. FlashTyped' /\ PasswordOnce'
  BY <1>1 DEF FlashInv, FlashTyped, PasswordOnce
<1>5. FlashStored'
  <2>1. /\ IsFiniteSet(flashes \ {e}) /\ Cardinality(flashes \ {e}) = Cardinality(flashes) - 1
        /\ Cardinality(flashes) \in Nat /\ Cardinality(flashes) <= MaxEntries
    BY FS_RemoveElement, FS_CardinalityType DEF FlashInv, FlashStored
  <2>2. Cardinality(flashes \ {e}) <= MaxEntries
    BY <2>1, FlashAssumption
  <2> QED  BY <1>1, <2>1, <2>2 DEF FlashInv, FlashStored
<1>6. CASE now > e.expires
  <2>1. FlashSeen'
    BY <1>1, <1>6 DEF FlashInv, FlashSeen
  <2>2. FlashKept'
    <3> SUFFICES ASSUME NEW i \in since + 1..puts, now <= made[i].at + Ttl,
                        puts - i < MaxEntries, \A s \in seen : s.id # i
                 PROVE  \E f \in flashes' : f.id = i
      BY <1>1, <1>6 DEF FlashKept
    <3>1. PICK f \in flashes : f.id = i
      BY DEF FlashInv, FlashKept
    <3>2. f # e
      BY <1>2, <1>6, <3>1
    <3> QED  BY <1>3, <3>1, <3>2
  <2> QED  BY <1>4, <1>5, <2>1, <2>2 DEF FlashInv
<1>7. CASE ~ (now > e.expires)
  <2> DEFINE new == [id |-> e.id, at |-> now]
  <2>1. seen' = seen \cup {new} /\ new.id = e.id /\ new.at = now
    BY <1>1, <1>7
  <2> HIDE DEF new
  <2>2. \A s \in seen : s.id # e.id
    BY DEF FlashInv, FlashSeen
  <2>3. \A s \in seen' : s.id \in 1..puts /\ s.at \in Nat /\ s.at <= made[s.id].at + Ttl
    <3>1. now <= made[e.id].at + Ttl
      BY <1>2, <1>7
    <3> QED  BY <1>2, <2>1, <3>1 DEF FlashInv, FlashSeen
  <2>4. \A s, t \in seen' : s.id = t.id => s = t
    BY <2>1, <2>2 DEF FlashInv, FlashSeen
  <2>5. \A s \in seen', f \in flashes' : s.id # f.id
    BY <1>1, <1>3, <2>1 DEF FlashInv, FlashSeen
  <2>6. FlashSeen'
    BY <1>1, <2>3, <2>4, <2>5 DEF FlashSeen
  <2>7. FlashKept'
    <3> SUFFICES ASSUME NEW i \in since + 1..puts, now <= made[i].at + Ttl,
                        puts - i < MaxEntries, \A s \in seen' : s.id # i
                 PROVE  \E f \in flashes' : f.id = i
      BY <1>1 DEF FlashKept
    <3>1. PICK f \in flashes : f.id = i
      BY <2>1 DEF FlashInv, FlashKept
    <3>2. f # e
      BY <2>1, <3>1
    <3> QED  BY <1>3, <3>1, <3>2
  <2> QED  BY <1>4, <1>5, <2>6, <2>7 DEF FlashInv
<1> QED  BY <1>6, <1>7

\* Starting again empties the store.
LEMMA FlashRestarted ==
    ASSUME FlashInv, F!Restart
    PROVE  FlashInv'
<1>1. flashes' = {} /\ since' = puts /\ UNCHANGED <<now, password, puts, made, seen>>
  BY DEF F!Restart
<1>2. FlashTyped' /\ FlashSeen' /\ PasswordOnce'
  BY <1>1 DEF FlashInv, FlashTyped, FlashSeen, PasswordOnce
<1>3. FlashStored'
  <2>1. IsFiniteSet({}) /\ Cardinality({}) = 0
    BY FS_EmptySet
  <2> QED  BY <1>1, <2>1, FlashAssumption DEF FlashStored
<1>4. FlashKept'
  <2>1. puts \in Nat
    BY DEF FlashInv, FlashTyped
  <2>2. \A i : i \notin puts + 1..puts
    BY <2>1
  <2> QED  BY <1>1, <2>2 DEF FlashKept
<1> QED  BY <1>2, <1>3, <1>4 DEF FlashInv

\* Time passes.
LEMMA FlashWaiting ==
    ASSUME FlashInv, F!Pass
    PROVE  FlashInv'
<1>1. now' = now + 1 /\ UNCHANGED <<flashes, password, puts, made, seen, since>>
  BY DEF F!Pass
<1>2. now \in Nat /\ puts \in Nat /\ since \in 0..puts /\ Ttl \in Nat /\ \A i \in 1..puts : made[i].at \in Nat
  <2>1. /\ now \in Nat /\ puts \in Nat /\ since \in 0..puts /\ made \in Seq(Puts) /\ Len(made) = puts
    BY DEF FlashInv, FlashTyped
  <2>2. \A i \in 1..puts : made[i] \in Puts
    BY <2>1, ElementOfSeq
  <2> QED  BY <2>1, <2>2, FlashAssumption DEF Puts
<1>3. FlashTyped'
  <2>1. \A i \in 1..puts : made[i].at <= now + 1
    BY <1>2 DEF FlashInv, FlashTyped
  <2> QED  BY <1>1, <1>2, <2>1 DEF FlashInv, FlashTyped
<1>4. FlashStored' /\ FlashSeen' /\ PasswordOnce'
  BY <1>1 DEF FlashInv, FlashStored, FlashSeen, PasswordOnce
<1>5. FlashKept'
  <2> SUFFICES ASSUME NEW i \in (since + 1..puts)', (now <= made[i].at + Ttl)',
                      (puts - i < MaxEntries)', \A s \in seen' : s.id # i
               PROVE  \E e \in flashes' : e.id = i
    BY DEF FlashKept
  <2>1. i \in since + 1..puts /\ i \in 1..puts
    BY <1>1, <1>2
  <2>2. now <= made[i].at + Ttl /\ puts - i < MaxEntries /\ \A s \in seen : s.id # i
    BY <1>1, <1>2, <2>1
  <2> QED  BY <1>1, <2>1, <2>2 DEF FlashInv, FlashKept
<1> QED  BY <1>3, <1>4, <1>5 DEF FlashInv

\* The store is empty and the password waits in its row.
LEMMA FlashBegins == F!Init => FlashInv
<1> SUFFICES ASSUME F!Init PROVE FlashInv
  OBVIOUS
<1>1. now = 0 /\ flashes = {} /\ password = 1 /\ puts = 0 /\ made = <<>> /\ seen = {} /\ since = 0
  BY DEF F!Init
<1>2. FlashTyped
  <2>1. <<>> \in Seq(Puts) /\ Len(<<>>) = 0
    BY EmptySeq
  <2> QED  BY <1>1, <2>1 DEF FlashTyped
<1>3. FlashStored
  <2>1. IsFiniteSet({}) /\ Cardinality({}) = 0
    BY FS_EmptySet
  <2> QED  BY <1>1, <2>1, FlashAssumption DEF FlashStored
<1>4. FlashSeen /\ FlashKept /\ PasswordOnce
  BY <1>1 DEF FlashSeen, FlashKept, PasswordOnce
<1> QED  BY <1>2, <1>3, <1>4 DEF FlashInv

\* The invariant says what the one-time store promises.
LEMMA FlashHolds == FlashInv => F!ShownOnce /\ F!FlashWaits
<1> SUFFICES ASSUME FlashInv PROVE F!ShownOnce /\ F!FlashWaits
  OBVIOUS
<1>1. puts \in Nat /\ since \in 0..puts
  BY DEF FlashInv, FlashTyped
<1>2. \A set : F!Cardinality(set) = Cardinality(set)
  BY DEF F!Cardinality, Cardinality
<1>3. F!ShownOnce
  <2> DEFINE told == {i \in 1..puts : made[i].value = "password"}
  <2>1. Cardinality(told) <= 1
    <3>1. \A i, j \in told : i = j
      BY DEF FlashInv, PasswordOnce
    <3>2. CASE told = {}
      BY <3>2, FS_EmptySet
    <3>3. ASSUME NEW i \in told PROVE Cardinality(told) <= 1
      <4>1. told = {i}
        BY <3>1
      <4> HIDE DEF told
      <4>2. Cardinality({i}) = 1
        BY FS_Singleton
      <4> QED  BY <4>1, <4>2
    <3> QED  BY <3>2, <3>3
  <2> QED  BY <1>2, <2>1 DEF FlashInv, FlashSeen, F!ShownOnce
<1>4. F!FlashWaits
  <2>1. Cardinality(flashes) <= MaxEntries
    BY DEF FlashInv, FlashStored
  <2>2. ASSUME NEW i \in since + 1..puts, now <= made[i].at + Ttl, puts - i < MaxEntries, ~ F!Taken(i)
        PROVE  \E e \in flashes : e.id = i /\ e.value = made[i].value
    <3>1. PICK e \in flashes : e.id = i
      BY <2>2 DEF FlashInv, FlashKept, F!Taken
    <3> QED  BY <3>1 DEF FlashInv, FlashStored
  <2> QED  BY <1>2, <2>1, <2>2 DEF F!FlashWaits
<1> QED  BY <1>3, <1>4

\* A secret is shown once, in time, and a fresh one waits for its page, however many
\* entries the store holds and however long they live.
THEOREM SecretsAreShownOnce == Spec => []ShownOnce
<1> DEFINE I == part = "flash" => FlashInv
<1>1. Init => I
  BY FlashBegins DEF Init
<1>2. ASSUME FlashInv, F!Next
      PROVE  FlashInv'
  <2>1. CASE F!ShowToken
    BY <1>2, <2>1, FlashPut DEF F!ShowToken, FlashInv, FlashTyped
  <2>2. CASE F!RevealPlacementCredential
    <3>1. CASE password # 0
      BY <1>2, <2>2, <3>1, FlashPut DEF F!RevealPlacementCredential
    <3>2. CASE password = 0
      BY <1>2, <2>2, <3>2, FlashPut DEF F!RevealPlacementCredential
    <3> QED  BY <3>1, <3>2
  <2>3. CASE \E e \in flashes : F!TakeFlash(e)
    BY <1>2, <2>3, FlashTaken
  <2>4. CASE F!Restart
    BY <1>2, <2>4, FlashRestarted
  <2>5. CASE F!Pass
    BY <1>2, <2>5, FlashWaiting
  <2> QED  BY <1>2, <2>1, <2>2, <2>3, <2>4, <2>5 DEF F!Next
<1>3. I /\ [Next]_vars => I'
  <2> SUFFICES ASSUME part = "flash" => FlashInv, [Next]_vars, part' = "flash"
               PROVE  FlashInv'
    OBVIOUS
  <2>1. CASE part = "flash" /\ F!Next
    BY <1>2, <2>1
  <2>2. CASE part = "flash" /\ UNCHANGED <<now, flashVars>>
    <3>1. UNCHANGED <<now, flashes, password, puts, made, seen, since>>
      BY <2>2 DEF flashVars
    <3> QED  BY <2>2, <3>1 DEF FlashInv, FlashTyped, FlashStored, FlashSeen, FlashKept, PasswordOnce
  <2> QED  BY <2>1, <2>2 DEF Next, vars, newVars
<1>4. I => ShownOnce
  BY FlashHolds DEF ShownOnce
<1> QED  BY <1>1, <1>3, <1>4, PTL DEF Spec
-----------------------------------------------------------------------------
(***************************************************************************)
(* Backups.  What retention keeps of all backups that ever came to the     *)
(* target it keeps of those that are there: with fewer newer ones none is  *)
(* dropped sooner.                                                         *)
(***************************************************************************)
\* Fewer backups mean fewer newer ones, and fewer buckets that have newer ones.
LEMMA BucketsShrink ==
    ASSUME NEW T, T \subseteq 1..MaxStamp, NEW S, S \subseteq T, NEW len \in Nat \ {0}, NEW count \in Nat,
           NEW s \in S, s \in B!PerBucket(T, len, count)
    PROVE  s \in B!PerBucket(S, len, count)
<1> DEFINE Later(X) == {t \div len : t \in {u \in X : u \div len > s \div len}}
<1>1. Later(S) \subseteq Later(T)
  OBVIOUS
<1>2. IsFiniteSet(Later(T)) /\ IsFiniteSet(Later(S))
  <2>1. MaxStamp \in Nat
    BY BackupAssumption
  <2>2. \A t \in T : t \div len \in 0..MaxStamp
    <3> SUFFICES ASSUME NEW t \in T
                 PROVE  t \div len \in 0..MaxStamp
      OBVIOUS
    <3>1. t \in Nat /\ t <= MaxStamp
      BY <2>1
    <3>2. t \div len \in Nat /\ t \div len <= t
      BY <3>1, Z3
    <3> QED  BY <2>1, <3>1, <3>2
  <2>3. Later(T) \subseteq 0..MaxStamp
    BY <2>2
  <2>4. IsFiniteSet(0..MaxStamp)
    BY <2>1, FS_Interval
  <2> QED  BY <1>1, <2>3, <2>4, FS_Subset
<1>3. Cardinality(Later(S)) <= Cardinality(Later(T)) /\ Cardinality(Later(S)) \in Nat /\ Cardinality(Later(T)) \in Nat
  BY <1>1, <1>2, FS_Subset, FS_CardinalityType
<1>4. B!Cardinality(Later(S)) = Cardinality(Later(S)) /\ B!Cardinality(Later(T)) = Cardinality(Later(T))
  BY DEF B!Cardinality, Cardinality
<1>5. (~ \E t \in T : t > s /\ t \div len = s \div len) /\ B!Cardinality(Later(T)) < count
  BY DEF B!PerBucket
<1>6. B!Cardinality(Later(S)) < count
  BY <1>3, <1>4, <1>5
<1> QED  BY <1>5, <1>6 DEF B!PerBucket

\* The four settings of retention, and the lengths they go by.
LEMMA RetentionTyped ==
    /\ Keep.recent \in Nat /\ Keep.weekly \in Nat /\ Keep.monthly \in Nat /\ Keep.yearly \in Nat
    /\ Span.week \in Nat \ {0} /\ Span.month \in Nat \ {0} /\ Span.year \in Nat \ {0}
  BY BackupAssumption

\* What is kept of more backups is kept of fewer.
LEMMA KeepShrinks ==
    ASSUME NEW T, T \subseteq 1..MaxStamp, NEW S, S \subseteq T, NEW s \in S, s \in B!SelectKeep(T)
    PROVE  s \in B!SelectKeep(S)
<1>1. CASE s \in B!PerBucket(T, Span.week, Keep.weekly)
  BY <1>1, BucketsShrink, RetentionTyped DEF B!SelectKeep
<1>2. CASE s \in B!PerBucket(T, Span.month, Keep.monthly)
  BY <1>2, BucketsShrink, RetentionTyped DEF B!SelectKeep
<1>3. CASE s \in B!PerBucket(T, Span.year, Keep.yearly)
  BY <1>3, BucketsShrink, RetentionTyped DEF B!SelectKeep
<1>4. CASE B!Cardinality({t \in T : t > s}) < Keep.recent
  <2> DEFINE Newer(X) == {t \in X : t > s}
  <2>1. MaxStamp \in Nat /\ IsFiniteSet(1..MaxStamp)
    BY BackupAssumption, FS_Interval
  <2>2. Newer(S) \subseteq Newer(T) /\ Newer(T) \subseteq 1..MaxStamp
    OBVIOUS
  <2>3. Cardinality(Newer(S)) <= Cardinality(Newer(T)) /\ Cardinality(Newer(S)) \in Nat /\ Cardinality(Newer(T)) \in Nat
    BY <2>1, <2>2, FS_Subset, FS_CardinalityType
  <2>4. B!Cardinality(Newer(S)) = Cardinality(Newer(S)) /\ B!Cardinality(Newer(T)) = Cardinality(Newer(T))
    BY DEF B!Cardinality, Cardinality
  <2>5. B!Cardinality(Newer(S)) < Keep.recent
    BY <1>4, <2>3, <2>4, RetentionTyped
  <2> QED  BY <2>5 DEF B!SelectKeep
<1> QED  BY <1>1, <1>2, <1>3, <1>4 DEF B!SelectKeep

\* Among finitely many backups of a bucket there is a newest.
LEMMA NewestExists ==
    ASSUME NEW S, S \subseteq 1..MaxStamp, NEW s \in S, NEW len \in Nat \ {0}
    PROVE  \E t \in S : t \div len = s \div len /\ \A u \in S : u \div len = s \div len => u <= t
<1> DEFINE Ages == {MaxStamp - u : u \in {v \in S : v \div len = s \div len}}
<1>1. MaxStamp \in Nat /\ S \subseteq Nat /\ \A u \in S : u <= MaxStamp
  BY BackupAssumption
<1>2. Ages \subseteq Nat /\ Ages # {}
  <2>1. PICK C : C = {v \in S : v \div len = s \div len}
    OBVIOUS
  <2>2. C \subseteq S /\ s \in C
    BY <2>1
  <2>3. {MaxStamp - u : u \in C} \subseteq Nat /\ {MaxStamp - u : u \in C} # {}
    BY ONLY <1>1, <2>2
  <2> QED  BY <2>1, <2>3, Zenon
<1>3. PICK a \in Ages : \A b \in Ages : a <= b
  BY <1>2, LeastNatural
<1>4. PICK t \in S : t \div len = s \div len /\ a = MaxStamp - t
  OBVIOUS
<1>5. ASSUME NEW u \in S, u \div len = s \div len
      PROVE  u <= t
  <2>1. a <= MaxStamp - u
    BY <1>3, <1>5
  <2> QED  BY <1>1, <1>4, <2>1
<1> QED  BY <1>4, <1>5

\* A newest backup that the retention promises is one that it keeps.
LEMMA NewestPromised ==
    ASSUME NEW S, S \subseteq 1..MaxStamp, NEW len \in Nat \ {0}, NEW count \in Nat, NEW n \in 1..count,
           NEW s \in B!NewestOf(S, len, n - 1)
    PROVE  s \in B!PerBucket(S, len, count)
<1> DEFINE Newest(t) == t \div len = s \div len /\ \A u \in S : u \div len = s \div len => u <= t
           After == (s \div len + 1)..MaxStamp
           Later == {t \div len : t \in {u \in S : u \div len > s \div len}}
<1>1. /\ s \in S /\ s = CHOOSE t \in S : Newest(t)
      /\ n - 1 = B!Cardinality({u \div len : u \in S} \cap After)
  BY DEF B!NewestOf
<1>2. \E t \in S : Newest(t)
  BY <1>1, NewestExists
<1>3. Newest(s)
  <2> DEFINE c == CHOOSE t \in S : Newest(t)
  <2>1. Newest(c)
    BY <1>2
  <2> HIDE DEF Newest
  <2> QED  BY <1>1, <2>1
<1>4. MaxStamp \in Nat /\ S \subseteq Nat /\ \A u \in S : u <= MaxStamp
  BY BackupAssumption
<1>5. \A u \in S : u \div len \in Nat /\ u \div len <= MaxStamp
  <2> SUFFICES ASSUME NEW u \in S
               PROVE  u \div len \in Nat /\ u \div len <= MaxStamp
    OBVIOUS
  <2>1. u \in Nat /\ u <= MaxStamp
    BY <1>4
  <2>2. u \div len \in Nat /\ u \div len <= u
    BY <2>1, Z3
  <2> QED  BY <1>4, <2>1, <2>2
<1>6. {u \div len : u \in S} \cap After = Later
  <2>1. s \div len \in Nat
    BY <1>1, <1>5
  <2>2. \A u \in S : u \div len > s \div len <=> u \div len \in After
    BY <1>4, <1>5, <2>1
  <2> QED  BY <2>2
<1>7. B!Cardinality(Later) < count
  <2>1. n - 1 = B!Cardinality(Later)
    BY <1>1, <1>6
  <2> QED  BY <2>1
<1>8. ~ \E t \in S : t > s /\ t \div len = s \div len
  <2> SUFFICES ASSUME NEW t \in S, t > s, t \div len = s \div len
               PROVE  FALSE
    OBVIOUS
  <2>1. t <= s
    BY <1>3
  <2>2. s \in Nat /\ t \in Nat
    BY <1>1, <1>4
  <2> QED  BY <2>1, <2>2
<1>9. s \in S
  BY <1>1
<1> QED  BY <1>7, <1>8, <1>9 DEF B!PerBucket

Newer(S, s) == {t \in S : t > s}

\* Stamps of their own are buckets of one backup.
LEMMA NewestRecent ==
    ASSUME NEW S, S \subseteq 1..MaxStamp, NEW n \in 1..Keep.recent, NEW s \in B!NewestOf(S, 1, n - 1)
    PROVE  s \in S /\ B!Cardinality(Newer(S, s)) < Keep.recent
<1>1. s \in B!PerBucket(S, 1, Keep.recent)
  <2>1. 1 \in Nat \ {0} /\ Keep.recent \in Nat
    BY RetentionTyped
  <2> HIDE DEF B!NewestOf
  <2> QED  BY <2>1, NewestPromised, Zenon
<1>2. \A u \in S : u \div 1 = u
  <2> SUFFICES ASSUME NEW u \in S
               PROVE  u \div 1 = u
    OBVIOUS
  <2>1. u \in Nat
    BY BackupAssumption
  <2> QED  BY <2>1, Z3
<1>3. s \in S /\ B!Cardinality({t \div 1 : t \in {u \in S : u \div 1 > s \div 1}}) < Keep.recent
  BY <1>1 DEF B!PerBucket
<1>4. {t \div 1 : t \in {u \in S : u \div 1 > s \div 1}} = Newer(S, s)
  BY <1>2, <1>3 DEF Newer
<1> QED  BY <1>3, <1>4

\* What the retention settings promise of all backups is what SelectKeep keeps of them.
LEMMA PromisesKept ==
    ASSUME sent \subseteq 1..MaxStamp, B!SelectKeep(sent) \subseteq B!Stamps
    PROVE  B!RetentionHolds
<1>1. ASSUME NEW n \in 1..Keep.recent, NEW s \in B!NewestOf(sent, 1, n - 1)  PROVE s \in B!SelectKeep(sent)
  <2>1. s \in sent /\ B!Cardinality(Newer(sent, s)) < Keep.recent
    BY <1>1, NewestRecent, Zenon
  <2> QED  BY <2>1, Zenon DEF B!SelectKeep, Newer
<1>2. ASSUME NEW n \in 1..Keep.weekly, NEW s \in B!NewestOf(sent, Span.week, n - 1)  PROVE s \in B!SelectKeep(sent)
  BY <1>2, NewestPromised, RetentionTyped DEF B!SelectKeep
<1>3. ASSUME NEW n \in 1..Keep.monthly, NEW s \in B!NewestOf(sent, Span.month, n - 1)  PROVE s \in B!SelectKeep(sent)
  BY <1>3, NewestPromised, RetentionTyped DEF B!SelectKeep
<1>4. ASSUME NEW n \in 1..Keep.yearly, NEW s \in B!NewestOf(sent, Span.year, n - 1)  PROVE s \in B!SelectKeep(sent)
  BY <1>4, NewestPromised, RetentionTyped DEF B!SelectKeep
<1> QED  BY <1>1, <1>2, <1>3, <1>4 DEF B!RetentionHolds

-----------------------------------------------------------------------------
Databases == [state : {"whole", "behind", "mixed", "blank", "garbage"}, schema : 0..MaxSchema]
JobRecords ==
    [step : {"idle", "put", "latest", "list", "prune"}, stamp : 0..MaxStamp, blob : {None},
     doomed : SUBSET (1..MaxStamp)]
DiskTyped ==
    /\ proc \in {"up", "down", "unlogged", "open"} /\ wal \in BOOLEAN
    /\ main \in Databases /\ (staged # None => staged \in Databases)
    /\ proc = "unlogged" => staged # None
    /\ clock \in Nat /\ code \in 1..MaxSchema /\ key \in Keys

StoreTyped ==
    /\ store = [s \in B!Stamps |-> store[s]] /\ B!Stamps \subseteq sent /\ sent \subseteq 1..MaxStamp
    /\ \A s \in B!Stamps : store[s].state \in {"whole", "behind", "mixed", "blank", "garbage"}
                           /\ store[s].schema \in 0..MaxSchema

\* Backups run in a process that is up, and have stamps.
JobsTyped ==
    /\ job \in [Jobs -> JobRecords]
    /\ \A j \in Jobs : job[j].step # "idle" => proc = "up" /\ job[j].stamp \in 1..MaxStamp

\* What is kept of all backups is there, and no job is about to delete it.
KeptSafe(all, there) ==
    /\ B!SelectKeep(all) \subseteq there
    /\ \A j \in Jobs : job[j].doomed \cap B!SelectKeep(all) = {}

\* A stamp is put once, by one job; only what was listed is doomed.
PutsFresh ==
    /\ sent \subseteq 1..clock
    /\ \A j \in Jobs : job[j].doomed \subseteq sent
    /\ \A j \in Jobs : job[j].step = "put" => job[j].stamp <= clock /\ job[j].stamp \notin sent
    /\ \A i, j \in Jobs : i # j /\ job[i].step = "put" /\ job[j].step = "put" => job[i].stamp # job[j].stamp

BackupInv == DiskTyped /\ StoreTyped /\ JobsTyped /\ PutsFresh /\ KeptSafe(sent, B!Stamps)

\* A job that goes on is the only one that changes.
LEMMA JobMoves ==
    ASSUME JobsTyped, NEW j \in Jobs, NEW r \in JobRecords, job' = [job EXCEPT ![j] = r], proc' = proc,
           r.step # "idle" => proc = "up" /\ r.stamp \in 1..MaxStamp
    PROVE  JobsTyped' /\ job'[j] = r /\ \A i \in Jobs : i # j => job'[i] = job[i]
<1>1. job \in [Jobs -> JobRecords]
  BY DEF JobsTyped
<1>2. job' \in [Jobs -> JobRecords] /\ job'[j] = r /\ \A i \in Jobs : i # j => job'[i] = job[i]
  BY <1>1
<1> QED  BY <1>2 DEF JobsTyped

\* A job that deletes no more than before deletes nothing that is kept.
LEMMA JobDoomsNoMore ==
    ASSUME NEW all, NEW there, KeptSafe(all, there), NEW j \in Jobs,
           \A i \in Jobs : i # j => job'[i] = job[i], job'[j].doomed \subseteq job[j].doomed
    PROVE  \A i \in Jobs : job'[i].doomed \cap B!SelectKeep(all) = {}
  BY DEF KeptSafe

NoJobRecord == [step |-> "idle", stamp |-> 0, blob |-> None, doomed |-> {}]

\* The end of a run leaves no job.
LEMMA RunEnded ==
    ASSUME BackupInv, NEW j \in Jobs, B!RunEnds(j), proc' = proc
    PROVE  /\ JobsTyped' /\ wal' = TRUE
           /\ \A i \in Jobs : job'[i].doomed \subseteq job[i].doomed
           /\ \A i \in Jobs : job'[i].step = "put" => i # j /\ job'[i] = job[i]
<1>1. job' = [job EXCEPT ![j] = NoJobRecord] /\ wal' = TRUE
  BY DEF B!RunEnds, B!NoJob, NoJobRecord
<1>2. NoJobRecord \in JobRecords /\ NoJobRecord.step = "idle" /\ NoJobRecord.doomed = {}
  BY BackupAssumption DEF NoJobRecord, JobRecords
<1>3. JobsTyped' /\ job'[j] = NoJobRecord /\ \A i \in Jobs : i # j => job'[i] = job[i]
  BY <1>1, <1>2, JobMoves DEF BackupInv
<1> QED  BY <1>1, <1>2, <1>3

\* What is deleted does not matter to what is kept as long as no job dooms more.
LEMMA KeptStays ==
    ASSUME BackupInv, sent' = sent, B!Stamps \subseteq B!Stamps', \A i \in Jobs : job'[i].doomed \subseteq job[i].doomed
    PROVE  KeptSafe(sent, B!Stamps)'
<1>1. B!SelectKeep(sent)' = B!SelectKeep(sent)
  BY DEF B!SelectKeep, B!PerBucket
<1> QED  BY <1>1 DEF BackupInv, KeptSafe

\* A backup that is new to the target is kept or not; what else is kept was kept before.
LEMMA KeptGrows ==
    ASSUME BackupInv, NEW t \in 1..MaxStamp, sent' = sent \cup {t}, B!Stamps' = B!Stamps \cup {t},
           \A i \in Jobs : job'[i].doomed \subseteq job[i].doomed,
           t \notin sent
    PROVE  KeptSafe(sent, B!Stamps)'
<1>1. sent' \subseteq 1..MaxStamp /\ sent \subseteq sent'
  BY DEF BackupInv, StoreTyped
<1>2. \A s \in B!SelectKeep(sent') : s \in sent' /\ (s \in sent => s \in B!SelectKeep(sent))
  <2>1. ASSUME NEW s \in B!SelectKeep(sent')
        PROVE  s \in sent'
    BY <2>1 DEF B!SelectKeep, B!PerBucket
  <2>2. ASSUME NEW s \in B!SelectKeep(sent'), s \in sent
        PROVE  s \in B!SelectKeep(sent)
    BY <1>1, <2>2, KeepShrinks
  <2> QED  BY <2>1, <2>2
<1>3. B!SelectKeep(sent)' = B!SelectKeep(sent')
  BY DEF B!SelectKeep, B!PerBucket
<1> QED  BY <1>2, <1>3 DEF BackupInv, KeptSafe, PutsFresh

\* A step after which fewer jobs put, and none dooms more, leaves the puts fresh.
LEMMA FreshStays ==
    ASSUME BackupInv, sent' = sent, clock' = clock, \A i \in Jobs : job'[i].doomed \subseteq job[i].doomed,
           \A i \in Jobs : job'[i].step = "put" => job'[i] = job[i]
    PROVE  PutsFresh'
  BY DEF BackupInv, PutsFresh

\* A backup begins with a stamp that no other one has.
LEMMA BackupBegins == ASSUME BackupInv, NEW j \in Jobs, B!BackupBegin(j)  PROVE BackupInv'
<1> DEFINE r == [B!NoJob EXCEPT !.step = "put", !.stamp = clock + 1]
<1>1. /\ proc = "up" /\ clock < MaxStamp /\ clock' = clock + 1 /\ job' = [job EXCEPT ![j] = r]
      /\ UNCHANGED <<proc, main, wal, staged, store, code, key, sent>>
  BY DEF B!BackupBegin, B!disk
<1>2. DiskTyped /\ StoreTyped /\ JobsTyped /\ PutsFresh /\ KeptSafe(sent, B!Stamps)
  BY DEF BackupInv
<1>3. clock \in Nat /\ MaxStamp \in Nat
  BY <1>2, BackupAssumption DEF DiskTyped
<1>4. r \in JobRecords /\ r.doomed = {} /\ r.step = "put" /\ r.stamp = clock + 1 /\ r.stamp \in 1..MaxStamp
  <2>1. PICK d \in 1..MaxStamp : d = clock + 1
    BY <1>1, <1>3
  <2>2. d \in 0..MaxStamp /\ {} \in SUBSET (1..MaxStamp)
    BY <1>3, <2>1
  <2>3. r = [B!NoJob EXCEPT !.step = "put", !.stamp = d]
    BY <2>1
  <2> HIDE DEF r
  <2> QED  BY <2>1, <2>2, <2>3 DEF JobRecords, B!NoJob
<1> HIDE DEF r
<1>5. JobsTyped' /\ job'[j] = r /\ \A i \in Jobs : i # j => job'[i] = job[i]
  BY <1>1, <1>2, <1>4, JobMoves
<1>6. r.doomed = {} /\ r.step = "put" /\ r.stamp = clock + 1
  BY <1>4
<1>7. \A i \in Jobs : job'[i].doomed \subseteq job[i].doomed
  BY <1>5, <1>6
<1>8. KeptSafe(sent, B!Stamps)'
  BY <1>1, <1>7, KeptStays DEF B!Stamps
<1>9. PutsFresh'
  <2>1. /\ sent' \subseteq 1..clock' /\ \A i \in Jobs : job'[i].doomed \subseteq sent'
    BY <1>1, <1>2, <1>3, <1>7 DEF PutsFresh
  <2>2. ASSUME NEW i \in Jobs, i # j, job'[i].step = "put"
        PROVE  job'[i].stamp <= clock /\ job'[i].stamp \notin sent /\ job'[i].stamp \in Nat
    BY <1>2, <1>5, <2>2, BackupAssumption DEF PutsFresh, JobsTyped
  <2>3. clock + 1 \notin sent
    BY <1>2, <1>3 DEF PutsFresh
  <2>4. \A i \in Jobs : job'[i].step = "put" => job'[i].stamp <= clock + 1 /\ job'[i].stamp \notin sent
    BY <1>3, <1>5, <1>6, <2>2, <2>3
  <2>5. \A i \in Jobs : i # j /\ job'[i].step = "put" => job'[i].stamp # clock + 1
    BY <1>3, <2>2
  <2>6. \A i, k \in Jobs : i # k /\ job'[i].step = "put" /\ job'[k].step = "put" => job'[i].stamp # job'[k].stamp
    BY <1>2, <1>5, <1>6, <2>5 DEF PutsFresh
  <2> QED  BY <1>1, <2>1, <2>4, <2>6 DEF PutsFresh
<1>10. DiskTyped' /\ StoreTyped'
  BY <1>1, <1>2, <1>3 DEF DiskTyped, StoreTyped, B!Stamps
<1> QED  BY <1>5, <1>8, <1>9, <1>10 DEF BackupInv

\* What comes to the target has the job's stamp.
LEMMA BlobStored ==
    ASSUME BackupInv, NEW t \in 1..MaxStamp, NEW b, b.state = main.state, b.schema = main.schema,
           store' = [s \in B!Stamps \cup {t} |-> IF s = t THEN b ELSE store[s]], sent' = sent \cup {t}
    PROVE  StoreTyped' /\ B!Stamps' = B!Stamps \cup {t}
<1>1. DOMAIN store' = B!Stamps \cup {t}
  OBVIOUS
<1>2. B!Stamps' = B!Stamps \cup {t}
  BY <1>1 DEF B!Stamps
<1>3. store' = [s \in B!Stamps' |-> store'[s]]
  BY <1>2
<1>4. ASSUME NEW s \in B!Stamps'
      PROVE  store'[s].state \in {"whole", "behind", "mixed", "blank", "garbage"} /\ store'[s].schema \in 0..MaxSchema
  <2>1. CASE s = t
    BY <1>2, <2>1 DEF BackupInv, DiskTyped, Databases
  <2>2. CASE s # t
    BY <1>2, <1>4, <2>2 DEF BackupInv, StoreTyped
  <2> QED  BY <2>1, <2>2
<1> QED  BY <1>2, <1>3, <1>4 DEF BackupInv, StoreTyped

\* A backup that has come to the target may be kept.
LEMMA PutDone == ASSUME BackupInv, NEW j \in Jobs, B!PutOk(j)  PROVE BackupInv'
<1> DEFINE r == [job[j] EXCEPT !.step = "latest"]
<1>1. /\ job[j].step = "put" /\ job' = [job EXCEPT ![j] = r]
      /\ store' = [s \in B!Stamps \cup {job[j].stamp} |-> IF s = job[j].stamp THEN B!Snapshot ELSE store[s]]
      /\ sent' = sent \cup {job[j].stamp}
      /\ UNCHANGED <<proc, main, wal, staged, code, key, clock>>
  BY DEF B!PutOk, B!disk, B!env
<1>2. DiskTyped /\ StoreTyped /\ JobsTyped /\ PutsFresh /\ KeptSafe(sent, B!Stamps)
  BY DEF BackupInv
<1>3. job[j] \in JobRecords /\ proc = "up" /\ job[j].stamp \in 1..MaxStamp /\ job[j].stamp \notin sent
      /\ job[j].stamp <= clock
  BY <1>1, <1>2 DEF JobsTyped, PutsFresh
<1>4. r \in JobRecords /\ r.step = "latest" /\ r.stamp = job[j].stamp /\ r.doomed = job[j].doomed
  BY <1>3 DEF JobRecords
<1> HIDE DEF r
<1>5. JobsTyped' /\ job'[j] = r /\ \A i \in Jobs : i # j => job'[i] = job[i]
  BY <1>1, <1>2, <1>3, <1>4, JobMoves
<1>6. \A i \in Jobs : job'[i].doomed \subseteq job[i].doomed
  BY <1>4, <1>5
<1>7. PICK t \in 1..MaxStamp : t = job[j].stamp
  BY <1>3
<1>8. B!Snapshot.state = main.state /\ B!Snapshot.schema = main.schema
  BY DEF B!Snapshot, B!MaybeEncryptBackup
<1>9. StoreTyped' /\ B!Stamps' = B!Stamps \cup {t}
  BY <1>1, <1>7, <1>8, BlobStored
<1>10. KeptSafe(sent, B!Stamps)'
  BY <1>1, <1>3, <1>6, <1>7, <1>9, KeptGrows
<1>11. PutsFresh'
  <2>1. sent' \subseteq 1..clock'
    <3>1. PICK c \in Nat : c = clock
      BY <1>2 DEF DiskTyped
    <3>2. t \in 1..c
      BY <1>3, <1>7, <3>1
    <3> QED  BY <1>1, <1>2, <1>7, <3>1, <3>2 DEF PutsFresh
  <2>2. \A i \in Jobs : job'[i].step = "put" => i # j /\ job'[i] = job[i]
    BY <1>4, <1>5
  <2>3. \A i \in Jobs : job'[i].step = "put" => job'[i].stamp <= clock' /\ job'[i].stamp \notin sent'
    BY <1>1, <1>2, <2>2 DEF PutsFresh
  <2> QED  BY <1>1, <1>2, <1>6, <2>1, <2>2, <2>3 DEF PutsFresh
<1>12. DiskTyped'
  BY <1>1, <1>2 DEF DiskTyped
<1> QED  BY <1>5, <1>9, <1>10, <1>11, <1>12 DEF BackupInv

\* Of an upload that failed the target may have kept something.
LEMMA PutFailed == ASSUME BackupInv, NEW j \in Jobs, B!PutFails(j)  PROVE BackupInv'
<1>1. PICK left \in Leftovers :
         store' = IF left = "nothing" THEN store
                  ELSE [s \in B!Stamps \cup {job[j].stamp} |->
                           IF s = job[j].stamp THEN [B!Snapshot EXCEPT !.size = left] ELSE store[s]]
  BY DEF B!PutFails
<1>2. /\ job[j].step = "put" /\ sent' = sent \cup DOMAIN store' /\ B!RunEnds(j)
      /\ UNCHANGED <<proc, main, staged, code, key, clock>>
  BY DEF B!PutFails, B!env
<1>3. DiskTyped /\ StoreTyped /\ JobsTyped /\ PutsFresh /\ KeptSafe(sent, B!Stamps)
  BY DEF BackupInv
<1>4. proc = "up" /\ job[j].stamp \in 1..MaxStamp /\ job[j].stamp \notin sent /\ job[j].stamp <= clock
  BY <1>2, <1>3 DEF JobsTyped, PutsFresh
<1>5. /\ JobsTyped' /\ wal' = TRUE
      /\ \A i \in Jobs : job'[i].doomed \subseteq job[i].doomed
      /\ \A i \in Jobs : job'[i].step = "put" => i # j /\ job'[i] = job[i]
  BY <1>2, RunEnded
<1>6. DiskTyped'
  BY <1>2, <1>3, <1>5 DEF DiskTyped
<1>7. CASE store' = store
  <2>1. sent' = sent /\ B!Stamps' = B!Stamps
    BY <1>2, <1>3, <1>7 DEF StoreTyped, B!Stamps
  <2>2. PutsFresh' /\ KeptSafe(sent, B!Stamps)'
    BY <1>2, <1>5, <2>1, FreshStays, KeptStays
  <2>3. StoreTyped'
    BY <1>3, <1>7, <2>1 DEF StoreTyped
  <2> QED  BY <1>5, <1>6, <2>2, <2>3 DEF BackupInv
<1>8. CASE store' = [s \in B!Stamps \cup {job[j].stamp} |->
                        IF s = job[j].stamp THEN [B!Snapshot EXCEPT !.size = left] ELSE store[s]]
  <2>1. PICK t \in 1..MaxStamp : t = job[j].stamp
    BY <1>4
  <2>2. PICK b : b = [B!Snapshot EXCEPT !.size = left]
    OBVIOUS
  <2>3. b.state = main.state /\ b.schema = main.schema
    BY <2>2 DEF B!Snapshot, B!MaybeEncryptBackup
  <2>4. store' = [s \in B!Stamps \cup {t} |-> IF s = t THEN b ELSE store[s]]
    BY <1>8, <2>1, <2>2
  <2>5. sent' = sent \cup {t}
    BY <1>2, <1>3, <2>4 DEF StoreTyped
  <2>6. StoreTyped' /\ B!Stamps' = B!Stamps \cup {t}
    BY <2>3, <2>4, <2>5, BlobStored
  <2>7. KeptSafe(sent, B!Stamps)'
    BY <1>4, <1>5, <2>1, <2>5, <2>6, KeptGrows
  <2>8. PutsFresh'
    <3>1. sent' \subseteq 1..clock'
      <4>1. PICK c \in Nat : c = clock
        BY <1>3 DEF DiskTyped
      <4>2. t \in 1..c
        BY <1>4, <2>1, <4>1
      <4> QED  BY <1>2, <1>3, <2>5, <4>1, <4>2 DEF PutsFresh
    <3>2. \A i \in Jobs : job'[i].step = "put" => job'[i].stamp <= clock' /\ job'[i].stamp \notin sent'
      BY <1>2, <1>3, <1>5, <2>1, <2>5 DEF PutsFresh
    <3> QED  BY <1>2, <1>3, <1>5, <2>5, <3>1, <3>2 DEF PutsFresh
  <2> QED  BY <1>5, <1>6, <2>6, <2>7, <2>8 DEF BackupInv
<1> QED  BY <1>1, <1>7, <1>8

\* The latest copy is nothing that is listed.
LEMMA LatestPut == ASSUME BackupInv, NEW j \in Jobs, NEW ok \in BOOLEAN, B!PutLatest(j, ok)  PROVE BackupInv'
<1> DEFINE r == [job[j] EXCEPT !.step = "list"]
<1>1. /\ job[j].step = "latest" /\ UNCHANGED <<proc, main, staged, store, code, key, clock, sent>>
      /\ (job' = [job EXCEPT ![j] = r] /\ wal' = wal) \/ B!RunEnds(j)
  BY DEF B!PutLatest, B!env
<1>2. DiskTyped /\ StoreTyped /\ JobsTyped /\ PutsFresh /\ KeptSafe(sent, B!Stamps)
  BY DEF BackupInv
<1>3. job[j] \in JobRecords /\ proc = "up" /\ job[j].stamp \in 1..MaxStamp
  BY <1>1, <1>2 DEF JobsTyped
<1>4. r \in JobRecords /\ r.step = "list" /\ r.stamp = job[j].stamp /\ r.doomed = job[j].doomed
  BY <1>3 DEF JobRecords
<1> HIDE DEF r
<1>5. /\ JobsTyped' /\ wal' \in BOOLEAN
      /\ \A i \in Jobs : job'[i].doomed \subseteq job[i].doomed
      /\ \A i \in Jobs : job'[i].step = "put" => job'[i] = job[i]
  <2>1. CASE B!RunEnds(j)
    BY <1>1, <2>1, RunEnded
  <2>2. CASE job' = [job EXCEPT ![j] = r] /\ wal' = wal
    <3>1. JobsTyped' /\ job'[j] = r /\ \A i \in Jobs : i # j => job'[i] = job[i]
      BY <1>1, <1>2, <1>3, <1>4, <2>2, JobMoves
    <3> QED  BY <1>2, <1>4, <2>2, <3>1 DEF DiskTyped
  <2> QED  BY <1>1, <2>1, <2>2
<1>6. DiskTyped' /\ StoreTyped'
  BY <1>1, <1>2, <1>5 DEF DiskTyped, StoreTyped, B!Stamps
<1>7. PutsFresh' /\ KeptSafe(sent, B!Stamps)'
  BY <1>1, <1>5, FreshStays, KeptStays DEF B!Stamps
<1> QED  BY <1>5, <1>6, <1>7 DEF BackupInv

\* Of what is listed, pruning dooms nothing that is kept of all backups.
LEMMA PruneListed == ASSUME BackupInv, NEW j \in Jobs, NEW ok \in BOOLEAN, B!ListForPrune(j, ok)  PROVE BackupInv'
<1> DEFINE listed == B!List(ok)
           r == [job[j] EXCEPT !.step = "prune", !.doomed = listed \ B!SelectKeep(listed)]
<1>1. /\ job[j].step = "list" /\ job' = [job EXCEPT ![j] = r]
      /\ UNCHANGED <<proc, main, wal, staged, store, code, key, clock, sent>>
  BY DEF B!ListForPrune, B!disk, B!env
<1>2. DiskTyped /\ StoreTyped /\ JobsTyped /\ PutsFresh /\ KeptSafe(sent, B!Stamps)
  BY DEF BackupInv
<1>3. job[j] \in JobRecords /\ proc = "up" /\ job[j].stamp \in 1..MaxStamp
  BY <1>1, <1>2 DEF JobsTyped
<1>4. listed \subseteq sent /\ sent \subseteq 1..MaxStamp
  BY <1>2 DEF B!List, StoreTyped
<1>5. (listed \ B!SelectKeep(listed)) \cap B!SelectKeep(sent) = {}
  <2> SUFFICES ASSUME NEW s \in listed, s \in B!SelectKeep(sent)
               PROVE  s \in B!SelectKeep(listed)
    OBVIOUS
  <2> QED  BY <1>4, KeepShrinks
<1>6. r \in JobRecords /\ r.step = "prune" /\ r.stamp = job[j].stamp /\ r.doomed = listed \ B!SelectKeep(listed)
  <2>1. listed \ B!SelectKeep(listed) \in SUBSET (1..MaxStamp)
    BY <1>4
  <2> HIDE DEF listed
  <2> QED  BY <1>3, <2>1 DEF JobRecords
<1> HIDE DEF r, listed
<1>7. JobsTyped' /\ job'[j] = r /\ \A i \in Jobs : i # j => job'[i] = job[i]
  BY <1>1, <1>2, <1>3, <1>6, JobMoves
<1>8. KeptSafe(sent, B!Stamps)'
  <2>1. B!SelectKeep(sent)' = B!SelectKeep(sent) /\ B!Stamps' = B!Stamps
    BY <1>1 DEF B!SelectKeep, B!PerBucket, B!Stamps
  <2> QED  BY <1>2, <1>5, <1>6, <1>7, <2>1 DEF KeptSafe
<1>9. PutsFresh'
  <2>1. \A i \in Jobs : job'[i].doomed \subseteq sent'
    BY <1>1, <1>2, <1>4, <1>6, <1>7 DEF PutsFresh
  <2>2. \A i \in Jobs : job'[i].step = "put" => job'[i] = job[i]
    BY <1>6, <1>7
  <2> QED  BY <1>1, <1>2, <2>1, <2>2 DEF PutsFresh
<1>10. DiskTyped' /\ StoreTyped'
  BY <1>1, <1>2 DEF DiskTyped, StoreTyped, B!Stamps
<1> QED  BY <1>7, <1>8, <1>9, <1>10 DEF BackupInv

\* Only what is doomed is deleted, and that is nothing to keep.
LEMMA DoomedDeleted == ASSUME BackupInv, NEW j \in Jobs, NEW ok \in BOOLEAN, B!DeleteOne(j, ok)  PROVE BackupInv'
<1>1. PICK s \in job[j].doomed :
         /\ job[j].step = "prune"
         /\ store' = IF ok THEN [t \in B!Stamps \ {s} |-> store[t]] ELSE store
         /\ \/ job' = [job EXCEPT ![j].doomed = @ \ {s}] /\ UNCHANGED wal
            \/ B!RunEnds(j)
         /\ UNCHANGED <<proc, main, staged, code, key, clock, sent>>
  BY DEF B!DeleteOne, B!env
<1> DEFINE r == [job[j] EXCEPT !.doomed = @ \ {s}]
<1>2. DiskTyped /\ StoreTyped /\ JobsTyped /\ PutsFresh /\ KeptSafe(sent, B!Stamps)
  BY DEF BackupInv
<1>3. job[j] \in JobRecords /\ proc = "up" /\ job[j].stamp \in 1..MaxStamp
  BY <1>1, <1>2 DEF JobsTyped
<1>4. r \in JobRecords /\ r.step = "prune" /\ r.stamp = job[j].stamp /\ r.doomed \subseteq job[j].doomed
  BY <1>1, <1>3 DEF JobRecords
<1>5. (job' = [job EXCEPT ![j] = r] /\ wal' = wal) \/ B!RunEnds(j)
  BY <1>1
<1> HIDE DEF r
<1>6. /\ JobsTyped' /\ wal' \in BOOLEAN
      /\ \A i \in Jobs : job'[i].doomed \subseteq job[i].doomed
      /\ \A i \in Jobs : job'[i].step = "put" => job'[i] = job[i]
  <2>1. CASE B!RunEnds(j)
    BY <1>1, <2>1, RunEnded
  <2>2. CASE job' = [job EXCEPT ![j] = r] /\ wal' = wal
    <3>1. JobsTyped' /\ job'[j] = r /\ \A i \in Jobs : i # j => job'[i] = job[i]
      BY <1>1, <1>2, <1>3, <1>4, <2>2, JobMoves
    <3> QED  BY <1>2, <1>4, <2>2, <3>1 DEF DiskTyped
  <2> QED  BY <1>5, <2>1, <2>2
<1>7. PutsFresh'
  BY <1>1, <1>6, FreshStays
<1>8. s \notin B!SelectKeep(sent)
  BY <1>1, <1>2 DEF KeptSafe
<1>9. StoreTyped' /\ B!SelectKeep(sent) \subseteq B!Stamps'
  <2>1. CASE ok
    <3>1. store' = [t \in B!Stamps \ {s} |-> store[t]] /\ B!Stamps' = B!Stamps \ {s}
      BY <1>1, <2>1 DEF B!Stamps
    <3>2. store' = [t \in B!Stamps' |-> store'[t]]
      BY <3>1
    <3>3. \A t \in B!Stamps' : store'[t] = store[t] /\ t \in B!Stamps
      BY <3>1
    <3> QED  BY <1>1, <1>2, <1>8, <3>1, <3>2, <3>3 DEF StoreTyped, KeptSafe
  <2>2. CASE ~ok
    <3>1. store' = store /\ B!Stamps' = B!Stamps
      BY <1>1, <2>2 DEF B!Stamps
    <3> QED  BY <1>1, <1>2, <3>1 DEF StoreTyped, KeptSafe
  <2> QED  BY <2>1, <2>2
<1>10. KeptSafe(sent, B!Stamps)'
  <2>1. B!SelectKeep(sent)' = B!SelectKeep(sent)
    BY <1>1 DEF B!SelectKeep, B!PerBucket
  <2> QED  BY <1>2, <1>6, <1>9, <2>1 DEF KeptSafe
<1>11. DiskTyped'
  BY <1>1, <1>2, <1>6 DEF DiskTyped
<1> QED  BY <1>6, <1>7, <1>9, <1>10, <1>11 DEF BackupInv

\* A run ends when all that was doomed has been asked for.
LEMMA BackupEnded == ASSUME BackupInv, NEW j \in Jobs, B!BackupEnd(j)  PROVE BackupInv'
<1>1. /\ B!RunEnds(j) /\ UNCHANGED <<proc, main, staged, store, code, key, clock, sent>>
  BY DEF B!BackupEnd, B!env
<1>2. /\ JobsTyped' /\ wal' = TRUE
      /\ \A i \in Jobs : job'[i].doomed \subseteq job[i].doomed
      /\ \A i \in Jobs : job'[i].step = "put" => job'[i] = job[i]
  BY <1>1, RunEnded
<1>3. DiskTyped' /\ StoreTyped'
  BY <1>1, <1>2 DEF BackupInv, DiskTyped, StoreTyped, B!Stamps
<1>4. PutsFresh' /\ KeptSafe(sent, B!Stamps)'
  BY <1>1, <1>2, FreshStays, KeptStays DEF B!Stamps
<1> QED  BY <1>2, <1>3, <1>4 DEF BackupInv

\* What changes only the controller's disk and process leaves the backups alone.
LEMMA BackupsStay ==
    ASSUME BackupInv, UNCHANGED <<store, sent, clock>>, job' = job \/ (job' = [j \in Jobs |-> NoJobRecord]),
           proc' = proc \/ job' # job \/ proc # "up"
    PROVE  StoreTyped' /\ JobsTyped' /\ PutsFresh' /\ KeptSafe(sent, B!Stamps)'
<1>1. NoJobRecord \in JobRecords /\ NoJobRecord.step = "idle" /\ NoJobRecord.doomed = {}
  BY BackupAssumption DEF NoJobRecord, JobRecords
<1>2. /\ \A i \in Jobs : job'[i].doomed \subseteq job[i].doomed
      /\ \A i \in Jobs : job'[i].step = "put" => job'[i] = job[i]
  BY <1>1
<1>3. PutsFresh' /\ KeptSafe(sent, B!Stamps)'
  BY <1>2, FreshStays, KeptStays DEF B!Stamps
<1>4. JobsTyped'
  <2>1. CASE job' = job /\ (proc' = proc \/ proc # "up")
    BY <2>1 DEF BackupInv, JobsTyped
  <2>2. CASE job' = [j \in Jobs |-> NoJobRecord]
    BY <1>1, <2>2 DEF JobsTyped
  <2> QED  BY <2>1, <2>2
<1>5. StoreTyped'
  BY DEF BackupInv, StoreTyped, B!Stamps
<1> QED  BY <1>3, <1>4, <1>5

\* What a blob holds when it is opened.
LEMMA DecodedTyped ==
    ASSUME BackupInv, NEW s \in B!Stamps
    PROVE  B!Decoded(store[s]) \in Databases
<1>1. store[s].state \in {"whole", "behind", "mixed", "blank", "garbage"} /\ store[s].schema \in 0..MaxSchema
  BY DEF BackupInv, StoreTyped
<1>2. MaxSchema \in Nat
  BY BackupAssumption
<1>3. /\ [state |-> "blank", schema |-> 0] \in Databases
      /\ [state |-> store[s].state, schema |-> store[s].schema] \in Databases
      /\ [state |-> "garbage", schema |-> store[s].schema] \in Databases
  BY <1>1, <1>2 DEF Databases
<1> QED  BY <1>3 DEF B!Decoded

\* Restores, commits, and the start of the process.
LEMMA DiskMoves ==
    ASSUME BackupInv,
           \/ \E s \in B!Stamps : B!StageRestore(s)
           \/ B!Write \/ B!Checkpoint \/ B!RemoveWal \/ B!RenameStaged \/ B!OpenPlain \/ B!Migrate \/ B!Started
    PROVE  BackupInv'
<1>1. DiskTyped /\ main \in Databases /\ MaxSchema \in Nat
  BY BackupAssumption DEF BackupInv, DiskTyped
<1>2. \A d \in Databases : [d EXCEPT !.state = "behind"] \in Databases /\ [d EXCEPT !.state = "mixed"] \in Databases
  BY DEF Databases
<1>3. UNCHANGED <<store, sent, clock, job, code, key>> /\ (proc' = proc \/ proc # "up")
  BY DEF B!StageRestore, B!Write, B!Checkpoint, B!RemoveWal, B!RenameStaged, B!OpenPlain, B!Migrate, B!Started,
         B!env, B!disk
<1>4. DiskTyped'
  <2>1. ASSUME NEW s \in B!Stamps, B!StageRestore(s)  PROVE DiskTyped'
    BY <1>1, <1>3, <2>1, DecodedTyped DEF B!StageRestore, DiskTyped
  <2>2. CASE B!Write \/ B!Checkpoint
    BY <1>1, <1>3, <2>2 DEF B!Write, B!Checkpoint, DiskTyped
  <2>3. CASE B!RemoveWal
    <3>1. main' \in Databases
      BY <1>1, <1>2, <2>3 DEF B!RemoveWal
    <3> QED  BY <1>1, <1>3, <2>3, <3>1 DEF B!RemoveWal, DiskTyped
  <2>4. CASE B!RenameStaged
    <3>1. main' \in Databases
      BY <1>1, <1>2, <2>4 DEF B!RenameStaged, DiskTyped
    <3> QED  BY <1>1, <1>3, <2>4, <3>1 DEF B!RenameStaged, DiskTyped
  <2>5. CASE B!OpenPlain
    BY <1>1, <1>3, <2>5 DEF B!OpenPlain, B!disk, DiskTyped
  <2>6. CASE B!Migrate
    <3>1. main' \in Databases
      <4>1. PICK n \in 0..MaxSchema, c \in 1..MaxSchema : n = main.schema /\ c = code
        BY <1>1 DEF Databases, DiskTyped
      <4>2. n + 1 \in 0..MaxSchema
        BY <1>1, <2>6, <4>1 DEF B!Migrate
      <4>3. main' = [main EXCEPT !.schema = n + 1]
        BY <2>6, <4>1 DEF B!Migrate
      <4> QED  BY <1>1, <4>2, <4>3 DEF Databases
    <3> QED  BY <1>1, <1>3, <2>6, <3>1 DEF B!Migrate, DiskTyped
  <2>7. CASE B!Started
    BY <1>1, <1>3, <2>7 DEF B!Started, B!disk, DiskTyped
  <2> QED  BY <2>1, <2>2, <2>3, <2>4, <2>5, <2>6, <2>7
<1> QED  BY <1>3, <1>4, BackupsStay DEF BackupInv

\* The end of the process is the end of its backups.
LEMMA BackupsStopped == ASSUME BackupInv, B!Stops  PROVE BackupInv'
<1>1. /\ proc # "down" /\ proc' = "down" /\ job' = [j \in Jobs |-> NoJobRecord]
      /\ code' \in code..MaxSchema /\ key' \in Keys
      /\ UNCHANGED <<main, wal, staged, store, clock, sent>>
  BY DEF B!Stops, B!NoJob, NoJobRecord, B!disk
<1>2. DiskTyped'
  <2>1. code' \in 1..MaxSchema
    BY <1>1, BackupAssumption DEF BackupInv, DiskTyped
  <2> QED  BY <1>1, <2>1 DEF BackupInv, DiskTyped
<1>3. JobsTyped' /\ StoreTyped' /\ PutsFresh' /\ KeptSafe(sent, B!Stamps)'
  <2>1. CASE job' = job
    <3>1. \A j \in Jobs : job[j].step = "idle"
      BY <1>1, <2>1 DEF NoJobRecord
    <3>2. JobsTyped'
      BY <2>1, <3>1 DEF BackupInv, JobsTyped
    <3> QED  BY <1>1, <2>1, <3>2, FreshStays, KeptStays DEF BackupInv, StoreTyped, B!Stamps
  <2>2. CASE job' # job
    BY <1>1, <2>2, BackupsStay
  <2> QED  BY <2>1, <2>2
<1> QED  BY <1>2, <1>3 DEF BackupInv

\* The first process begins with a whole database and an empty target.
LEMMA BackupsBegin == B!Init => BackupInv
<1> SUFFICES ASSUME B!Init
             PROVE  BackupInv
  OBVIOUS
<1>1. /\ proc = "up" /\ main = [state |-> "whole", schema |-> 1] /\ wal = FALSE /\ staged = None
      /\ job = [j \in Jobs |-> NoJobRecord] /\ code = 1 /\ key \in Keys /\ clock = 0 /\ sent = {}
  BY DEF B!Init, B!Whole, B!NoJob, NoJobRecord
<1>2. store = [s \in {} |-> None]
  BY DEF B!Init
<1>3. B!Stamps = {}
  BY <1>2 DEF B!Stamps
<1>4. NoJobRecord \in JobRecords /\ NoJobRecord.step = "idle" /\ NoJobRecord.doomed = {}
  BY BackupAssumption DEF NoJobRecord, JobRecords
<1>5. main \in Databases
  BY <1>1, BackupAssumption DEF Databases
<1>6. DiskTyped
  <2>1. 1 \in 1..MaxSchema /\ 0 \in Nat
    BY BackupAssumption
  <2>2. code \in 1..MaxSchema /\ clock \in Nat
    BY <1>1, <2>1
  <2> QED  BY <1>1, <1>5, <2>2, Zenon DEF DiskTyped
<1>7. StoreTyped
  <2>1. store = [s \in {} |-> store[s]]
    BY <1>2
  <2>2. store = [s \in B!Stamps |-> store[s]]
    BY <1>3, <2>1
  <2>3. B!Stamps \subseteq sent /\ sent \subseteq 1..MaxStamp /\ \A s \in B!Stamps : FALSE
    BY <1>1, <1>3
  <2> QED  BY <2>2, <2>3, Zenon DEF StoreTyped
<1>8. JobsTyped /\ PutsFresh
  BY <1>1, <1>4 DEF JobsTyped, PutsFresh
<1>9. KeptSafe(sent, B!Stamps)
  <2>1. B!SelectKeep(sent) = {}
    BY <1>1 DEF B!SelectKeep, B!PerBucket
  <2> QED  BY <2>1 DEF KeptSafe
<1> QED  BY <1>6, <1>7, <1>8, <1>9 DEF BackupInv

\* Every step of Backups is one of these.
LEMMA BackupStep == BackupInv /\ B!Next => BackupInv'
  BY BackupBegins, PutDone, PutFailed, LatestPut, PruneListed, DoomedDeleted, BackupEnded, DiskMoves, BackupsStopped
  DEF B!Next

\* Steps of other parts of the controller leave the backups alone.
LEMMA BackupsUnchanged == BackupInv /\ UNCHANGED backupVars => BackupInv'
<1> SUFFICES ASSUME BackupInv, UNCHANGED backupVars
             PROVE  BackupInv'
  OBVIOUS
<1>1. UNCHANGED <<proc, main, wal, staged, store, job, code, key, clock, sent>>
  BY DEF backupVars
<1>2. DiskTyped'
  BY <1>1 DEF BackupInv, DiskTyped
<1>3. StoreTyped' /\ JobsTyped' /\ PutsFresh' /\ KeptSafe(sent, B!Stamps)'
  BY <1>1, BackupsStay
<1> QED  BY <1>2, <1>3 DEF BackupInv

\* What the run checks of types and retention follows.
LEMMA BackupHolds == BackupInv => B!TypeOK /\ B!RetentionHolds
<1> SUFFICES ASSUME BackupInv
             PROVE  B!TypeOK /\ B!RetentionHolds
  OBVIOUS
<1>1. B!RetentionHolds
  BY PromisesKept DEF BackupInv, StoreTyped, KeptSafe
<1>2. B!TypeOK
  BY DEF BackupInv, DiskTyped, StoreTyped, Databases, B!TypeOK
<1> QED  BY <1>1, <1>2

\* Every database that is or was in use, is staged or is in a backup is a whole one,
\* but for the one that a staged restore is about to replace.
WholeInv ==
    /\ \A s \in B!Stamps : store[s].state = "whole" /\ store[s].size # "empty" /\ store[s].key # None
    /\ staged # None => staged.state = "whole"
    /\ main.state = "whole" \/ (staged # None /\ proc \in {"down", "unlogged"})
    /\ proc = "unlogged" => wal = FALSE
    /\ proc = "up" => main.schema >= code

\* Backups are taken of the database that is in use.
LEMMA WholeStored ==
    ASSUME BackupInv, WholeInv, proc = "up", key # None, NEW t, NEW b,
           b.state = main.state, b.size # "empty", b.key = key,
           store' = [s \in B!Stamps \cup {t} |-> IF s = t THEN b ELSE store[s]]
    PROVE  \A s \in B!Stamps' : store'[s].state = "whole" /\ store'[s].size # "empty" /\ store'[s].key # None
<1>1. B!Stamps' = B!Stamps \cup {t}
  BY DEF B!Stamps
<1>2. main.state = "whole"
  BY DEF WholeInv
<1> SUFFICES ASSUME NEW s \in B!Stamps'
             PROVE  store'[s].state = "whole" /\ store'[s].size # "empty" /\ store'[s].key # None
  OBVIOUS
<1>3. CASE s = t
  BY <1>1, <1>2, <1>3
<1>4. CASE s # t
  BY <1>1, <1>4 DEF WholeInv
<1> QED  BY <1>3, <1>4

\* The steps of backups, if nothing is left of a failed upload but a part of it.
LEMMA WholeBackups ==
    ASSUME "empty" \notin Leftovers, None \notin Keys, BackupInv, WholeInv, NEW j \in Jobs, NEW ok \in BOOLEAN,
           \/ B!BackupBegin(j) \/ B!PutOk(j) \/ B!PutFails(j) \/ B!BackupEnd(j)
           \/ B!PutLatest(j, ok) \/ B!ListForPrune(j, ok) \/ B!DeleteOne(j, ok)
    PROVE  WholeInv'
<1>1. /\ job[j].step # "idle" \/ B!BackupBegin(j)
      /\ UNCHANGED <<proc, main, staged, code>>
  BY DEF B!BackupBegin, B!PutOk, B!PutFails, B!BackupEnd, B!PutLatest, B!ListForPrune, B!DeleteOne, B!disk, B!env
<1>2. proc = "up" /\ key # None
  BY <1>1 DEF BackupInv, JobsTyped, DiskTyped, B!BackupBegin
<1>3. SUFFICES \A s \in B!Stamps' : store'[s].state = "whole" /\ store'[s].size # "empty" /\ store'[s].key # None
  BY <1>1, <1>2 DEF WholeInv
<1>4. CASE store' = store
  BY <1>4 DEF WholeInv, B!Stamps
<1>5. CASE B!PutOk(j)
  <2>1. /\ B!Snapshot.state = main.state /\ B!Snapshot.key = key /\ B!Snapshot.size # "empty"
    BY DEF B!Snapshot, B!MaybeEncryptBackup
  <2>2. store' = [s \in B!Stamps \cup {job[j].stamp} |-> IF s = job[j].stamp THEN B!Snapshot ELSE store[s]]
    BY <1>5 DEF B!PutOk
  <2> HIDE DEF B!Snapshot
  <2> QED  BY <1>2, <2>1, <2>2, WholeStored
<1>6. CASE B!PutFails(j)
  <2>1. PICK left \in Leftovers :
           store' = IF left = "nothing" THEN store
                    ELSE [s \in B!Stamps \cup {job[j].stamp} |->
                             IF s = job[j].stamp THEN [B!Snapshot EXCEPT !.size = left] ELSE store[s]]
    BY <1>6 DEF B!PutFails
  <2>2. CASE left # "nothing"
    <3>1. PICK b : b = [B!Snapshot EXCEPT !.size = left]
      OBVIOUS
    <3>2. left # "empty"
      OBVIOUS
    <3>3. b.state = main.state /\ b.key = key /\ b.size = left
      BY <3>1 DEF B!Snapshot, B!MaybeEncryptBackup
    <3>4. store' = [s \in B!Stamps \cup {job[j].stamp} |-> IF s = job[j].stamp THEN b ELSE store[s]]
      BY <2>1, <2>2, <3>1
    <3> QED  BY <1>2, <3>2, <3>3, <3>4, WholeStored
  <2>3. CASE left = "nothing"
    BY <1>4, <2>1, <2>3
  <2> QED  BY <2>2, <2>3
<1>7. CASE B!DeleteOne(j, ok)
  <2>1. PICK d : store' = IF ok THEN [t \in B!Stamps \ {d} |-> store[t]] ELSE store
    BY <1>7 DEF B!DeleteOne
  <2>2. CASE ok
    <3>1. store' = [t \in B!Stamps \ {d} |-> store[t]] /\ B!Stamps' = B!Stamps \ {d}
      BY <2>1, <2>2 DEF B!Stamps
    <3> QED  BY <3>1 DEF WholeInv
  <2> QED  BY <1>4, <2>1, <2>2
<1>8. CASE B!BackupBegin(j) \/ B!BackupEnd(j) \/ B!PutLatest(j, ok) \/ B!ListForPrune(j, ok)
  BY <1>4, <1>8 DEF B!BackupBegin, B!BackupEnd, B!PutLatest, B!ListForPrune, B!disk
<1> QED  BY <1>5, <1>6, <1>7, <1>8

\* A blob that decrypts is a backup that came whole.
LEMMA DecryptedWhole ==
    ASSUME WholeInv, NEW s \in B!Stamps, B!DecryptBackup(store[s])
    PROVE  B!Decoded(store[s]).state = "whole"
<1>1. store[s].state = "whole" /\ store[s].size # "empty" /\ store[s].key # None
  BY DEF WholeInv
<1>2. store[s].key = key /\ store[s].size = "full"
  BY <1>1 DEF B!DecryptBackup, B!Enveloped
<1> QED  BY <1>1, <1>2 DEF B!Decoded

\* Wherever a restore is cut off, the log of the database it replaces is gone before
\* the staged one is in its place.
LEMMA WholeDisk ==
    ASSUME BackupInv, WholeInv,
           \/ \E s \in B!Stamps : B!StageRestore(s)
           \/ B!Write \/ B!Checkpoint \/ B!Stops \/ B!RemoveWal \/ B!RenameStaged \/ B!OpenPlain
           \/ B!Migrate \/ B!Started
    PROVE  WholeInv'
<1>1. store' = store /\ \A s \in B!Stamps' : store'[s].state = "whole" /\ store'[s].size # "empty" /\ store'[s].key # None
  BY DEF B!StageRestore, B!Write, B!Checkpoint, B!Stops, B!RemoveWal, B!RenameStaged, B!OpenPlain, B!Migrate, B!Started,
         B!disk, WholeInv, B!Stamps
<1>2. ASSUME NEW s \in B!Stamps, B!StageRestore(s)  PROVE WholeInv'
  BY <1>1, <1>2, DecryptedWhole DEF B!StageRestore, B!env, WholeInv
<1>3. CASE B!Write \/ B!Checkpoint
  BY <1>1, <1>3 DEF B!Write, B!Checkpoint, B!env, WholeInv
<1>4. CASE B!Stops
  BY <1>1, <1>4 DEF B!Stops, B!disk, WholeInv
<1>5. CASE B!RemoveWal
  BY <1>1, <1>5 DEF B!RemoveWal, B!env, WholeInv
<1>6. CASE B!RenameStaged
  BY <1>1, <1>6 DEF B!RenameStaged, B!env, WholeInv, BackupInv, DiskTyped
<1>7. CASE B!OpenPlain
  BY <1>1, <1>7 DEF B!OpenPlain, B!disk, B!env, WholeInv
<1>8. CASE B!Migrate
  <2>1. main'.state = main.state
    <3>1. main \in Databases
      BY DEF BackupInv, DiskTyped
    <3> QED  BY <1>8, <3>1 DEF B!Migrate, Databases
  <2> QED  BY <1>1, <1>8, <2>1 DEF B!Migrate, B!env, WholeInv
<1>9. CASE B!Started
  BY <1>1, <1>9 DEF B!Started, B!disk, B!env, WholeInv
<1> QED  BY <1>2, <1>3, <1>4, <1>5, <1>6, <1>7, <1>8, <1>9

\* The first database is whole, and nothing is staged.
LEMMA WholeBegins == B!Init => WholeInv
<1> SUFFICES ASSUME B!Init
             PROVE  WholeInv
  OBVIOUS
<1>1. B!Stamps = {}
  BY DEF B!Init, B!Stamps
<1>2. main.state = "whole" /\ main.schema = 1 /\ code = 1 /\ staged = None /\ proc = "up"
  BY DEF B!Init, B!Whole
<1> QED  BY <1>1, <1>2 DEF WholeInv

\* Every step keeps databases whole.
LEMMA WholeStep == "empty" \notin Leftovers /\ None \notin Keys /\ BackupInv /\ WholeInv /\ B!Next => WholeInv'
  BY WholeBackups, WholeDisk DEF B!Next

\* Steps of other parts of the controller touch no database.
LEMMA WholeUnchanged == WholeInv /\ UNCHANGED backupVars => WholeInv'
  BY DEF backupVars, WholeInv, B!Stamps

\* What the run checks of databases follows.
LEMMA WholeHolds == BackupInv /\ WholeInv => B!RunsOnWholeDatabase /\ B!TruncatedNeverStaged
  BY DEF WholeInv, B!RunsOnWholeDatabase, B!TruncatedNeverStaged

\* A step of the controller is a step of its backups, or leaves them.
LEMMA BackupPart ==
    ASSUME [Next]_vars
    PROVE  part' = part /\ (part = "backups" => B!Next \/ UNCHANGED backupVars)
  BY DEF Next, vars

\* Retention: whatever backups overlap, fail or are cut short, the newest of all that
\* ever came to the target are there, and those of the last weeks, months and years.
\* Uploads that fail may leave anything, and backups need not be encrypted.
THEOREM BackupsAreRetained == Spec => [](part = "backups" => B!TypeOK /\ B!RetentionHolds)
<1> DEFINE I == part = "backups" => BackupInv
<1>1. Init => I
  BY BackupsBegin DEF Init
<1>2. I /\ [Next]_vars => I'
  BY BackupPart, BackupStep, BackupsUnchanged
<1>3. I => (part = "backups" => B!TypeOK /\ B!RetentionHolds)
  BY BackupHolds
<1> QED  BY <1>1, <1>2, <1>3, PTL DEF Spec

\* The property the run checks of backups: what retention promises is there, a truncated
\* backup is never staged, and the controller runs on a whole database of its schema or
\* a newer one, wherever a restore or a start was cut off. It needs encryption, and that
\* no upload that failed leaves an empty file, which is taken for a plain database.
THEOREM BackupsAreRestored == "empty" \notin Leftovers /\ None \notin Keys => (Spec => []BackupsRestore)
<1> DEFINE I == part = "backups" => BackupInv /\ WholeInv
<1> SUFFICES ASSUME "empty" \notin Leftovers, None \notin Keys
             PROVE  Spec => []BackupsRestore
  OBVIOUS
<1>1. Init => I
  BY BackupsBegin, WholeBegins DEF Init
<1>2. I /\ [Next]_vars => I'
  BY BackupPart, BackupStep, BackupsUnchanged, WholeStep, WholeUnchanged
<1>3. I => BackupsRestore
  BY BackupHolds, WholeHolds DEF BackupsRestore
<1> QED  BY <1>1, <1>2, <1>3, PTL DEF Spec
-----------------------------------------------------------------------------
(***************************************************************************)
(* Upgrades.  What a database holds is told by the number of migrations it *)
(* has seen: each of them finds what the ones before it left, in the       *)
(* database in use and in the backup of an earlier one.                    *)
(***************************************************************************)
Signatures == {"invalid", "custom", "typed", NoRow}
TemplateRows == [sort : Nat, name : U!BuiltIn \cup {"own"}]
UidMaps == UNION {[ids -> U!Uids \cup {NoRow}] : ids \in SUBSET Nat}

UpgradeRows ==
    [applied : 0..26, legacy : BOOLEAN, admins : SUBSET U!LoginNames, templates : SUBSET TemplateRows,
     body : {NoRow, "invalid", "plain", "footed"}, html : Signatures, text : Signatures,
     uid : UidMaps, nextId : Nat \ {0}, deleted : SUBSET U!BuiltIn, chosen : Signatures]

\* Templates come with 0017 and the introduction with 0022, in places of their own.
TemplatesFit(d) ==
    /\ \E b \in Nat : \A t \in d.templates : t.sort <= b
    /\ \A t \in d.templates : t.name \notin d.deleted
    /\ \A t, u \in d.templates : t # u => t.sort # u.sort /\ (t.name = u.name => t.name \notin U!BuiltIn)
    /\ d.applied < 17 => d.templates = {} /\ d.deleted = {}
    /\ d.applied < 22 => U!Intro \notin d.deleted /\ \A t \in d.templates : t.name # U!Intro

\* The signature an admin chose is in the one setting or in the other.
SignatureFits(d) ==
    /\ d.applied < 19 =>
          /\ d.text = NoRow /\ d.html # "typed"
          /\ d.chosen = IF d.html = "custom" THEN "custom" ELSE NoRow
    /\ d.applied >= 19 => d.html = NoRow /\ d.text = d.chosen
    /\ d.applied >= 18 => d.body # "footed"

\* UIDs come with 0020, one for each student.
UidsFit(d) ==
    /\ IsFiniteSet(U!Students(d)) /\ U!Students(d) \subseteq 1..(d.nextId - 1)
    /\ d.applied < 20 => \A i \in U!Students(d) : d.uid[i] = NoRow
    /\ d.applied >= 20 => /\ \A i \in U!Students(d) : d.uid[i] \in U!Uids
                          /\ \A i, j \in U!Students(d) : d.uid[i] = d.uid[j] => i = j

AdminsFit(d) == d.applied >= 14 => \A m \in d.admins : U!Normal(m) = m

UpgradeFits(d) == d \in UpgradeRows /\ TemplatesFit(d) /\ SignatureFits(d) /\ UidsFit(d) /\ AdminsFit(d)

UpgradeInv ==
    /\ UpgradeFits(data) /\ UpgradeFits(copy)
    /\ server = "running" => data.applied = 26

\* The migrations that look at data are each in one place.
LEMMA Places ==
    /\ U!Latest = 26
    /\ \A k \in 1..26 : /\ U!MIGRATIONS[k] = "0009_redesign_placements" <=> k = 9
                        /\ U!MIGRATIONS[k] = "0014_normalize_emails" <=> k = 14
                        /\ U!MIGRATIONS[k] = "0017_announcement_templates" <=> k = 17
                        /\ U!MIGRATIONS[k] = "0018_universal_email_signature" <=> k = 18
                        /\ U!MIGRATIONS[k] = "0019_plain_text_email_signature" <=> k = 19
                        /\ U!MIGRATIONS[k] = "0020_student_linux_uid" <=> k = 20
                        /\ U!MIGRATIONS[k] = "0022_system_intro_template" <=> k = 22
<1>1. U!Latest = 26
  BY DEF U!Latest, U!MIGRATIONS
<1> SUFFICES ASSUME NEW k \in 1..26
             PROVE  /\ U!MIGRATIONS[k] = "0009_redesign_placements" <=> k = 9
                    /\ U!MIGRATIONS[k] = "0014_normalize_emails" <=> k = 14
                    /\ U!MIGRATIONS[k] = "0017_announcement_templates" <=> k = 17
                    /\ U!MIGRATIONS[k] = "0018_universal_email_signature" <=> k = 18
                    /\ U!MIGRATIONS[k] = "0019_plain_text_email_signature" <=> k = 19
                    /\ U!MIGRATIONS[k] = "0020_student_linux_uid" <=> k = 20
                    /\ U!MIGRATIONS[k] = "0022_system_intro_template" <=> k = 22
  BY <1>1
<1>2. k \in 1..9 \/ k \in 10..18 \/ k \in 19..26
  OBVIOUS
<1> QED  BY <1>2 DEF U!MIGRATIONS

-----------------------------------------------------------------------------
(* Databases with some fields changed.                                     *)

AppliedAs(d, n) == [d EXCEPT !.applied = n]

\* The number of migrations changes nothing else.
LEMMA AppliedTyped ==
    ASSUME NEW d \in UpgradeRows, NEW n \in 0..26
    PROVE  /\ AppliedAs(d, n) \in UpgradeRows
           /\ AppliedAs(d, n).applied = n /\ AppliedAs(d, n).admins = d.admins /\ AppliedAs(d, n).templates = d.templates
           /\ AppliedAs(d, n).deleted = d.deleted /\ AppliedAs(d, n).body = d.body /\ AppliedAs(d, n).html = d.html
           /\ AppliedAs(d, n).text = d.text /\ AppliedAs(d, n).chosen = d.chosen /\ AppliedAs(d, n).uid = d.uid
           /\ AppliedAs(d, n).nextId = d.nextId
<1> HIDE DEF UidMaps, TemplateRows, Signatures
<1> QED  BY DEF UpgradeRows, AppliedAs

AdminsAs(d, X) == [d EXCEPT !.admins = X]

\* Nor do the admins.
LEMMA AdminsTyped ==
    ASSUME NEW d \in UpgradeRows, NEW X \in SUBSET U!LoginNames
    PROVE  /\ AdminsAs(d, X) \in UpgradeRows
           /\ AdminsAs(d, X).applied = d.applied /\ AdminsAs(d, X).admins = X /\ AdminsAs(d, X).templates = d.templates
           /\ AdminsAs(d, X).deleted = d.deleted /\ AdminsAs(d, X).body = d.body /\ AdminsAs(d, X).html = d.html
           /\ AdminsAs(d, X).text = d.text /\ AdminsAs(d, X).chosen = d.chosen /\ AdminsAs(d, X).uid = d.uid
           /\ AdminsAs(d, X).nextId = d.nextId
<1> HIDE DEF UidMaps, TemplateRows, Signatures
<1> QED  BY DEF UpgradeRows, AdminsAs

TemplatesAs(d, X) == [d EXCEPT !.templates = X]

\* Nor do the templates.
LEMMA TemplatesTyped ==
    ASSUME NEW d \in UpgradeRows, NEW X \in SUBSET TemplateRows
    PROVE  /\ TemplatesAs(d, X) \in UpgradeRows
           /\ TemplatesAs(d, X).applied = d.applied /\ TemplatesAs(d, X).admins = d.admins /\ TemplatesAs(d, X).templates = X
           /\ TemplatesAs(d, X).deleted = d.deleted /\ TemplatesAs(d, X).body = d.body /\ TemplatesAs(d, X).html = d.html
           /\ TemplatesAs(d, X).text = d.text /\ TemplatesAs(d, X).chosen = d.chosen /\ TemplatesAs(d, X).uid = d.uid
           /\ TemplatesAs(d, X).nextId = d.nextId
<1> HIDE DEF UidMaps, TemplateRows, Signatures
<1> QED  BY DEF UpgradeRows, TemplatesAs

DeletedAs(d, X, Y) == [d EXCEPT !.templates = X, !.deleted = Y]

\* Nor do the templates and which of them were deleted.
LEMMA DeletedTyped ==
    ASSUME NEW d \in UpgradeRows, NEW X \in SUBSET TemplateRows, NEW Y \in SUBSET U!BuiltIn
    PROVE  /\ DeletedAs(d, X, Y) \in UpgradeRows
           /\ DeletedAs(d, X, Y).applied = d.applied /\ DeletedAs(d, X, Y).admins = d.admins /\ DeletedAs(d, X, Y).templates = X
           /\ DeletedAs(d, X, Y).deleted = Y /\ DeletedAs(d, X, Y).body = d.body /\ DeletedAs(d, X, Y).html = d.html
           /\ DeletedAs(d, X, Y).text = d.text /\ DeletedAs(d, X, Y).chosen = d.chosen /\ DeletedAs(d, X, Y).uid = d.uid
           /\ DeletedAs(d, X, Y).nextId = d.nextId
<1> HIDE DEF UidMaps, TemplateRows, Signatures
<1> QED  BY DEF UpgradeRows, DeletedAs

BodyAs(d, x) == [d EXCEPT !.body = x]

\* Nor does a saved body.
LEMMA BodyTyped ==
    ASSUME NEW d \in UpgradeRows, NEW x \in {NoRow, "invalid", "plain", "footed"}
    PROVE  /\ BodyAs(d, x) \in UpgradeRows
           /\ BodyAs(d, x).applied = d.applied /\ BodyAs(d, x).admins = d.admins /\ BodyAs(d, x).templates = d.templates
           /\ BodyAs(d, x).deleted = d.deleted /\ BodyAs(d, x).body = x /\ BodyAs(d, x).html = d.html
           /\ BodyAs(d, x).text = d.text /\ BodyAs(d, x).chosen = d.chosen /\ BodyAs(d, x).uid = d.uid
           /\ BodyAs(d, x).nextId = d.nextId
<1> HIDE DEF UidMaps, TemplateRows, Signatures
<1> QED  BY DEF UpgradeRows, BodyAs

TextAs(d, x, y) == [d EXCEPT !.text = x, !.html = y]

\* Nor do the two settings of the signature.
LEMMA TextTyped ==
    ASSUME NEW d \in UpgradeRows, NEW x \in Signatures, NEW y \in Signatures
    PROVE  /\ TextAs(d, x, y) \in UpgradeRows
           /\ TextAs(d, x, y).applied = d.applied /\ TextAs(d, x, y).admins = d.admins /\ TextAs(d, x, y).templates = d.templates
           /\ TextAs(d, x, y).deleted = d.deleted /\ TextAs(d, x, y).body = d.body /\ TextAs(d, x, y).html = y
           /\ TextAs(d, x, y).text = x /\ TextAs(d, x, y).chosen = d.chosen /\ TextAs(d, x, y).uid = d.uid
           /\ TextAs(d, x, y).nextId = d.nextId
<1> HIDE DEF UidMaps, TemplateRows, Signatures
<1> QED  BY DEF UpgradeRows, TextAs

ChosenAs(d, x, y) == [d EXCEPT !.text = x, !.chosen = y]

\* Nor do the signature and what is remembered of it.
LEMMA ChosenTyped ==
    ASSUME NEW d \in UpgradeRows, NEW x \in Signatures, NEW y \in Signatures
    PROVE  /\ ChosenAs(d, x, y) \in UpgradeRows
           /\ ChosenAs(d, x, y).applied = d.applied /\ ChosenAs(d, x, y).admins = d.admins /\ ChosenAs(d, x, y).templates = d.templates
           /\ ChosenAs(d, x, y).deleted = d.deleted /\ ChosenAs(d, x, y).body = d.body /\ ChosenAs(d, x, y).html = d.html
           /\ ChosenAs(d, x, y).text = x /\ ChosenAs(d, x, y).chosen = y /\ ChosenAs(d, x, y).uid = d.uid
           /\ ChosenAs(d, x, y).nextId = d.nextId
<1> HIDE DEF UidMaps, TemplateRows, Signatures
<1> QED  BY DEF UpgradeRows, ChosenAs

UidsAs(d, X) == [d EXCEPT !.uid = X]

\* Nor do the UIDs.
LEMMA UidsTyped ==
    ASSUME NEW d \in UpgradeRows, NEW X \in UidMaps
    PROVE  /\ UidsAs(d, X) \in UpgradeRows
           /\ UidsAs(d, X).applied = d.applied /\ UidsAs(d, X).admins = d.admins /\ UidsAs(d, X).templates = d.templates
           /\ UidsAs(d, X).deleted = d.deleted /\ UidsAs(d, X).body = d.body /\ UidsAs(d, X).html = d.html
           /\ UidsAs(d, X).text = d.text /\ UidsAs(d, X).chosen = d.chosen /\ UidsAs(d, X).uid = X
           /\ UidsAs(d, X).nextId = d.nextId
<1> HIDE DEF UidMaps, TemplateRows, Signatures
<1> QED  BY DEF UpgradeRows, UidsAs

StudentsAs(d, n, X) == [d EXCEPT !.nextId = n, !.uid = X]

\* Nor do the UIDs and the next id.
LEMMA StudentsTyped ==
    ASSUME NEW d \in UpgradeRows, NEW n \in Nat \ {0}, NEW X \in UidMaps
    PROVE  /\ StudentsAs(d, n, X) \in UpgradeRows
           /\ StudentsAs(d, n, X).applied = d.applied /\ StudentsAs(d, n, X).admins = d.admins /\ StudentsAs(d, n, X).templates = d.templates
           /\ StudentsAs(d, n, X).deleted = d.deleted /\ StudentsAs(d, n, X).body = d.body /\ StudentsAs(d, n, X).html = d.html
           /\ StudentsAs(d, n, X).text = d.text /\ StudentsAs(d, n, X).chosen = d.chosen /\ StudentsAs(d, n, X).uid = X
           /\ StudentsAs(d, n, X).nextId = n
<1> HIDE DEF UidMaps, TemplateRows, Signatures
<1> QED  BY DEF UpgradeRows, StudentsAs

\* A migration that does not look at data is past when its row is there.
LEMMA PlainFits ==
    ASSUME NEW d, UpgradeFits(d), d.applied < 26, d.applied \notin {13, 16, 17, 18, 19, 21}, NEW e,
           e = [d EXCEPT !.applied = @ + 1]
    PROVE  UpgradeFits(e) /\ e.uid = d.uid
<1>1. PICK n \in 0..26 : n = d.applied
  BY DEF UpgradeFits, UpgradeRows
<1>2. n + 1 \in 0..26 /\ n + 1 \notin {14, 17, 18, 19, 20, 22}
  BY <1>1
<1>3. /\ e \in UpgradeRows /\ e.applied = n + 1
      /\ e.admins = d.admins /\ e.templates = d.templates /\ e.deleted = d.deleted /\ e.body = d.body
      /\ e.html = d.html /\ e.text = d.text /\ e.chosen = d.chosen /\ e.uid = d.uid /\ e.nextId = d.nextId
  <2>1. e = AppliedAs(d, n + 1)
    BY <1>1 DEF AppliedAs
  <2>2. PICK k \in 0..26 : k = n + 1
    BY <1>2
  <2>3. d \in UpgradeRows
    BY DEF UpgradeFits
  <2>4. e = AppliedAs(d, k)
    BY <2>1, <2>2, Zenon
  <2>5. /\ e \in UpgradeRows /\ e.applied = k
        /\ e.admins = d.admins /\ e.templates = d.templates /\ e.deleted = d.deleted /\ e.body = d.body
        /\ e.html = d.html /\ e.text = d.text /\ e.chosen = d.chosen /\ e.uid = d.uid /\ e.nextId = d.nextId
    BY ONLY <2>2, <2>3, <2>4, AppliedTyped
  <2> QED  BY <2>2, <2>5
<1>4. TemplatesFit(e)
  BY <1>1, <1>2, <1>3 DEF UpgradeFits, TemplatesFit
<1>5. SignatureFits(e)
  BY <1>1, <1>2, <1>3 DEF UpgradeFits, SignatureFits
<1>6. UidsFit(e)
  BY <1>1, <1>2, <1>3 DEF UpgradeFits, UidsFit, U!Students
<1>7. AdminsFit(e)
  BY <1>1, <1>2, <1>3 DEF UpgradeFits, AdminsFit
<1> QED  BY <1>3, <1>4, <1>5, <1>6, <1>7 DEF UpgradeFits

\* An address is normal, and what is normalised stays.
LEMMA NormalTwice == \A m \in U!LoginNames : U!Normal(m) \in U!LoginNames /\ U!Normal(U!Normal(m)) = U!Normal(m)
  BY DEF U!Normal, U!LoginNames

\* 0014 leaves normal addresses.
LEMMA NormalizeFits ==
    ASSUME NEW d, UpgradeFits(d), d.applied = 13, NEW e,
           e = [U!NormalizeEmails(d).db EXCEPT !.applied = @ + 1]
    PROVE  UpgradeFits(e) /\ e.uid = d.uid
<1>1. d \in UpgradeRows /\ d.admins \subseteq U!LoginNames
  BY DEF UpgradeFits, UpgradeRows
<1>2. PICK X \in SUBSET U!LoginNames : X = {U!Normal(m) : m \in d.admins}
  BY <1>1, NormalTwice
<1>3. U!NormalizeEmails(d).db = AdminsAs(d, X)
  BY <1>2 DEF U!NormalizeEmails, AdminsAs
<1>4. AdminsAs(d, X) \in UpgradeRows /\ AdminsAs(d, X).applied = 13
  BY <1>1, AdminsTyped
<1>5. PICK n \in 0..26 : n = 14 /\ e = AppliedAs(AdminsAs(d, X), n)
  BY <1>3, <1>4 DEF AppliedAs
<1>6. /\ e \in UpgradeRows /\ e.applied = 14
      /\ e.admins = X /\ e.templates = d.templates /\ e.deleted = d.deleted /\ e.body = d.body
      /\ e.html = d.html /\ e.text = d.text /\ e.chosen = d.chosen /\ e.uid = d.uid /\ e.nextId = d.nextId
  BY ONLY <1>1, <1>2, <1>4, <1>5, AdminsTyped, AppliedTyped
<1>7. TemplatesFit(e) /\ SignatureFits(e)
  BY <1>6 DEF UpgradeFits, TemplatesFit, SignatureFits
<1>8. UidsFit(e)
  BY <1>6 DEF UpgradeFits, UidsFit, U!Students
<1>9. AdminsFit(e)
  BY <1>1, <1>2, <1>6, NormalTwice DEF AdminsFit
<1> QED  BY <1>6, <1>7, <1>8, <1>9 DEF UpgradeFits

\* The seeded templates are two, in places of their own.
LEMMA SeedsTyped ==
    /\ U!Seeded \in SUBSET TemplateRows
    /\ \A t \in U!Seeded : t.sort <= 1 /\ t.name \in U!BuiltIn /\ t.name # U!Intro /\ t.name # "own"
    /\ \A t, u \in U!Seeded : t # u => t.sort # u.sort /\ t.name # u.name
<1> DEFINE a == [sort |-> 0, name |-> "Scheduled maintenance"]
           b == [sort |-> 1, name |-> "Storage cleanup request"]
<1>1. U!Seeded = {a, b}
  BY DEF U!Seeded
<1>2. a.sort = 0 /\ b.sort = 1 /\ a.name = "Scheduled maintenance" /\ b.name = "Storage cleanup request"
  OBVIOUS
<1>3. a.name \in U!BuiltIn /\ b.name \in U!BuiltIn
  BY <1>1 DEF U!BuiltIn
<1>4. a \in TemplateRows /\ b \in TemplateRows
  BY <1>3 DEF TemplateRows
<1> HIDE DEF a, b
<1>6. a.name # U!Intro /\ b.name # U!Intro /\ a.name # b.name
  BY <1>2 DEF U!Intro
<1>a. a.name # "own" /\ b.name # "own"
  BY <1>2
<1>7. a.sort <= 1 /\ b.sort <= 1 /\ a.sort # b.sort
  <2>1. 0 <= 1 /\ 1 <= 1 /\ 0 # 1
    OBVIOUS
  <2> QED  BY <1>2, <2>1, Zenon
<1> HIDE DEF U!Intro
<1>8. U!Seeded \in SUBSET TemplateRows
  BY <1>1, <1>4
<1>9. \A t \in U!Seeded : t.sort <= 1 /\ t.name \in U!BuiltIn /\ t.name # U!Intro /\ t.name # "own"
  BY <1>1, <1>3, <1>6, <1>7, <1>a
<1>10. \A t, u \in U!Seeded : t # u => t.sort # u.sort /\ t.name # u.name
  BY <1>1, <1>6, <1>7
<1> QED  BY <1>8, <1>9, <1>10

\* 0017 comes to a database without templates.
LEMMA SeedFits ==
    ASSUME NEW d, UpgradeFits(d), d.applied = 16, NEW e,
           e = [U!SeedTemplates(d) EXCEPT !.applied = @ + 1]
    PROVE  UpgradeFits(e) /\ e.uid = d.uid
<1>1. d \in UpgradeRows /\ d.templates = {} /\ d.deleted = {}
  BY DEF UpgradeFits, TemplatesFit
<1>2. PICK X \in SUBSET TemplateRows : X = U!Seeded
  BY SeedsTyped
<1>3. U!SeedTemplates(d) = TemplatesAs(d, X)
  BY <1>1, <1>2 DEF U!SeedTemplates, TemplatesAs
<1>4. TemplatesAs(d, X) \in UpgradeRows /\ TemplatesAs(d, X).applied = 16
  BY <1>1, TemplatesTyped
<1>5. PICK n \in 0..26 : n = 17 /\ e = AppliedAs(TemplatesAs(d, X), n)
  BY <1>3, <1>4 DEF AppliedAs
<1>9. /\ e \in UpgradeRows /\ e.applied = 17
      /\ e.admins = d.admins /\ e.templates = X /\ e.deleted = d.deleted /\ e.body = d.body
      /\ e.html = d.html /\ e.text = d.text /\ e.chosen = d.chosen /\ e.uid = d.uid /\ e.nextId = d.nextId
  BY ONLY <1>1, <1>2, <1>4, <1>5, TemplatesTyped, AppliedTyped
<1>6. TemplatesFit(e)
  <2>1. \A t \in X : t.sort <= 1 /\ t.name # U!Intro
    BY <1>2, SeedsTyped
  <2>2. \A t, u \in X : t # u => t.sort # u.sort /\ t.name # u.name
    BY <1>2, SeedsTyped
  <2>3. \E b \in Nat : \A t \in e.templates : t.sort <= b
    <3>1. 1 \in Nat
      OBVIOUS
    <3> QED  BY <1>9, <2>1, <3>1, Zenon
  <2>4. \A t \in e.templates : t.name \notin e.deleted
    BY <1>1, <1>9
  <2>5. \A t, u \in e.templates : t # u => t.sort # u.sort /\ (t.name = u.name => t.name \notin U!BuiltIn)
    BY <1>9, <2>2, Zenon
  <2>6. U!Intro \notin e.deleted /\ \A t \in e.templates : t.name # U!Intro
    BY <1>1, <1>9, <2>1
  <2>7. ~(e.applied < 17)
    BY <1>9
  <2> QED  BY <2>3, <2>4, <2>5, <2>6, <2>7, Zenon DEF TemplatesFit
<1>7. SignatureFits(e) /\ AdminsFit(e)
  BY <1>9 DEF UpgradeFits, SignatureFits, AdminsFit
<1>8. UidsFit(e)
  BY <1>9 DEF UpgradeFits, UidsFit, U!Students
<1> QED  BY <1>6, <1>7, <1>8, <1>9 DEF UpgradeFits

\* A template that is added is alone in its place, the last.
LEMMA TemplateAdded ==
    ASSUME NEW d, UpgradeFits(d), NEW name \in U!BuiltIn \cup {"own"}
    PROVE  \E t \in TemplateRows : /\ U!AddTemplate(d, name) = d.templates \cup {t} /\ t.name = name
                                  /\ \A u \in d.templates : u.sort < t.sort
<1>1. d.templates \in SUBSET TemplateRows
  BY DEF UpgradeFits, UpgradeRows, TemplatesFit
<1>2. U!NextSort(d) \in Nat /\ \A u \in d.templates : u.sort < U!NextSort(d)
  <2>1. CASE d.templates = {}
    <3>1. U!NextSort(d) = 0
      BY <2>1 DEF U!NextSort
    <3> QED  BY <2>1, <3>1
  <2>2. CASE d.templates # {}
    <3> DEFINE X == {t.sort : t \in d.templates}
    <3>1. X \subseteq Nat /\ X # {}
      BY <1>1, <2>2 DEF TemplateRows
    <3>3. PICK b \in Nat : \A x \in X : x <= b
      BY DEF UpgradeFits, TemplatesFit
    <3>4. \E m \in X : \A x \in X : m >= x
      <4> DEFINE Y == {b - x : x \in X}
      <4>1. Y \subseteq Nat /\ Y # {}
        <5> HIDE DEF X
        <5> QED  BY <3>1, <3>3
      <4>2. PICK y \in Y : \A z \in Y : y <= z
        BY <4>1, LeastNatural
      <4>3. PICK m \in X : y = b - m
        OBVIOUS
      <4>4. ASSUME NEW x \in X  PROVE m >= x
        <5>1. y <= b - x /\ x \in Nat /\ m \in Nat
          BY <3>1, <4>2
        <5> QED  BY <3>3, <4>3, <5>1
      <4> QED  BY <4>4
    <3>5. U!Max(X) \in X /\ \A x \in X : U!Max(X) >= x
      BY <3>4 DEF U!Max
    <3>6. U!NextSort(d) = U!Max(X) + 1
      BY <2>2 DEF U!NextSort
    <3>7. PICK m \in Nat : m = U!Max(X)
      BY <3>1, <3>5
    <3>8. \A u \in d.templates : u.sort \in X /\ u.sort \in Nat
      BY <3>1
    <3> HIDE DEF X
    <3> QED  BY <3>5, <3>6, <3>7, <3>8
  <2> QED  BY <2>1, <2>2
<1>3. PICK s \in Nat : s = U!NextSort(d)
  BY <1>2
<1>4. PICK t : t = [sort |-> s, name |-> name]
  OBVIOUS
<1>5. t \in TemplateRows /\ t.name = name /\ t.sort = s
  BY <1>4 DEF TemplateRows
<1>6. U!AddTemplate(d, name) = d.templates \cup {t}
  BY <1>3, <1>4 DEF U!AddTemplate
<1> QED  BY <1>1, <1>2, <1>3, <1>5, <1>6

\* 0018 leaves no body with a signature of its own.
LEMMA StripFits ==
    ASSUME NEW d, UpgradeFits(d), d.applied = 17, NEW e,
           e = [U!StripSignature(d) EXCEPT !.applied = @ + 1]
    PROVE  UpgradeFits(e) /\ e.uid = d.uid
<1>1. d \in UpgradeRows /\ d.body \in {NoRow, "invalid", "plain", "footed"}
  BY DEF UpgradeFits, UpgradeRows
<1>2. PICK x \in {NoRow, "invalid", "plain", "footed"} :
         x = (IF d.body = "footed" THEN "plain" ELSE d.body)
  BY <1>1
<1>3. U!StripSignature(d) = BodyAs(d, x)
  BY <1>2 DEF U!StripSignature, BodyAs
<1>4. BodyAs(d, x) \in UpgradeRows /\ BodyAs(d, x).applied = 17
  BY <1>1, BodyTyped
<1>5. PICK n \in 0..26 : n = 18 /\ e = AppliedAs(BodyAs(d, x), n)
  BY <1>3, <1>4 DEF AppliedAs
<1>6. /\ e \in UpgradeRows /\ e.applied = 18
      /\ e.admins = d.admins /\ e.templates = d.templates /\ e.deleted = d.deleted /\ e.body = x
      /\ e.html = d.html /\ e.text = d.text /\ e.chosen = d.chosen /\ e.uid = d.uid /\ e.nextId = d.nextId
  BY ONLY <1>1, <1>2, <1>4, <1>5, BodyTyped, AppliedTyped
<1>7. TemplatesFit(e) /\ AdminsFit(e)
  BY <1>6 DEF UpgradeFits, TemplatesFit, AdminsFit
<1>8. UidsFit(e)
  BY <1>6 DEF UpgradeFits, UidsFit, U!Students
<1>9. SignatureFits(e)
  <2>1. x # "footed"
    BY <1>2, UpgradeAssumption
  <2> QED  BY <1>6, <2>1 DEF UpgradeFits, SignatureFits
<1> QED  BY <1>6, <1>7, <1>8, <1>9 DEF UpgradeFits

\* 0019 brings the signature that was chosen to its new setting.
LEMMA PlainTextFits ==
    ASSUME NEW d, UpgradeFits(d), d.applied = 18, NEW e,
           e = [U!PlainTextSignature(d) EXCEPT !.applied = @ + 1]
    PROVE  UpgradeFits(e) /\ e.uid = d.uid
<1>1. d \in UpgradeRows /\ d.text = NoRow /\ d.chosen = (IF d.html = "custom" THEN "custom" ELSE NoRow)
  BY DEF UpgradeFits, SignatureFits
<1>2. PICK x \in Signatures, y \in Signatures : x = d.chosen /\ y = NoRow
  BY <1>1 DEF Signatures
<1>3. U!PlainTextSignature(d) = TextAs(d, x, y)
  <2>1. (IF d.html = "custom" /\ d.text = NoRow THEN "custom" ELSE d.text) = x
    BY <1>1, <1>2
  <2> QED  BY <1>2, <2>1 DEF U!PlainTextSignature, TextAs
<1>4. TextAs(d, x, y) \in UpgradeRows /\ TextAs(d, x, y).applied = 18
  BY <1>1, TextTyped
<1>5. PICK n \in 0..26 : n = 19 /\ e = AppliedAs(TextAs(d, x, y), n)
  BY <1>3, <1>4 DEF AppliedAs
<1>6. /\ e \in UpgradeRows /\ e.applied = 19
      /\ e.admins = d.admins /\ e.templates = d.templates /\ e.deleted = d.deleted /\ e.body = d.body
      /\ e.html = y /\ e.text = x /\ e.chosen = d.chosen /\ e.uid = d.uid /\ e.nextId = d.nextId
  <2>1. d \in UpgradeRows /\ x \in Signatures /\ y \in Signatures
    BY <1>1, <1>2
  <2>2. PICK f : f = TextAs(d, x, y)
    OBVIOUS
  <2>3. /\ f \in UpgradeRows
        /\ f.admins = d.admins /\ f.templates = d.templates /\ f.deleted = d.deleted /\ f.body = d.body
        /\ f.html = y /\ f.text = x /\ f.chosen = d.chosen /\ f.uid = d.uid /\ f.nextId = d.nextId
    BY ONLY <2>1, <2>2, TextTyped
  <2>4. e = AppliedAs(f, n) /\ n = 19
    BY <1>5, <2>2
  <2>5. /\ e \in UpgradeRows /\ e.applied = n
        /\ e.admins = f.admins /\ e.templates = f.templates /\ e.deleted = f.deleted /\ e.body = f.body
        /\ e.html = f.html /\ e.text = f.text /\ e.chosen = f.chosen /\ e.uid = f.uid /\ e.nextId = f.nextId
    BY ONLY <1>5, <2>3, <2>4, AppliedTyped
  <2> QED  BY <1>5, <2>3, <2>5
<1>7. TemplatesFit(e) /\ AdminsFit(e)
  BY <1>6 DEF UpgradeFits, TemplatesFit, AdminsFit
<1>8. UidsFit(e)
  BY <1>6 DEF UpgradeFits, UidsFit, U!Students
<1>9. SignatureFits(e)
  BY <1>2, <1>6 DEF UpgradeFits, SignatureFits
<1> QED  BY <1>6, <1>7, <1>8, <1>9 DEF UpgradeFits

\* A template that comes last fits, if it is not there and was not deleted.
LEMMA AddedFits ==
    ASSUME NEW d, UpgradeFits(d), NEW name \in U!BuiltIn \cup {"own"}, NEW X,
           X = U!AddTemplate(d, name), name \notin d.deleted,
           \A t \in d.templates : t.name # name
    PROVE  /\ X \in SUBSET TemplateRows
           /\ \E b \in Nat : \A t \in X : t.sort <= b
           /\ \A t \in X : t.name \notin d.deleted
           /\ \A t, u \in X : t # u => t.sort # u.sort /\ (t.name = u.name => t.name \notin U!BuiltIn)
<1>1. d.templates \in SUBSET TemplateRows
  BY DEF UpgradeFits, UpgradeRows
<1>2. PICK t \in TemplateRows : /\ U!AddTemplate(d, name) = d.templates \cup {t} /\ t.name = name
                                /\ \A u \in d.templates : u.sort < t.sort
  BY TemplateAdded
<1>3. X = d.templates \cup {t}
  BY <1>2
<1>4. t.sort \in Nat /\ \A u \in d.templates : u.sort \in Nat
  BY <1>1, <1>2 DEF TemplateRows
<1>5. \A u \in X : u.sort <= t.sort
  <2>1. ASSUME NEW u \in d.templates  PROVE u.sort <= t.sort
    <3>1. PICK x \in Nat, y \in Nat : x = u.sort /\ y = t.sort
      BY <1>4
    <3>2. x < y
      BY <1>2, <3>1
    <3>3. x <= y
      BY <3>2
    <3> QED  BY <3>1, <3>3, Zenon
  <2>2. t.sort <= t.sort
    <3>1. PICK x \in Nat : x = t.sort
      BY <1>4
    <3>2. x <= x
      OBVIOUS
    <3> QED  BY <3>1, <3>2, Zenon
  <2> QED  BY <1>3, <2>1, <2>2
<1>6. \A u \in d.templates : u.sort # t.sort
  <2>1. SUFFICES ASSUME NEW u \in d.templates, u.sort = t.sort  PROVE FALSE
    OBVIOUS
  <2>2. PICK x \in Nat : x = u.sort /\ x = t.sort
    BY <1>4, <2>1
  <2>3. x < x
    BY <1>2, <2>2
  <2> QED  BY <2>3
<1>7. X \in SUBSET TemplateRows
  BY <1>1, <1>3
<1>8. \A u \in X : u.name \notin d.deleted
  BY <1>2, <1>3 DEF UpgradeFits, TemplatesFit
<1>9. \A u, v \in X : u # v => u.sort # v.sort /\ (u.name = v.name => u.name \notin U!BuiltIn)
  <2>1. \A u, v \in d.templates : u # v => u.sort # v.sort /\ (u.name = v.name => u.name \notin U!BuiltIn)
    BY DEF UpgradeFits, TemplatesFit
  <2>2. \A u \in d.templates : u.name # t.name
    BY <1>2
  <2> QED  BY <1>3, <1>6, <2>1, <2>2
<1> QED  BY <1>4, <1>5, <1>7, <1>8, <1>9

\* 0022 comes to a database that never had an introduction.
LEMMA IntroFits ==
    ASSUME NEW d, UpgradeFits(d), d.applied = 21, NEW e,
           e = [U!IntroTemplate(d) EXCEPT !.applied = @ + 1]
    PROVE  UpgradeFits(e) /\ e.uid = d.uid
<1>1. d \in UpgradeRows /\ U!Intro \notin d.deleted /\ \A t \in d.templates : t.name # U!Intro
  BY DEF UpgradeFits, TemplatesFit
<1>a. U!Intro \in U!BuiltIn \cup {"own"}
  BY DEF U!BuiltIn
<1>2. PICK X : X = U!AddTemplate(d, U!Intro)
  OBVIOUS
<1>b. /\ X \in SUBSET TemplateRows
      /\ \E b \in Nat : \A t \in X : t.sort <= b
      /\ \A t \in X : t.name \notin d.deleted
      /\ \A t, u \in X : t # u => t.sort # u.sort /\ (t.name = u.name => t.name \notin U!BuiltIn)
  BY <1>1, <1>a, <1>2, AddedFits
<1>3. U!IntroTemplate(d) = TemplatesAs(d, X)
  BY <1>2 DEF U!IntroTemplate, TemplatesAs
<1>4. TemplatesAs(d, X) \in UpgradeRows /\ TemplatesAs(d, X).applied = 21
  BY <1>1, <1>b, TemplatesTyped
<1>5. PICK n \in 0..26 : n = 22 /\ e = AppliedAs(TemplatesAs(d, X), n)
  BY <1>3, <1>4 DEF AppliedAs
<1>6. /\ e \in UpgradeRows /\ e.applied = 22
      /\ e.admins = d.admins /\ e.templates = X /\ e.deleted = d.deleted /\ e.body = d.body
      /\ e.html = d.html /\ e.text = d.text /\ e.chosen = d.chosen /\ e.uid = d.uid /\ e.nextId = d.nextId
  BY ONLY <1>1, <1>b, <1>4, <1>5, TemplatesTyped, AppliedTyped
<1>7. SignatureFits(e) /\ AdminsFit(e)
  BY <1>6 DEF UpgradeFits, SignatureFits, AdminsFit
<1>8. UidsFit(e)
  BY <1>6 DEF UpgradeFits, UidsFit, U!Students
<1>9. TemplatesFit(e)
  <2>1. ~(e.applied < 17) /\ ~(e.applied < 22)
    BY <1>6
  <2> QED  BY <1>6, <1>b, <2>1, Zenon DEF TemplatesFit
<1> QED  BY <1>6, <1>7, <1>8, <1>9 DEF UpgradeFits

\* 0020 gives each student the number of the students up to him.
LEMMA StudentUidsFit ==
    ASSUME NEW d, UpgradeFits(d), d.applied = 19, U!StudentUids(d).ok, NEW e,
           e = [U!StudentUids(d).db EXCEPT !.applied = @ + 1]
    PROVE  UpgradeFits(e) /\ U!Students(e) = U!Students(d)
<1> DEFINE Up(i) == {j \in U!Students(d) : j <= i}
<1>1. d \in UpgradeRows /\ d.nextId \in Nat /\ d.uid \in UidMaps
  BY DEF UpgradeFits, UpgradeRows
<1>2. IsFiniteSet(U!Students(d)) /\ U!Students(d) \in SUBSET Nat
  BY <1>1 DEF UpgradeFits, UidsFit, UidMaps, U!Students
<1>3. Cardinality(U!Students(d)) \in Nat /\ Cardinality(U!Students(d)) <= UidCount
  <2>1. U!Cardinality(U!Students(d)) = Cardinality(U!Students(d))
    BY DEF U!Cardinality, Cardinality
  <2> QED  BY <1>2, <2>1, FS_CardinalityType DEF U!StudentUids
<1>4. ASSUME NEW i \in U!Students(d)
      PROVE  /\ IsFiniteSet(Up(i)) /\ i \in Up(i)
             /\ Cardinality(Up(i)) \in Nat /\ Cardinality(Up(i)) <= Cardinality(U!Students(d))
             /\ Cardinality(Up(i)) # 0
  <2>1. i \in Nat
    BY <1>2
  <2>2. Up(i) \subseteq U!Students(d) /\ i \in Up(i)
    BY <2>1
  <2>3. IsFiniteSet(Up(i)) /\ Cardinality(Up(i)) <= Cardinality(U!Students(d))
    BY <1>2, <2>2, FS_Subset
  <2> QED  BY <2>2, <2>3, FS_CardinalityType, FS_EmptySet
<1>5. ASSUME NEW i \in U!Students(d), NEW j \in U!Students(d), i < j
      PROVE  Cardinality(Up(i)) # Cardinality(Up(j))
  <2>1. i \in Nat /\ j \in Nat
    BY <1>2
  <2>2. Up(i) \subseteq Up(j) /\ j \notin Up(i)
    BY <1>2, <1>5, <2>1
  <2>3. Up(i) # Up(j)
    BY <1>4, <2>2
  <2> QED  BY <1>4, <2>2, <2>3, FS_Subset
<1>6. PICK X : X = [i \in U!Students(d) |-> Cardinality(Up(i))]
  OBVIOUS
<1>7. X \in UidMaps /\ DOMAIN X = U!Students(d) /\ \A i \in U!Students(d) : X[i] = Cardinality(Up(i)) /\ X[i] \in U!Uids
  <2>1. ASSUME NEW i \in U!Students(d)  PROVE Cardinality(Up(i)) \in U!Uids
    <3>1. PICK x \in Nat, y \in Nat : x = Cardinality(Up(i)) /\ y = Cardinality(U!Students(d))
      BY <1>3, <1>4
    <3>2. x # 0 /\ x <= y /\ y <= UidCount
      BY <1>3, <1>4, <3>1
    <3>3. x \in 1..UidCount
      BY <3>1, <3>2, UpgradeAssumption
    <3> QED  BY <3>1, <3>3 DEF U!Uids
  <2> HIDE DEF Up
  <2>2. X \in [U!Students(d) -> U!Uids \cup {NoRow}]
    BY <1>6, <2>1
  <2> QED  BY <1>2, <1>6, <2>1, <2>2 DEF UidMaps
<1>8. U!StudentUids(d).db = UidsAs(d, X)
  <2>1. \A i \in U!Students(d) : U!Cardinality(Up(i)) = Cardinality(Up(i))
    BY DEF U!Cardinality, Cardinality
  <2>2. X = [i \in U!Students(d) |-> U!Cardinality(Up(i))]
    BY <1>6, <2>1
  <2> QED  BY <2>2 DEF U!StudentUids, UidsAs
<1>9. UidsAs(d, X) \in UpgradeRows /\ UidsAs(d, X).applied = 19
  BY <1>1, <1>7, UidsTyped
<1>10. PICK n \in 0..26 : n = 20 /\ e = AppliedAs(UidsAs(d, X), n)
  BY <1>8, <1>9 DEF AppliedAs
<1>11. /\ e \in UpgradeRows /\ e.applied = 20
       /\ e.admins = d.admins /\ e.templates = d.templates /\ e.deleted = d.deleted /\ e.body = d.body
       /\ e.html = d.html /\ e.text = d.text /\ e.chosen = d.chosen /\ e.uid = X /\ e.nextId = d.nextId
  <2>1. d \in UpgradeRows /\ X \in UidMaps
    BY <1>1, <1>7
  <2>2. PICK f : f = UidsAs(d, X)
    OBVIOUS
  <2>3. /\ f \in UpgradeRows
        /\ f.admins = d.admins /\ f.templates = d.templates /\ f.deleted = d.deleted /\ f.body = d.body
        /\ f.html = d.html /\ f.text = d.text /\ f.chosen = d.chosen /\ f.uid = X /\ f.nextId = d.nextId
    BY ONLY <2>1, <2>2, UidsTyped
  <2>4. e = AppliedAs(f, n)
    BY <1>10, <2>2
  <2>5. /\ e \in UpgradeRows /\ e.applied = n
        /\ e.admins = f.admins /\ e.templates = f.templates /\ e.deleted = f.deleted /\ e.body = f.body
        /\ e.html = f.html /\ e.text = f.text /\ e.chosen = f.chosen /\ e.uid = f.uid /\ e.nextId = f.nextId
    BY ONLY <1>10, <2>3, <2>4, AppliedTyped
  <2> QED  BY <1>10, <2>3, <2>5
<1>12. TemplatesFit(e) /\ AdminsFit(e) /\ SignatureFits(e)
  BY <1>11 DEF UpgradeFits, TemplatesFit, AdminsFit, SignatureFits
<1>13. U!Students(e) = U!Students(d)
  BY <1>7, <1>11 DEF U!Students
<1>14. UidsFit(e)
  <2>1. IsFiniteSet(U!Students(e)) /\ U!Students(e) \subseteq 1..(e.nextId - 1)
    BY <1>11, <1>13 DEF UpgradeFits, UidsFit
  <2>2. \A i \in U!Students(e) : e.uid[i] \in U!Uids
    BY <1>7, <1>11, <1>13
  <2>3. ASSUME NEW i \in U!Students(e), NEW j \in U!Students(e), e.uid[i] = e.uid[j]  PROVE i = j
    <3>1. i \in Nat /\ j \in Nat
      BY <1>2, <1>13
    <3>2. Cardinality(Up(i)) = Cardinality(Up(j))
      BY <1>7, <1>11, <1>13, <2>3
    <3>3. ~(i < j) /\ ~(j < i)
      BY <1>5, <1>13, <3>2
    <3> QED  BY <3>1, <3>3
  <2>4. ~(e.applied < 20)
    BY <1>11
  <2> QED  BY <2>1, <2>2, <2>3, <2>4 DEF UidsFit
<1> QED  BY <1>11, <1>12, <1>13, <1>14 DEF UpgradeFits

\* No UID changes once given.
UidsSame(d, e) == \A i \in U!Students(d) \cap U!Students(e) : d.uid[i] # NoRow => e.uid[i] = d.uid[i]

\* What the migration of each name does.
LEMMA Runs ==
    ASSUME NEW m, NEW d
    PROVE  /\ m = "0014_normalize_emails" => U!Run(m, d) = U!NormalizeEmails(d)
           /\ m = "0017_announcement_templates" => U!Run(m, d).db = U!SeedTemplates(d)
           /\ m = "0018_universal_email_signature" => U!Run(m, d).db = U!StripSignature(d)
           /\ m = "0019_plain_text_email_signature" => U!Run(m, d).db = U!PlainTextSignature(d)
           /\ m = "0020_student_linux_uid" => U!Run(m, d) = U!StudentUids(d)
           /\ m = "0022_system_intro_template" => U!Run(m, d).db = U!IntroTemplate(d)
           /\ m \notin {"0014_normalize_emails", "0017_announcement_templates",
                       "0018_universal_email_signature", "0019_plain_text_email_signature",
                       "0020_student_linux_uid", "0022_system_intro_template"} => U!Run(m, d).db = d
<1>1. m = "0014_normalize_emails" => U!Run(m, d) = U!NormalizeEmails(d)
  BY DEF U!Run
<1>2. m = "0017_announcement_templates" => U!Run(m, d).db = U!SeedTemplates(d)
  BY DEF U!Run, U!Plain
<1>3. m = "0018_universal_email_signature" => U!Run(m, d).db = U!StripSignature(d)
  BY DEF U!Run, U!Plain
<1>4. m = "0019_plain_text_email_signature" => U!Run(m, d).db = U!PlainTextSignature(d)
  BY DEF U!Run, U!Plain
<1>5. m = "0020_student_linux_uid" => U!Run(m, d) = U!StudentUids(d)
  BY DEF U!Run
<1>6. m = "0022_system_intro_template" => U!Run(m, d).db = U!IntroTemplate(d)
  BY DEF U!Run, U!Plain
<1>7. ASSUME m \notin {"0014_normalize_emails", "0017_announcement_templates",
                      "0018_universal_email_signature", "0019_plain_text_email_signature",
                      "0020_student_linux_uid", "0022_system_intro_template"}
      PROVE  U!Run(m, d).db = d
  <2>1. CASE m = "0009_redesign_placements"
    BY <2>1 DEF U!Run
  <2>2. CASE m # "0009_redesign_placements"
    BY <1>7, <2>2 DEF U!Run, U!Plain
  <2> QED  BY <2>1, <2>2
<1> QED  BY <1>1, <1>2, <1>3, <1>4, <1>5, <1>6, <1>7

\* A migration that does not throw leaves what the next one finds, and no UID changes.
LEMMA MigrationFits ==
    ASSUME NEW d, UpgradeFits(d), U!Pending(d), NEW r, r = U!Run(U!MIGRATIONS[d.applied + 1], d),
           r.ok, NEW e, e = [r.db EXCEPT !.applied = @ + 1]
    PROVE  UpgradeFits(e) /\ UidsSame(d, e)
<1>1. PICK n \in 0..26 : n = d.applied
  BY DEF UpgradeFits, UpgradeRows
<1>2. n < 26 /\ d.applied < 26
  BY <1>1, Places DEF U!Pending
<1>3. PICK k \in 1..26 : k = n + 1
  BY <1>1, <1>2
<1>4. PICK m : m = U!MIGRATIONS[k] /\ r = U!Run(m, d)
  BY <1>1, <1>3
<1>5. /\ m = "0014_normalize_emails" <=> k = 14
      /\ m = "0017_announcement_templates" <=> k = 17
      /\ m = "0018_universal_email_signature" <=> k = 18
      /\ m = "0019_plain_text_email_signature" <=> k = 19
      /\ m = "0020_student_linux_uid" <=> k = 20
      /\ m = "0022_system_intro_template" <=> k = 22
  BY <1>4, Places
<1>6. CASE k = 14
  <2>1. r = U!NormalizeEmails(d)
    BY <1>4, <1>5, <1>6, Runs
  <2>2. UpgradeFits(e) /\ e.uid = d.uid
    <3>1. d.applied = 13
      BY <1>1, <1>3, <1>6
    <3> QED  BY <2>1, <3>1, NormalizeFits
  <2> QED  BY <2>2 DEF UidsSame
<1>7. CASE k = 17
  <2>1. r.db = U!SeedTemplates(d)
    BY <1>4, <1>5, <1>7, Runs
  <2>2. UpgradeFits(e) /\ e.uid = d.uid
    <3>1. d.applied = 16
      BY <1>1, <1>3, <1>7
    <3> QED  BY <2>1, <3>1, SeedFits
  <2> QED  BY <2>2 DEF UidsSame
<1>8. CASE k = 18
  <2>1. r.db = U!StripSignature(d)
    BY <1>4, <1>5, <1>8, Runs
  <2>2. UpgradeFits(e) /\ e.uid = d.uid
    <3>1. d.applied = 17
      BY <1>1, <1>3, <1>8
    <3> QED  BY <2>1, <3>1, StripFits
  <2> QED  BY <2>2 DEF UidsSame
<1>9. CASE k = 19
  <2>1. r.db = U!PlainTextSignature(d)
    BY <1>4, <1>5, <1>9, Runs
  <2>2. UpgradeFits(e) /\ e.uid = d.uid
    <3>1. d.applied = 18
      BY <1>1, <1>3, <1>9
    <3> QED  BY <2>1, <3>1, PlainTextFits
  <2> QED  BY <2>2 DEF UidsSame
<1>10. CASE k = 20
  <2>1. r = U!StudentUids(d)
    BY <1>4, <1>5, <1>10, Runs
  <2>2. d.applied = 19
    BY <1>1, <1>3, <1>10
  <2>3. UpgradeFits(e) /\ U!Students(e) = U!Students(d)
    BY <2>1, <2>2, StudentUidsFit
  <2>4. \A i \in U!Students(d) : d.uid[i] = NoRow
    <3>1. d.applied < 20
      BY <2>2
    <3> QED  BY <3>1 DEF UpgradeFits, UidsFit
  <2> QED  BY <2>3, <2>4 DEF UidsSame
<1>11. CASE k = 22
  <2>1. r.db = U!IntroTemplate(d)
    BY <1>4, <1>5, <1>11, Runs
  <2>2. UpgradeFits(e) /\ e.uid = d.uid
    <3>1. d.applied = 21
      BY <1>1, <1>3, <1>11
    <3> QED  BY <2>1, <3>1, IntroFits
  <2> QED  BY <2>2 DEF UidsSame
<1>12. CASE k \notin {14, 17, 18, 19, 20, 22}
  <2>1. r.db = d
    BY <1>4, <1>5, <1>12, Runs
  <2>2. n \notin {13, 16, 17, 18, 19, 21}
    BY <1>1, <1>3, <1>12
  <2>3. UpgradeFits(e) /\ e.uid = d.uid
    BY <1>1, <1>2, <2>1, <2>2, PlainFits
  <2> QED  BY <2>3 DEF UidsSame
<1> QED  BY <1>6, <1>7, <1>8, <1>9, <1>10, <1>11, <1>12

\* What the operator deletes to get past a migration leaves a database of the same release.
LEMMA RepairFits ==
    ASSUME NEW d, UpgradeFits(d), NEW e,
           \/ d.legacy /\ e = [d EXCEPT !.legacy = FALSE]
           \/ ~U!NormalizeEmails(d).ok /\ e = [d EXCEPT !.admins = @ \ {"Ann"}]
    PROVE  UpgradeFits(e) /\ UidsSame(d, e)
<1>1. d \in UpgradeRows /\ d.admins \subseteq U!LoginNames
  BY DEF UpgradeFits, UpgradeRows
<1>2. /\ e \in UpgradeRows /\ e.applied = d.applied /\ e.admins \subseteq d.admins
      /\ e.templates = d.templates /\ e.deleted = d.deleted /\ e.body = d.body
      /\ e.html = d.html /\ e.text = d.text /\ e.chosen = d.chosen /\ e.uid = d.uid /\ e.nextId = d.nextId
  <2>1. CASE e = [d EXCEPT !.legacy = FALSE]
    <3> HIDE DEF UidMaps, TemplateRows, Signatures
    <3> QED  BY ONLY <1>1, <2>1 DEF UpgradeRows
  <2>2. CASE e = [d EXCEPT !.admins = @ \ {"Ann"}]
    <3>1. PICK X \in SUBSET U!LoginNames : X = d.admins \ {"Ann"}
      BY <1>1
    <3>2. e = AdminsAs(d, X)
      BY <2>2, <3>1 DEF AdminsAs
    <3>3. X \subseteq d.admins
      BY <3>1
    <3> QED  BY ONLY <1>1, <3>2, <3>3, AdminsTyped
  <2> QED  BY <2>1, <2>2
<1>3. TemplatesFit(e) /\ SignatureFits(e) /\ AdminsFit(e)
  BY <1>2 DEF UpgradeFits, TemplatesFit, SignatureFits, AdminsFit
<1>4. UidsFit(e)
  BY <1>2 DEF UpgradeFits, UidsFit, U!Students
<1> QED  BY <1>2, <1>3, <1>4 DEF UpgradeFits, UidsSame

\* A signup adds a normal address.
LEMMA SignupFits ==
    ASSUME NEW d, UpgradeFits(d), NEW m \in U!LoginNames, NEW e,
           e = [d EXCEPT !.admins = @ \cup {U!Normal(m)}]
    PROVE  UpgradeFits(e) /\ UidsSame(d, e) /\ e.applied = d.applied
<1>1. d \in UpgradeRows /\ d.admins \subseteq U!LoginNames
  BY DEF UpgradeFits, UpgradeRows
<1>2. PICK X \in SUBSET U!LoginNames : X = d.admins \cup {U!Normal(m)}
  BY <1>1, NormalTwice
<1>3. e = AdminsAs(d, X)
  BY <1>2 DEF AdminsAs
<1>4. /\ e \in UpgradeRows /\ e.applied = d.applied /\ e.admins = X
      /\ e.templates = d.templates /\ e.deleted = d.deleted /\ e.body = d.body
      /\ e.html = d.html /\ e.text = d.text /\ e.chosen = d.chosen /\ e.uid = d.uid /\ e.nextId = d.nextId
  BY ONLY <1>1, <1>3, AdminsTyped
<1>5. TemplatesFit(e) /\ SignatureFits(e)
  BY <1>4 DEF UpgradeFits, TemplatesFit, SignatureFits
<1>6. UidsFit(e)
  BY <1>4 DEF UpgradeFits, UidsFit, U!Students
<1>7. AdminsFit(e)
  BY <1>2, <1>4, NormalTwice DEF UpgradeFits, AdminsFit
<1> QED  BY <1>4, <1>5, <1>6, <1>7 DEF UpgradeFits, UidsSame

\* A signature that is saved is the one that was chosen.
LEMMA SaveFits ==
    ASSUME NEW d, UpgradeFits(d), d.applied = 26, NEW e,
           e = [d EXCEPT !.text = "typed", !.chosen = "typed"]
    PROVE  UpgradeFits(e) /\ UidsSame(d, e) /\ e.applied = d.applied
<1>1. d \in UpgradeRows
  BY DEF UpgradeFits
<1>2. PICK x \in Signatures : x = "typed"
  BY DEF Signatures
<1>3. e = ChosenAs(d, x, x)
  BY <1>2 DEF ChosenAs
<1>4. /\ e \in UpgradeRows /\ e.applied = d.applied /\ e.admins = d.admins
      /\ e.templates = d.templates /\ e.deleted = d.deleted /\ e.body = d.body
      /\ e.html = d.html /\ e.text = x /\ e.chosen = x /\ e.uid = d.uid /\ e.nextId = d.nextId
  BY ONLY <1>1, <1>2, <1>3, ChosenTyped
<1>5. TemplatesFit(e) /\ AdminsFit(e)
  BY <1>4 DEF UpgradeFits, TemplatesFit, AdminsFit
<1>6. UidsFit(e)
  BY <1>4 DEF UpgradeFits, UidsFit, U!Students
<1>7. SignatureFits(e)
  BY <1>4 DEF UpgradeFits, SignatureFits
<1> QED  BY <1>4, <1>5, <1>6, <1>7 DEF UpgradeFits, UidsSame

\* No built-in template has the name an admin gives his own.
LEMMA OwnIsNotBuiltIn == "own" \notin U!BuiltIn
<1>1. ASSUME NEW t \in U!Seeded  PROVE t.name # "own"
  BY SeedsTyped, Zenon
<1>2. U!Intro # "own"
  BY DEF U!Intro
<1> QED  BY <1>1, <1>2 DEF U!BuiltIn

\* A template that is created comes last.
LEMMA CreateFits ==
    ASSUME NEW d, UpgradeFits(d), d.applied = 26, \A t \in d.templates : t.name # "own", NEW e,
           e = [d EXCEPT !.templates = U!AddTemplate(d, "own")]
    PROVE  UpgradeFits(e) /\ UidsSame(d, e) /\ e.applied = d.applied
<1>1. d \in UpgradeRows /\ "own" \notin d.deleted
  <2>1. d.deleted \subseteq U!BuiltIn
    BY DEF UpgradeFits, UpgradeRows
  <2> QED  BY <2>1, OwnIsNotBuiltIn DEF UpgradeFits
<1>2. PICK X : X = U!AddTemplate(d, "own")
  OBVIOUS
<1>3. /\ X \in SUBSET TemplateRows
      /\ \E b \in Nat : \A t \in X : t.sort <= b
      /\ \A t \in X : t.name \notin d.deleted
      /\ \A t, u \in X : t # u => t.sort # u.sort /\ (t.name = u.name => t.name \notin U!BuiltIn)
  <2>1. "own" \in U!BuiltIn \cup {"own"}
    OBVIOUS
  <2> QED  BY <1>1, <1>2, <2>1, AddedFits
<1>4. e = TemplatesAs(d, X)
  BY <1>2 DEF TemplatesAs
<1>6. /\ e \in UpgradeRows /\ e.applied = d.applied
      /\ e.admins = d.admins /\ e.templates = X /\ e.deleted = d.deleted /\ e.body = d.body
      /\ e.html = d.html /\ e.text = d.text /\ e.chosen = d.chosen /\ e.uid = d.uid /\ e.nextId = d.nextId
  <2>1. X \in SUBSET TemplateRows
    BY <1>3
  <2> QED  BY ONLY <1>1, <2>1, <1>4, TemplatesTyped
<1>7. SignatureFits(e) /\ AdminsFit(e)
  BY <1>6 DEF UpgradeFits, SignatureFits, AdminsFit
<1>8. UidsFit(e)
  BY <1>6 DEF UpgradeFits, UidsFit, U!Students
<1>9. TemplatesFit(e)
  <2>1. ~(e.applied < 17) /\ ~(e.applied < 22)
    BY <1>6
  <2> QED  BY <1>6, <1>3, <2>1, Zenon DEF TemplatesFit
<1> QED  BY <1>6, <1>7, <1>8, <1>9 DEF UpgradeFits, UidsSame

\* A template that is deleted was there once, if it is built in.
LEMMA DeleteFits ==
    ASSUME NEW d, UpgradeFits(d), d.applied = 26, NEW t \in d.templates, NEW e,
           e = [d EXCEPT !.templates = @ \ {t}, !.deleted = @ \cup (U!BuiltIn \cap {t.name})]
    PROVE  UpgradeFits(e) /\ UidsSame(d, e) /\ e.applied = d.applied
<1>1. d \in UpgradeRows /\ d.templates \in SUBSET TemplateRows /\ d.deleted \in SUBSET U!BuiltIn
  BY DEF UpgradeFits, UpgradeRows
<1>2. PICK X \in SUBSET TemplateRows, Y \in SUBSET U!BuiltIn :
         X = d.templates \ {t} /\ Y = d.deleted \cup (U!BuiltIn \cap {t.name})
  BY <1>1
<1>3. e = DeletedAs(d, X, Y)
  BY <1>2 DEF DeletedAs
<1>4. /\ e \in UpgradeRows /\ e.applied = d.applied
      /\ e.admins = d.admins /\ e.templates = X /\ e.deleted = Y /\ e.body = d.body
      /\ e.html = d.html /\ e.text = d.text /\ e.chosen = d.chosen /\ e.uid = d.uid /\ e.nextId = d.nextId
  <2>1. d \in UpgradeRows /\ X \in SUBSET TemplateRows /\ Y \in SUBSET U!BuiltIn
    BY <1>1
  <2> QED  BY ONLY <2>1, <1>3, DeletedTyped
<1>5. SignatureFits(e) /\ AdminsFit(e)
  BY <1>4 DEF UpgradeFits, SignatureFits, AdminsFit
<1>6. UidsFit(e)
  BY <1>4 DEF UpgradeFits, UidsFit, U!Students
<1>7. TemplatesFit(e)
  <2>1. /\ \E b \in Nat : \A u \in d.templates : u.sort <= b
        /\ \A u \in d.templates : u.name \notin d.deleted
        /\ \A u, w \in d.templates : u # w => u.sort # w.sort /\ (u.name = w.name => u.name \notin U!BuiltIn)
    BY DEF UpgradeFits, TemplatesFit
  <2>2. \A u \in X : u \in d.templates /\ u # t
    BY <1>2
  <2>3. \E b \in Nat : \A u \in e.templates : u.sort <= b
    BY <1>4, <2>1, <2>2, Zenon
  <2>4. \A u \in e.templates : u.name \notin e.deleted
    BY <1>2, <1>4, <2>1, <2>2
  <2>5. \A u, w \in e.templates : u # w => u.sort # w.sort /\ (u.name = w.name => u.name \notin U!BuiltIn)
    BY <1>4, <2>1, <2>2, Zenon
  <2>6. ~(e.applied < 17) /\ ~(e.applied < 22)
    BY <1>4
  <2> QED  BY <2>3, <2>4, <2>5, <2>6, Zenon DEF TemplatesFit
<1> QED  BY <1>4, <1>5, <1>6, <1>7 DEF UpgradeFits, UidsSame

\* The lowest of some UIDs is one of them.
LEMMA LowestUid ==
    ASSUME NEW D \in SUBSET U!Uids, D # {}
    PROVE  U!Min(D) \in D
<1>1. D \in SUBSET Nat
  BY UpgradeAssumption DEF U!Uids
<1>2. PICK m \in D : \A x \in D : m <= x
  BY <1>1, LeastNatural
<1> QED  BY <1>2 DEF U!Min

Joined(d, x) ==
    [d EXCEPT !.nextId = d.nextId + 1,
              !.uid = [i \in U!Students(d) \cup {d.nextId} |-> IF i = d.nextId THEN x ELSE d.uid[i]]]

\* A student that is added gets an id that nobody had and a UID that nobody has.
LEMMA AddFits ==
    ASSUME NEW d, UpgradeFits(d), d.applied = 26, NEW D, D = U!Uids \ U!Range(d.uid), D # {}, NEW e,
           e = Joined(d, U!Min(D))
    PROVE  UpgradeFits(e) /\ UidsSame(d, e) /\ e.applied = d.applied
<1>1. d \in UpgradeRows /\ d.uid \in UidMaps
  BY DEF UpgradeFits, UpgradeRows
<1>2. PICK k \in Nat \ {0} : k = d.nextId
  BY DEF UpgradeFits, UpgradeRows
<1>3. PICK x : x = U!Min(D) /\ x \in D
  BY LowestUid
<1>4. x \in U!Uids /\ \A i \in U!Students(d) : d.uid[i] # x
  BY <1>3 DEF U!Range, U!Students
<1>5. PICK X : X = [i \in U!Students(d) \cup {k} |-> IF i = k THEN x ELSE d.uid[i]]
  OBVIOUS
<1>6. IsFiniteSet(U!Students(d)) /\ U!Students(d) \subseteq 1..(k - 1)
  BY <1>2 DEF UpgradeFits, UidsFit
<1>7. k \notin U!Students(d)
  BY <1>6
<1>8. /\ DOMAIN X = U!Students(d) \cup {k} /\ X[k] = x
      /\ \A i \in U!Students(d) : X[i] = d.uid[i]
  BY <1>5, <1>7
<1>9. /\ \A i \in U!Students(d) : d.uid[i] \in U!Uids
      /\ \A i, j \in U!Students(d) : d.uid[i] = d.uid[j] => i = j
  <2>1. d.applied >= 20
    OBVIOUS
  <2> QED  BY <2>1 DEF UpgradeFits, UidsFit
<1>10. X \in UidMaps
  <2>1. X \in [U!Students(d) \cup {k} -> U!Uids \cup {NoRow}]
    BY <1>4, <1>5, <1>9
  <2>2. U!Students(d) \cup {k} \in SUBSET Nat
    BY <1>2, <1>6
  <2> QED  BY <2>1, <2>2 DEF UidMaps
<1>11. PICK n \in Nat \ {0} : n = k + 1
  BY <1>2
<1>12. e = StudentsAs(d, n, X)
  BY <1>2, <1>3, <1>5, <1>11 DEF StudentsAs, Joined
<1>13. /\ e \in UpgradeRows /\ e.applied = d.applied
       /\ e.admins = d.admins /\ e.templates = d.templates /\ e.deleted = d.deleted /\ e.body = d.body
       /\ e.html = d.html /\ e.text = d.text /\ e.chosen = d.chosen /\ e.uid = X /\ e.nextId = n
  <2>1. d \in UpgradeRows
    BY <1>1
  <2>2. n \in Nat \ {0}
    OBVIOUS
  <2> QED  BY ONLY <2>1, <2>2, <1>10, <1>12, StudentsTyped
<1>14. TemplatesFit(e) /\ SignatureFits(e) /\ AdminsFit(e)
  BY <1>13 DEF UpgradeFits, TemplatesFit, SignatureFits, AdminsFit
<1>15. U!Students(e) = U!Students(d) \cup {k}
  BY <1>8, <1>13 DEF U!Students
<1>16. UidsFit(e)
  <2>1. IsFiniteSet(U!Students(e))
    <3>1. IsFiniteSet(U!Students(d) \cup {k})
      BY <1>6, FS_AddElement
    <3> QED  BY <1>15, <3>1, Zenon
  <2>2. U!Students(e) \subseteq 1..(e.nextId - 1)
    <3>1. U!Students(d) \cup {k} \subseteq 1..(n - 1)
      BY <1>2, <1>6, <1>11
    <3> QED  BY <1>13, <1>15, <3>1
  <2>3. \A i \in U!Students(e) : e.uid[i] \in U!Uids
    BY <1>4, <1>8, <1>9, <1>13, <1>15
  <2>4. ASSUME NEW i \in U!Students(e), NEW j \in U!Students(e), e.uid[i] = e.uid[j]  PROVE i = j
    <3>1. X[i] = X[j]
      BY <1>13, <2>4
    <3>2. CASE i = k /\ j = k
      BY <3>2
    <3>3. CASE i = k /\ j \in U!Students(d)
      BY <1>4, <1>8, <3>1, <3>3
    <3>4. CASE i \in U!Students(d) /\ j = k
      BY <1>4, <1>8, <3>1, <3>4
    <3>5. CASE i \in U!Students(d) /\ j \in U!Students(d)
      BY <1>8, <1>9, <3>1, <3>5
    <3> QED  BY <1>15, <3>2, <3>3, <3>4, <3>5
  <2>5. ~(e.applied < 20)
    BY <1>13
  <2> QED  BY <2>1, <2>2, <2>3, <2>4, <2>5 DEF UidsFit
<1>17. UidsSame(d, e)
  BY <1>8, <1>13 DEF UidsSame
<1> QED  BY <1>13, <1>14, <1>16, <1>17 DEF UpgradeFits

\* A student that is deleted leaves the others their UIDs.
LEMMA RemoveFits ==
    ASSUME NEW d, UpgradeFits(d), d.applied = 26, NEW i \in U!Students(d), NEW e,
           e = [d EXCEPT !.uid = [j \in U!Students(d) \ {i} |-> d.uid[j]]]
    PROVE  UpgradeFits(e) /\ UidsSame(d, e) /\ e.applied = d.applied
<1>1. d \in UpgradeRows /\ d.uid \in UidMaps
  BY DEF UpgradeFits, UpgradeRows
<1>2. PICK X : X = [j \in U!Students(d) \ {i} |-> d.uid[j]]
  OBVIOUS
<1>3. DOMAIN X = U!Students(d) \ {i} /\ \A j \in U!Students(d) \ {i} : X[j] = d.uid[j]
  BY <1>2
<1>4. /\ \A j \in U!Students(d) : d.uid[j] \in U!Uids
      /\ \A j, h \in U!Students(d) : d.uid[j] = d.uid[h] => j = h
  <2>1. d.applied >= 20
    OBVIOUS
  <2> QED  BY <2>1 DEF UpgradeFits, UidsFit
<1>5. IsFiniteSet(U!Students(d)) /\ U!Students(d) \subseteq 1..(d.nextId - 1)
  BY DEF UpgradeFits, UidsFit
<1>6. X \in UidMaps
  <2>1. X \in [U!Students(d) \ {i} -> U!Uids \cup {NoRow}]
    BY <1>2, <1>4
  <2>2. U!Students(d) \ {i} \in SUBSET Nat
    BY <1>1 DEF UidMaps, U!Students
  <2> QED  BY <2>1, <2>2 DEF UidMaps
<1>7. e = UidsAs(d, X)
  BY <1>2 DEF UidsAs
<1>8. /\ e \in UpgradeRows /\ e.applied = d.applied
      /\ e.admins = d.admins /\ e.templates = d.templates /\ e.deleted = d.deleted /\ e.body = d.body
      /\ e.html = d.html /\ e.text = d.text /\ e.chosen = d.chosen /\ e.uid = X /\ e.nextId = d.nextId
  BY ONLY <1>1, <1>6, <1>7, UidsTyped
<1>9. TemplatesFit(e) /\ SignatureFits(e) /\ AdminsFit(e)
  BY <1>8 DEF UpgradeFits, TemplatesFit, SignatureFits, AdminsFit
<1>10. U!Students(e) = U!Students(d) \ {i}
  BY <1>3, <1>8 DEF U!Students
<1>11. UidsFit(e)
  <2>1. IsFiniteSet(U!Students(e))
    BY <1>5, <1>10, FS_Subset
  <2>2. U!Students(e) \subseteq 1..(e.nextId - 1)
    BY <1>5, <1>8, <1>10
  <2>3. \A j \in U!Students(e) : e.uid[j] \in U!Uids
    BY <1>3, <1>4, <1>8, <1>10
  <2>4. \A j, h \in U!Students(e) : e.uid[j] = e.uid[h] => j = h
    BY <1>3, <1>4, <1>8, <1>10
  <2>5. ~(e.applied < 20)
    BY <1>8
  <2> QED  BY <2>1, <2>2, <2>3, <2>4, <2>5 DEF UidsFit
<1>12. UidsSame(d, e)
  BY <1>3, <1>8, <1>10 DEF UidsSame
<1> QED  BY <1>8, <1>9, <1>11, <1>12 DEF UpgradeFits

\* Where the migrations are that tell what an earlier release may have left.
LEMMA Releases ==
    /\ U!Number("0009_redesign_placements") = 9 /\ U!Number("0014_normalize_emails") = 14
    /\ U!Number("0017_announcement_templates") = 17 /\ U!Number("0018_universal_email_signature") = 18
<1>1. 9 \in 1..26 /\ 14 \in 1..26 /\ 17 \in 1..26 /\ 18 \in 1..26 /\ U!Latest = 26
  BY Places
<1>2. ASSUME NEW id, NEW n \in 1..26, \A k \in 1..26 : U!MIGRATIONS[k] = id <=> k = n
      PROVE  U!Number(id) = n
  <2>1. \E k \in 1..26 : U!MIGRATIONS[k] = id
    BY <1>2
  <2> QED  BY <1>1, <1>2, <2>1 DEF U!Number
<1>3. U!Number("0009_redesign_placements") = 9
  BY <1>1, <1>2, Places
<1>4. U!Number("0014_normalize_emails") = 14
  BY <1>1, <1>2, Places
<1>5. U!Number("0017_announcement_templates") = 17
  BY <1>1, <1>2, Places
<1>6. U!Number("0018_universal_email_signature") = 18
  BY <1>1, <1>2, Places
<1> QED  BY <1>3, <1>4, <1>5, <1>6

\* A new database fits.
LEMMA EmptyFits == UpgradeFits(U!Empty)
<1>1. PICK d : d = U!Empty
  OBVIOUS
<1>2. PICK f : f = <<>>
  OBVIOUS
<1>3. f \in UidMaps /\ DOMAIN f = {}
  <2>1. f \in [{} -> U!Uids \cup {NoRow}]
    BY <1>2
  <2>2. {} \in SUBSET Nat
    OBVIOUS
  <2> QED  BY <2>1, <2>2 DEF UidMaps
<1>4. /\ d \in UpgradeRows /\ d.applied = 0 /\ d.admins = {} /\ d.templates = {} /\ d.deleted = {}
      /\ d.body = NoRow /\ d.html = NoRow /\ d.text = NoRow /\ d.chosen = NoRow /\ d.uid = f /\ d.nextId = 1
  <2>1. d = [applied |-> 0, legacy |-> FALSE, admins |-> {}, templates |-> {}, body |-> NoRow, html |-> NoRow,
             text |-> NoRow, uid |-> f, nextId |-> 1, deleted |-> {}, chosen |-> NoRow]
    BY <1>1, <1>2 DEF U!Empty
  <2>2. NoRow \in Signatures /\ NoRow \in {NoRow, "invalid", "plain", "footed"} /\ 0 \in 0..26 /\ 1 \in Nat \ {0}
    BY DEF Signatures
  <2> HIDE DEF UidMaps, TemplateRows, Signatures
  <2> QED  BY ONLY <1>3, <2>1, <2>2 DEF UpgradeRows
<1>5. TemplatesFit(d) /\ AdminsFit(d)
  <2>1. 0 \in Nat
    OBVIOUS
  <2> QED  BY <1>4, <2>1 DEF TemplatesFit, AdminsFit
<1>6. SignatureFits(d)
  BY <1>4, UpgradeAssumption DEF SignatureFits
<1>7. UidsFit(d)
  <2>1. U!Students(d) = {}
    BY <1>3, <1>4 DEF U!Students
  <2> QED  BY <1>4, <2>1, FS_EmptySet DEF UidsFit
<1> QED  BY <1>1, <1>4, <1>5, <1>6, <1>7 DEF UpgradeFits

\* So does what an earlier release left.
LEMMA LeftFits ==
    ASSUME NEW k \in U!Releases, NEW d \in U!LeftBy(k)
    PROVE  UpgradeFits(d)
<1>1. k \in {8, 13, 18} /\ k \in 0..26
  BY DEF U!Releases
<1>2. /\ U!Past(k, "0009_redesign_placements") <=> k \in {13, 18}
      /\ U!Past(k, "0014_normalize_emails") <=> k = 18
      /\ U!Past(k, "0017_announcement_templates") <=> k = 18
      /\ U!Past(k, "0018_universal_email_signature") <=> k = 18
  BY <1>1, Releases DEF U!Past
<1>3. /\ d \in [applied : {k},
              legacy    : IF U!Past(k, "0009_redesign_placements") THEN {FALSE} ELSE BOOLEAN,
              admins    : IF U!Past(k, "0014_normalize_emails") THEN {{}, {"ann", "bob"}}
                          ELSE {{}, {"Ann", "bob"}, {"ann", "Ann"}},
              templates : IF U!Past(k, "0017_announcement_templates")
                          THEN {U!Seeded, {t \in U!Seeded : t.sort = 1}, U!Seeded \cup {[sort |-> 2, name |-> "own"]}}
                          ELSE {{}},
              body      : {NoRow, "invalid", "plain"} \cup
                          IF U!Past(k, "0018_universal_email_signature") THEN {} ELSE {"footed"},
              html      : IF U!Past(k, "0018_universal_email_signature") THEN {NoRow, "invalid", "custom"}
                          ELSE {NoRow},
              text      : {NoRow},
              uid       : {[i \in 1..n |-> NoRow] : n \in IF U!Past(k, "0009_redesign_placements")
                                                          THEN {0, 2, UidCount + 1} ELSE {0}},
              nextId    : 1..UidCount + 2,
              deleted   : SUBSET U!BuiltIn,
              chosen    : {NoRow, "custom"}]
      /\ d.nextId = U!Cardinality(U!Students(d)) + 1
      /\ d.deleted = {t.name : t \in IF d.templates = {} THEN {} ELSE U!Seeded \ d.templates}
      /\ d.chosen = (IF d.html = "custom" THEN "custom" ELSE NoRow)
  BY Zenon DEF U!LeftBy
<1>4. /\ d.applied = k /\ d.legacy \in BOOLEAN /\ d.text = NoRow /\ d.nextId \in 1..UidCount + 2
      /\ d.deleted \in SUBSET U!BuiltIn
      /\ d.admins \in IF U!Past(k, "0014_normalize_emails") THEN {{}, {"ann", "bob"}}
                      ELSE {{}, {"Ann", "bob"}, {"ann", "Ann"}}
      /\ d.templates \in IF U!Past(k, "0017_announcement_templates")
                         THEN {U!Seeded, {t \in U!Seeded : t.sort = 1}, U!Seeded \cup {[sort |-> 2, name |-> "own"]}}
                         ELSE {{}}
      /\ d.body \in {NoRow, "invalid", "plain"} \cup
                    IF U!Past(k, "0018_universal_email_signature") THEN {} ELSE {"footed"}
      /\ d.html \in IF U!Past(k, "0018_universal_email_signature") THEN {NoRow, "invalid", "custom"}
                    ELSE {NoRow}
      /\ d.uid \in {[i \in 1..n |-> NoRow] : n \in IF U!Past(k, "0009_redesign_placements")
                                                   THEN {0, 2, UidCount + 1} ELSE {0}}
  BY <1>3
<1>5. /\ d.templates \in SUBSET TemplateRows
      /\ d.templates # {} => k = 18
      /\ \E b \in Nat : \A t \in d.templates : t.sort <= b
      /\ \A t \in d.templates : t \in U!Seeded \/ t.name = "own"
      /\ \A t, u \in d.templates : t # u => t.sort # u.sort /\ t.name # u.name
  <2>1. PICK o : o = [sort |-> 2, name |-> "own"]
    OBVIOUS
  <2>2. o \in TemplateRows /\ o.sort = 2 /\ o.name = "own"
    BY <2>1 DEF TemplateRows
  <2>3. PICK b \in Nat : b = 2
    OBVIOUS
  <2>4. CASE d.templates = {}
    <3>1. b \in Nat
      OBVIOUS
    <3> QED  BY <2>4, <3>1
  <2>5. CASE k = 18 /\ d.templates \subseteq U!Seeded
    <3>1. \A t \in U!Seeded : t.sort <= b
      <4>1. ASSUME NEW t \in U!Seeded  PROVE t.sort <= b
        <5>1. t.sort \in Nat /\ t.sort <= 1
          BY SeedsTyped DEF TemplateRows
        <5>2. PICK x \in Nat : x = t.sort
          BY <5>1
        <5>3. x <= 2
          BY <5>1, <5>2
        <5> QED  BY <2>3, <5>2, <5>3, Zenon
      <4> QED  BY <4>1
    <3> QED  BY <2>5, <3>1, SeedsTyped, Zenon
  <2>6. CASE k = 18 /\ d.templates = U!Seeded \cup {o}
    <3>1. ASSUME NEW t \in U!Seeded  PROVE t.sort <= b /\ t.sort # 2
      <4>1. t.sort \in Nat /\ t.sort <= 1
        BY SeedsTyped DEF TemplateRows
      <4>2. PICK x \in Nat : x = t.sort
        BY <4>1
      <4>3. x <= 2 /\ x # 2
        BY <4>1, <4>2
      <4> QED  BY <2>3, <4>2, <4>3, Zenon
    <3>2. o.sort <= b
      <4>1. 2 <= 2
        OBVIOUS
      <4> QED  BY <2>2, <2>3, <4>1, Zenon
    <3>3. d.templates \in SUBSET TemplateRows
      BY <2>2, <2>6, SeedsTyped
    <3>4. \A t \in d.templates : t \in U!Seeded \/ t = o
      BY <2>6
    <3>5. \A t \in d.templates : t.sort <= b
      BY <3>1, <3>2, <3>4, Zenon
    <3>6. \A t, u \in d.templates : t # u => t.sort # u.sort /\ t.name # u.name
      BY <2>2, <3>1, <3>4, SeedsTyped, Zenon
    <3> QED  BY <2>2, <2>6, <3>3, <3>4, <3>5, <3>6, Zenon
  <2>7. \/ d.templates = {}
        \/ k = 18 /\ d.templates \subseteq U!Seeded
        \/ k = 18 /\ d.templates = U!Seeded \cup {o}
    BY <1>2, <1>4, <2>1
  <2> QED  BY <2>4, <2>5, <2>6, <2>7, Zenon
<1>6. /\ \A t \in d.templates : t.name \notin d.deleted
      /\ U!Intro \notin d.deleted
      /\ d.templates = {} => d.deleted = {}
  <2>1. ASSUME NEW x \in d.deleted  PROVE \E u \in U!Seeded : u \notin d.templates /\ u.name = x /\ d.templates # {}
    BY <1>3
  <2>2. ASSUME NEW t \in d.templates, NEW u \in U!Seeded, u \notin d.templates  PROVE u.name # t.name
    BY <1>5, <2>2, SeedsTyped, Zenon
  <2>3. \A u \in U!Seeded : u.name # U!Intro
    BY SeedsTyped
  <2> QED  BY <2>1, <2>2, <2>3
<1>7. TemplatesFit(d)
  <2>1. d.applied < 17 => d.templates = {} /\ d.deleted = {}
    BY <1>1, <1>4, <1>5, <1>6
  <2>2. \A t \in d.templates : t.name # U!Intro
    <3>1. U!Intro # "own"
      BY DEF U!Intro
    <3> QED  BY <1>5, <3>1, SeedsTyped, Zenon
  <2> QED  BY <1>5, <1>6, <2>1, <2>2, Zenon DEF TemplatesFit
<1>8. PICK n \in Nat : d.uid = [i \in 1..n |-> NoRow]
  BY <1>4, UpgradeAssumption
<1>9. DOMAIN d.uid = 1..n /\ d.uid \in UidMaps /\ \A i \in 1..n : d.uid[i] = NoRow
  <2>1. d.uid \in [1..n -> U!Uids \cup {NoRow}]
    BY <1>8
  <2>2. 1..n \in SUBSET Nat
    OBVIOUS
  <2> QED  BY <1>8, <2>1, <2>2 DEF UidMaps
<1>10. IsFiniteSet(1..n) /\ d.nextId = n + 1
  <2>1. IsFiniteSet(1..n) /\ Cardinality(1..n) = n
    <3>1. n - 1 + 1 = n /\ (1 > n <=> n = 0)
      OBVIOUS
    <3>2. IsFiniteSet(1..n) /\ Cardinality(1..n) = IF 1 > n THEN 0 ELSE n - 1 + 1
      BY FS_Interval
    <3> QED  BY <3>1, <3>2
  <2>2. U!Cardinality(1..n) = Cardinality(1..n)
    BY DEF U!Cardinality, Cardinality
  <2> QED  BY <1>3, <1>9, <2>1, <2>2 DEF U!Students
<1>11. UidsFit(d)
  <2>1. 1..n \subseteq 1..(d.nextId - 1)
    BY <1>10
  <2>2. ~(d.applied >= 20)
    BY <1>1, <1>4
  <2> QED  BY <1>9, <1>10, <2>1, <2>2 DEF UidsFit, U!Students
<1>12. AdminsFit(d)
  <2>1. k = 18 => \A m \in d.admins : m \in {"ann", "bob"}
    BY <1>2, <1>4
  <2>2. d.applied >= 14 => k = 18
    BY <1>1, <1>4
  <2> QED  BY <2>1, <2>2 DEF AdminsFit, U!Normal
<1>13. SignatureFits(d)
  <2>1. d.html \in {NoRow, "invalid", "custom"} /\ d.html # "typed"
    BY <1>2, <1>4, UpgradeAssumption
  <2>2. d.applied >= 18 => d.body # "footed"
    BY <1>1, <1>2, <1>4, UpgradeAssumption
  <2>3. d.applied < 19 /\ ~(d.applied >= 19)
    BY <1>1, <1>4
  <2> QED  BY <1>3, <1>4, <2>1, <2>2, <2>3 DEF SignatureFits
<1>14. d \in UpgradeRows
  <2>1. /\ k \in 0..26 /\ d.admins \in SUBSET U!LoginNames
        /\ d.body \in {NoRow, "invalid", "plain", "footed"} /\ d.html \in Signatures
        /\ d.text \in Signatures /\ d.chosen \in Signatures /\ d.nextId \in Nat \ {0}
    BY <1>1, <1>3, <1>4, <1>10 DEF Signatures, U!LoginNames
  <2> DEFINE R == [applied : {k},
              legacy    : IF U!Past(k, "0009_redesign_placements") THEN {FALSE} ELSE BOOLEAN,
              admins    : IF U!Past(k, "0014_normalize_emails") THEN {{}, {"ann", "bob"}}
                          ELSE {{}, {"Ann", "bob"}, {"ann", "Ann"}},
              templates : IF U!Past(k, "0017_announcement_templates")
                          THEN {U!Seeded, {t \in U!Seeded : t.sort = 1}, U!Seeded \cup {[sort |-> 2, name |-> "own"]}}
                          ELSE {{}},
              body      : {NoRow, "invalid", "plain"} \cup
                          IF U!Past(k, "0018_universal_email_signature") THEN {} ELSE {"footed"},
              html      : IF U!Past(k, "0018_universal_email_signature") THEN {NoRow, "invalid", "custom"}
                          ELSE {NoRow},
              text      : {NoRow},
              uid       : {[i \in 1..m |-> NoRow] : m \in IF U!Past(k, "0009_redesign_placements")
                                                          THEN {0, 2, UidCount + 1} ELSE {0}},
              nextId    : 1..UidCount + 2,
              deleted   : SUBSET U!BuiltIn,
              chosen    : {NoRow, "custom"}]
  <2>2. d \in R
    BY <1>3
  <2>3. d = [applied |-> d.applied, legacy |-> d.legacy, admins |-> d.admins, templates |-> d.templates,
             body |-> d.body, html |-> d.html, text |-> d.text, uid |-> d.uid, nextId |-> d.nextId,
             deleted |-> d.deleted, chosen |-> d.chosen]
    BY <2>2
  <2> HIDE DEF R
  <2>4. d.templates \in SUBSET TemplateRows /\ d.uid \in UidMaps /\ d.deleted \in SUBSET U!BuiltIn /\ d.legacy \in BOOLEAN
        /\ d.applied \in 0..26
    BY <1>1, <1>4, <1>5, <1>9
  <2> QED  BY ONLY <2>1, <2>3, <2>4 DEF UpgradeRows
<1> QED  BY <1>7, <1>11, <1>12, <1>13, <1>14 DEF UpgradeFits

\* What a step of the running controller brings fits, if what it makes of the database does.
LEMMA OpFits ==
    ASSUME UpgradeInv, NEW e, U!Op(e), UpgradeFits(e), UidsSame(data, e), e.applied = data.applied
    PROVE  UpgradeInv' /\ UidsSame(data, data')
<1>1. data' = e /\ server' = server /\ copy' = copy
  BY DEF U!Op
<1> QED  BY <1>1, Zenon DEF UpgradeInv

\* The steps that leave the database alone, or put the backup in its place.
LEMMA UpgradeMoves ==
    ASSUME UpgradeInv, \/ U!Boot \/ U!Serve \/ U!Crash \/ U!Restore \/ U!RunBackup
    PROVE  UpgradeInv' /\ (data' # copy => UidsSame(data, data'))
<1>1. UidsSame(data, data)
  BY DEF UidsSame
<1>2. CASE U!Boot
  <2>1. server' = "migrating" /\ data' = data /\ copy' = copy
    BY <1>2 DEF U!Boot
  <2> QED  BY <1>1, <2>1 DEF UpgradeInv
<1>3. CASE U!Serve
  <2>1. data' = data /\ copy' = copy /\ ~U!Pending(data)
    BY <1>3 DEF U!Serve
  <2>2. data.applied = 26
    BY <2>1, Places DEF U!Pending, UpgradeInv, UpgradeFits, UpgradeRows
  <2> QED  BY <1>1, <2>1, <2>2 DEF UpgradeInv
<1>4. CASE U!Crash
  <2>1. server' = "down" /\ data' = data /\ copy' = copy
    BY <1>4 DEF U!Crash
  <2> QED  BY <1>1, <2>1 DEF UpgradeInv
<1>5. CASE U!Restore
  <2>1. server = "down" /\ server' = server /\ data' = copy /\ copy' = copy
    BY <1>5 DEF U!Restore
  <2> QED  BY <2>1 DEF UpgradeInv
<1>6. CASE U!RunBackup
  <2>1. server' = server /\ data' = data /\ copy' = data
    BY <1>6 DEF U!RunBackup
  <2> QED  BY <1>1, <2>1 DEF UpgradeInv
<1> QED  BY <1>2, <1>3, <1>4, <1>5, <1>6

\* A migration that commits, or throws, and a repair after one that threw.
LEMMA UpgradeSteps ==
    ASSUME UpgradeInv, U!Migrate \/ U!Repair
    PROVE  UpgradeInv' /\ UidsSame(data, data')
<1>1. UidsSame(data, data)
  BY DEF UidsSame
<1>2. CASE U!Migrate
  <2>1. PICK r : r = U!Run(U!MIGRATIONS[data.applied + 1], data)
    OBVIOUS
  <2>2. /\ server = "migrating" /\ U!Pending(data) /\ copy' = copy
        /\ IF r.ok THEN data' = [r.db EXCEPT !.applied = @ + 1] /\ server' = server
           ELSE server' = "down" /\ data' = data
    BY <1>2, <2>1 DEF U!Migrate
  <2>3. CASE r.ok
    <3>1. UpgradeFits(data) /\ data' = [r.db EXCEPT !.applied = @ + 1]
      BY <2>2, <2>3 DEF UpgradeInv
    <3>2. UpgradeFits(data') /\ UidsSame(data, data')
      BY <2>1, <2>2, <2>3, <3>1, MigrationFits
    <3> QED  BY <2>2, <2>3, <3>2 DEF UpgradeInv
  <2>4. CASE ~r.ok
    BY <1>1, <2>2, <2>4 DEF UpgradeInv
  <2> QED  BY <2>3, <2>4
<1>3. CASE U!Repair
  <2>1. UpgradeFits(data') /\ UidsSame(data, data')
    BY <1>3, RepairFits DEF U!Repair, UpgradeInv
  <2>2. server' = server /\ server = "down" /\ copy' = copy
    BY <1>3 DEF U!Repair
  <2> QED  BY <2>1, <2>2 DEF UpgradeInv
<1> QED  BY <1>2, <1>3

\* What admins do while the controller runs.
LEMMA UpgradeOps ==
    ASSUME UpgradeInv,
           \/ \E m \in U!LoginNames : U!Signup(m)
           \/ U!AddStudent
           \/ \E i \in 1..MaxId : U!DeleteStudent(i)
           \/ U!CreateTemplate
           \/ \E t \in data.templates : U!DeleteTemplate(t)
           \/ U!SaveSignature
    PROVE  UpgradeInv' /\ UidsSame(data, data')
<1>1. UpgradeFits(data)
  BY DEF UpgradeInv
<1>2. ASSUME NEW m \in U!LoginNames, U!Signup(m)  PROVE UpgradeInv' /\ UidsSame(data, data')
  <2>1. PICK e : e = [data EXCEPT !.admins = @ \cup {U!Normal(m)}]
    OBVIOUS
  <2>2. U!Op(e)
    BY <1>2, <2>1 DEF U!Signup
  <2>3. UpgradeFits(e) /\ UidsSame(data, e) /\ e.applied = data.applied
    BY <1>1, <2>1, SignupFits
  <2> QED  BY <2>2, <2>3, OpFits
<1>3. ASSUME U!AddStudent  PROVE UpgradeInv' /\ UidsSame(data, data')
  <2>1. PICK D : D = U!Uids \ U!Range(data.uid)
    OBVIOUS
  <2>2. PICK e : e = Joined(data, U!Min(D))
    OBVIOUS
  <2>3. U!Op(e) /\ D # {}
    BY <1>3, <2>1, <2>2 DEF U!AddStudent, Joined
  <2>4. data.applied = 26
    BY <2>3 DEF U!Op, UpgradeInv
  <2>5. UpgradeFits(e) /\ UidsSame(data, e) /\ e.applied = data.applied
    BY <1>1, <2>1, <2>2, <2>3, <2>4, AddFits
  <2> QED  BY <2>3, <2>5, OpFits
<1>4. ASSUME NEW i \in 1..MaxId, U!DeleteStudent(i)  PROVE UpgradeInv' /\ UidsSame(data, data')
  <2>1. PICK e : e = [data EXCEPT !.uid = [j \in U!Students(data) \ {i} |-> data.uid[j]]]
    OBVIOUS
  <2>2. U!Op(e) /\ i \in U!Students(data)
    BY <1>4, <2>1 DEF U!DeleteStudent
  <2>3. data.applied = 26
    BY <2>2 DEF U!Op, UpgradeInv
  <2>4. UpgradeFits(e) /\ UidsSame(data, e) /\ e.applied = data.applied
    BY <1>1, <2>1, <2>2, <2>3, RemoveFits
  <2> QED  BY <2>2, <2>4, OpFits
<1>5. ASSUME U!CreateTemplate  PROVE UpgradeInv' /\ UidsSame(data, data')
  <2>1. PICK e : e = [data EXCEPT !.templates = U!AddTemplate(data, "own")]
    OBVIOUS
  <2>2. U!Op(e) /\ \A t \in data.templates : t.name # "own"
    BY <1>5, <2>1 DEF U!CreateTemplate
  <2>3. data.applied = 26
    BY <2>2 DEF U!Op, UpgradeInv
  <2>4. UpgradeFits(e) /\ UidsSame(data, e) /\ e.applied = data.applied
    BY <1>1, <2>1, <2>2, <2>3, CreateFits
  <2> QED  BY <2>2, <2>4, OpFits
<1>6. ASSUME NEW t \in data.templates, U!DeleteTemplate(t)  PROVE UpgradeInv' /\ UidsSame(data, data')
  <2>1. PICK e : e = [data EXCEPT !.templates = @ \ {t}, !.deleted = @ \cup (U!BuiltIn \cap {t.name})]
    OBVIOUS
  <2>2. U!Op(e)
    BY <1>6, <2>1 DEF U!DeleteTemplate
  <2>3. data.applied = 26
    BY <2>2 DEF U!Op, UpgradeInv
  <2>4. UpgradeFits(e) /\ UidsSame(data, e) /\ e.applied = data.applied
    BY <1>1, <2>1, <2>3, DeleteFits
  <2> QED  BY <2>2, <2>4, OpFits
<1>7. ASSUME U!SaveSignature  PROVE UpgradeInv' /\ UidsSame(data, data')
  <2>1. PICK e : e = [data EXCEPT !.text = "typed", !.chosen = "typed"]
    OBVIOUS
  <2>2. U!Op(e)
    BY <1>7, <2>1 DEF U!SaveSignature
  <2>3. data.applied = 26
    BY <2>2 DEF U!Op, UpgradeInv
  <2>4. UpgradeFits(e) /\ UidsSame(data, e) /\ e.applied = data.applied
    BY <1>1, <2>1, <2>3, SaveFits
  <2> QED  BY <2>2, <2>4, OpFits
<1> QED  BY <1>2, <1>3, <1>4, <1>5, <1>6, <1>7

\* What the run checks of a state follows.
LEMMA UpgradeHolds ==
    ASSUME UpgradeInv
    PROVE  /\ U!LoginsWork /\ U!TemplatesStayDeleted /\ U!SignatureKept
           /\ server = "running" =>
                /\ \A i \in U!Students(data) : data.uid[i] \in U!Uids
                /\ \A i, j \in U!Students(data) : data.uid[i] = data.uid[j] => i = j
<1>1. /\ TemplatesFit(data) /\ SignatureFits(data) /\ UidsFit(data) /\ AdminsFit(data)
      /\ server = "running" => data.applied = 26
  BY DEF UpgradeInv, UpgradeFits
<1>2. U!TemplatesStayDeleted
  BY <1>1 DEF TemplatesFit, U!TemplatesStayDeleted
<1>3. ASSUME server = "running"
      PROVE  /\ \A m \in data.admins : U!Normal(m) = m
             /\ data.html = NoRow /\ data.text = data.chosen /\ data.body # "footed"
             /\ \A i \in U!Students(data) : data.uid[i] \in U!Uids
             /\ \A i, j \in U!Students(data) : data.uid[i] = data.uid[j] => i = j
  <2>1. data.applied >= 14 /\ data.applied >= 18 /\ data.applied >= 19 /\ data.applied >= 20
    BY <1>1, <1>3
  <2> QED  BY <1>1, <2>1 DEF SignatureFits, UidsFit, AdminsFit
<1> QED  BY <1>2, <1>3 DEF U!LoginsWork, U!SignatureKept

\* A step of the controller is one of its upgrade or leaves the database alone.
LEMMA UpgradePart ==
    ASSUME UpgradeInv, [Next]_vars
    PROVE  UpgradeInv' /\ (data' # copy => UidsSame(data, data'))
<1>1. U!Next \/ UNCHANGED upVars
  BY DEF Next, vars, newVars
<1>2. CASE U!Next
  BY <1>2, UpgradeMoves, UpgradeSteps, UpgradeOps DEF U!Next
<1>3. CASE UNCHANGED upVars
  <2>1. data' = data /\ copy' = copy /\ server' = server
    BY <1>3 DEF upVars
  <2> QED  BY <2>1 DEF UpgradeInv, UidsSame
<1> QED  BY <1>1, <1>2, <1>3

\* The property the run checks of upgrades: wherever an upgrade is cut off, whatever is
\* restored, and however often it is begun again, every admin of a controller that serves
\* can log in, a built-in template that was deleted stays so, the signature that was
\* chosen is there, and students have UIDs of their own, which do not change.
THEOREM UpgradesKeep == Spec => UpgradeKeeps
<1>1. Init => UpgradeInv
  <2>1. U!Init => UpgradeInv
    BY EmptyFits, LeftFits DEF U!Init, UpgradeInv
  <2> QED  BY <2>1 DEF Init
<1>2. UpgradeInv /\ [Next]_vars => UpgradeInv'
  BY UpgradePart
<1>3. UpgradeInv => (part = "upgrades" => U!LoginsWork /\ U!TemplatesStayDeleted /\ U!SignatureKept)
  BY UpgradeHolds
<1>4. UpgradeInv /\ UpgradeInv' /\ [Next]_vars =>
        [/\ server' = "running" =>
              /\ \A i \in U!Students(data') : data'.uid[i] \in U!Uids
              /\ \A i, j \in U!Students(data') : data'.uid[i] = data'.uid[j] => i = j
         /\ data' # copy =>
              \A i \in U!Students(data) \cap U!Students(data') :
                 data.uid[i] # NoRow => data'.uid[i] = data.uid[i]]_(U!vars)
  <2> SUFFICES ASSUME UpgradeInv, UpgradeInv', [Next]_vars
               PROVE  /\ server' = "running" =>
                           /\ \A i \in U!Students(data') : data'.uid[i] \in U!Uids
                           /\ \A i, j \in U!Students(data') : data'.uid[i] = data'.uid[j] => i = j
                      /\ data' # copy =>
                           \A i \in U!Students(data) \cap U!Students(data') :
                              data.uid[i] # NoRow => data'.uid[i] = data.uid[i]
    OBVIOUS
  <2>1. (server = "running" =>
           /\ \A i \in U!Students(data) : data.uid[i] \in U!Uids
           /\ \A i, j \in U!Students(data) : data.uid[i] = data.uid[j] => i = j)'
    BY UpgradeHolds, PTL
  <2>2. data' # copy => UidsSame(data, data')
    BY UpgradePart
  <2> QED  BY <2>1, <2>2 DEF UidsSame, U!Students
<1> QED  BY <1>1, <1>2, <1>3, <1>4, PTL DEF Spec, UpgradeKeeps, U!UidsKept
-----------------------------------------------------------------------------
(***************************************************************************)
(* Alerts.  What the mails on their way report is counted occurrence by    *)
(* occurrence, and rows of logs by number or by size: one cap keeps the    *)
(* newest rows whose measure it allows, whichever of the two that is.      *)
(***************************************************************************)
AlertMails == [no : Nat, n : 1..MaxRaised]
LogRows    == [id : Nat, ts : Nat, size : 1..MaxLogSize]

\* One pair for each occurrence that a mail reports.
Occurrences(mails) == {p \in mails \X (1..MaxRaised) : p[2] <= p[1].n}

\* A mail reports its number of occurrences.
LEMMA ReportedCounts ==
    /\ W!Reported({}) = 0
    /\ \A mails \in SUBSET AlertMails : IsFiniteSet(mails) =>
          /\ W!Reported(mails) \in Nat
          /\ \A m \in AlertMails \ mails : W!Reported(mails \cup {m}) = W!Reported(mails) + m.n
<1>1. \A mails : W!Reported(mails) = Cardinality(Occurrences(mails))
  BY DEF W!Reported, Occurrences, W!Cardinality, Cardinality
<1>2. W!Reported({}) = 0
  <2>1. Occurrences({}) = {}
    BY DEF Occurrences
  <2> QED  BY <1>1, <2>1, FS_EmptySet
<1>3. ASSUME NEW mails \in SUBSET AlertMails, IsFiniteSet(mails)
      PROVE  IsFiniteSet(Occurrences(mails)) /\ W!Reported(mails) \in Nat
  <2>1. IsFiniteSet(1..MaxRaised)
    BY FS_Interval, AlertAssumption
  <2>2. IsFiniteSet(mails \X (1..MaxRaised))
    BY <1>3, <2>1, FS_Product
  <2>3. IsFiniteSet(Occurrences(mails))
    BY <2>2, FS_Subset DEF Occurrences
  <2> QED  BY <1>1, <2>3, FS_CardinalityType
<1>4. ASSUME NEW mails \in SUBSET AlertMails, IsFiniteSet(mails), NEW m \in AlertMails \ mails
      PROVE  W!Reported(mails \cup {m}) = W!Reported(mails) + m.n
  <2>1. PICK n \in 1..MaxRaised : n = m.n
    BY DEF AlertMails
  <2>2. PICK New : New = {m} \X (1..n)
    OBVIOUS
  <2>3. n \in Nat /\ IsFiniteSet(1..n) /\ Cardinality(1..n) = n
    <3>1. n \in Nat /\ 1 \in Int /\ n \in Int /\ ~(1 > n) /\ n - 1 + 1 = n
      BY AlertAssumption
    <3>2. IsFiniteSet(1..n) /\ Cardinality(1..n) = IF 1 > n THEN 0 ELSE n - 1 + 1
      BY <3>1, FS_Interval
    <3> QED  BY <3>1, <3>2
  <2>4. IsFiniteSet({m}) /\ Cardinality({m}) = 1
    BY FS_Singleton
  <2>5. IsFiniteSet(New) /\ Cardinality(New) = n
    <3>1. IsFiniteSet(New) /\ Cardinality(New) = Cardinality({m}) * Cardinality(1..n)
      BY <2>2, <2>3, <2>4, FS_Product
    <3>2. 1 * n = n
      BY <2>3
    <3> QED  BY <2>3, <2>4, <3>1, <3>2
  <2>6. Occurrences(mails \cup {m}) = Occurrences(mails) \cup New
    <3>1. \A p : p \in Occurrences(mails \cup {m}) => p \in Occurrences(mails) \cup New
      BY <2>1, <2>2, AlertAssumption DEF Occurrences
    <3>2. \A p \in New : p \in (mails \cup {m}) \X (1..MaxRaised) /\ p[2] <= p[1].n
      BY <2>1, <2>2, AlertAssumption
    <3>3. \A p \in Occurrences(mails) : p \in Occurrences(mails \cup {m})
      BY DEF Occurrences
    <3> QED  BY <3>1, <3>2, <3>3 DEF Occurrences
  <2>7. Occurrences(mails) \cap New = {}
    BY <2>2 DEF Occurrences
  <2>8. Cardinality(Occurrences(mails \cup {m})) = Cardinality(Occurrences(mails)) + Cardinality(New) - Cardinality({})
    BY <1>3, <1>4, <2>5, <2>6, <2>7, FS_Union
  <2>9. PICK a \in Nat : a = Cardinality(Occurrences(mails))
    BY <1>3, <1>4, <1>1
  <2>10. a + n - 0 = a + n
    BY <2>3
  <2> QED  BY <1>1, <2>1, <2>5, <2>8, <2>9, <2>10, FS_EmptySet
<1> QED  BY <1>2, <1>3, <1>4

\* A mail that ends takes its occurrences with it.
LEMMA ReportedEnds ==
    ASSUME NEW mails \in SUBSET AlertMails, IsFiniteSet(mails), NEW m \in mails
    PROVE  /\ IsFiniteSet(mails \ {m}) /\ W!Reported(mails \ {m}) \in Nat
           /\ W!Reported(mails) = W!Reported(mails \ {m}) + m.n
<1>1. mails \ {m} \in SUBSET AlertMails /\ m \in AlertMails \ (mails \ {m}) /\ (mails \ {m}) \cup {m} = mails
  OBVIOUS
<1>2. IsFiniteSet(mails \ {m})
  BY FS_Subset
<1> QED  BY <1>1, <1>2, ReportedCounts

\* More rows are not smaller, in number or in size.
LEMMA MoreRows ==
    ASSUME NEW lines, IsFiniteSet(lines), NEW X \in SUBSET lines
    PROVE  /\ W!Cardinality(X) \in Nat /\ W!Size(X) \in Nat
           /\ W!Cardinality(X) <= W!Cardinality(lines) /\ W!Size(X) <= W!Size(lines)
<1> DEFINE Marked(Z) == {p \in Z \X (1..MaxLogSize) : p[2] <= p[1].size}
<1>1. \A Z : W!Cardinality(Z) = Cardinality(Z)
  BY DEF W!Cardinality, Cardinality
<1>2. \A Z : W!Size(Z) = Cardinality(Marked(Z))
  BY <1>1 DEF W!Size, W!Bytes
<1>3. IsFiniteSet(Marked(lines))
  <2>1. IsFiniteSet(1..MaxLogSize)
    BY FS_Interval, AlertAssumption
  <2>2. IsFiniteSet(lines \X (1..MaxLogSize))
    BY <2>1, FS_Product
  <2> QED  BY <2>2, FS_Subset
<1>4. Marked(X) \in SUBSET Marked(lines)
  OBVIOUS
<1> HIDE DEF Marked
<1>5. IsFiniteSet(X) /\ Cardinality(X) <= Cardinality(lines) /\ Cardinality(X) \in Nat
  BY FS_Subset, FS_CardinalityType
<1>6. IsFiniteSet(Marked(X)) /\ Cardinality(Marked(X)) <= Cardinality(Marked(lines)) /\ Cardinality(Marked(X)) \in Nat
  BY <1>3, <1>4, FS_Subset, FS_CardinalityType
<1> QED  BY <1>1, <1>2, <1>5, <1>6

\* Among some rows there is an oldest one.
LEMMA OldestRow ==
    ASSUME NEW X \in SUBSET LogRows, X # {}
    PROVE  \E r \in X : \A q \in X : q.id >= r.id
<1>1. PICK I : I = {r.id : r \in X}
  OBVIOUS
<1>2. I \subseteq Nat /\ I # {}
  BY <1>1 DEF LogRows
<1>3. PICK i \in I : \A k \in I : i <= k
  BY <1>2, LeastNatural
<1>4. PICK r \in X : i = r.id
  BY <1>1
<1>5. ASSUME NEW q \in X  PROVE q.id >= r.id
  <2>1. PICK x \in Nat, y \in Nat : x = q.id /\ y = r.id
    BY DEF LogRows
  <2>2. y <= x
    BY <1>1, <1>3, <1>4, <2>1
  <2>3. x >= y
    BY <2>2
  <2> QED  BY <2>1, <2>3, Zenon
<1> QED  BY <1>5

\* What a cap keeps by some measure of rows: it fits, it is the newest, and with one row
\* more it would not fit.
LEMMA CapKeeps ==
    ASSUME NEW lines \in SUBSET LogRows, NEW f \in [SUBSET lines -> Nat], f[{}] = 0, NEW cap \in Nat,
           \A X \in SUBSET lines : \A Y \in SUBSET X : f[Y] <= f[X],
           NEW K, K = {r \in lines : f[W!Since(lines, r)] <= cap}
    PROVE  /\ f[K] <= cap
           /\ \A r \in lines \ K : (\A q \in K : r.id < q.id) /\ ~(f[W!Since(lines, r)] <= cap)
<1>1. K \in SUBSET lines /\ \A r \in lines : W!Since(lines, r) \in SUBSET lines
  BY DEF W!Since
<1>2. \A r \in lines : r.id \in Nat
  BY DEF LogRows
<1>3. f[K] <= cap
  <2>1. CASE K = {}
    <3>1. 0 <= cap
      OBVIOUS
    <3> QED  BY <2>1, <3>1
  <2>2. CASE K # {}
    <3>1. PICK r \in K : \A q \in K : q.id >= r.id
      BY <1>1, <2>2, OldestRow
    <3>2. K \in SUBSET W!Since(lines, r)
      BY <1>1, <3>1 DEF W!Since
    <3>3. PICK a \in Nat, b \in Nat : a = f[K] /\ b = f[W!Since(lines, r)]
      BY <1>1
    <3>4. a <= b /\ b <= cap
      BY <1>1, <3>1, <3>2, <3>3
    <3>5. a <= cap
      BY <3>4
    <3> QED  BY <3>3, <3>5
  <2> QED  BY <2>1, <2>2
<1>4. ASSUME NEW r \in lines \ K
      PROVE  (\A q \in K : r.id < q.id) /\ ~(f[W!Since(lines, r)] <= cap)
  <2>1. ~(f[W!Since(lines, r)] <= cap)
    OBVIOUS
  <2>2. ASSUME NEW q \in K  PROVE r.id < q.id
    <3>1. PICK x \in Nat, y \in Nat : x = r.id /\ y = q.id
      BY <1>1, <1>2
    <3>2. SUFFICES ASSUME ~(x < y)  PROVE FALSE
      BY <3>1
    <3>3. y <= x
      BY <3>2
    <3>4. ASSUME NEW p \in W!Since(lines, r)  PROVE p \in W!Since(lines, q)
      <4>1. p \in lines /\ p.id >= r.id
        BY <3>4 DEF W!Since
      <4>2. PICK z \in Nat : z = p.id
        BY <1>2, <4>1
      <4>3. z >= y
        BY <3>1, <3>3, <4>1, <4>2
      <4> QED  BY <3>1, <4>1, <4>2, <4>3 DEF W!Since
    <3>5. PICK a \in Nat, b \in Nat : a = f[W!Since(lines, r)] /\ b = f[W!Since(lines, q)]
      BY <1>1
    <3>6. a <= b /\ b <= cap
      BY <1>1, <3>4, <3>5
    <3>7. a <= cap
      BY <3>6
    <3> QED  BY <2>1, <3>5, <3>7
  <2> QED  BY <2>1, <2>2
<1> QED  BY <1>3, <1>4

\* What the cap on the number of rows keeps.
LEMMA CapEntriesKeeps ==
    ASSUME NEW lines \in SUBSET LogRows, IsFiniteSet(lines), NEW c \in LogCaps,
           NEW K, K = W!CapEntries(lines, c)
    PROVE  /\ K \in SUBSET lines
           /\ c.entries > 0 => W!Cardinality(K) <= c.entries
           /\ \A r \in lines \ K : /\ \A q \in K : r.id < q.id
                                  /\ c.entries > 0 /\ ~(W!Cardinality(W!Since(lines, r)) <= c.entries)
<1>1. PICK n \in Nat : n = c.entries
  BY AlertAssumption
<1>2. CASE ~(n > 0)
  BY <1>1, <1>2 DEF W!CapEntries
<1>3. CASE n > 0
  <2>1. PICK f : f = [X \in SUBSET lines |-> W!Cardinality(X)]
    OBVIOUS
  <2>2. \A X \in SUBSET lines : f[X] = W!Cardinality(X) /\ W!Cardinality(X) \in Nat
    BY <2>1, MoreRows
  <2>3. f \in [SUBSET lines -> Nat]
    BY <2>1, <2>2
  <2>4. f[{}] = 0
    BY <2>2, FS_EmptySet DEF W!Cardinality, Cardinality
  <2>5. \A X \in SUBSET lines : \A Y \in SUBSET X : f[Y] <= f[X]
    <3>1. ASSUME NEW X \in SUBSET lines, NEW Y \in SUBSET X  PROVE f[Y] <= f[X]
      <4>1. IsFiniteSet(X) /\ Y \in SUBSET lines
        BY FS_Subset
      <4> QED  BY <2>2, <4>1, MoreRows
    <3> QED  BY <3>1
  <2>6. \A r \in lines : f[W!Since(lines, r)] = W!Cardinality(W!Since(lines, r))
    BY <2>2 DEF W!Since
  <2>7. K = {r \in lines : f[W!Since(lines, r)] <= n}
    BY <1>1, <1>3, <2>6 DEF W!CapEntries
  <2>8. /\ f[K] <= n
        /\ \A r \in lines \ K : (\A q \in K : r.id < q.id) /\ ~(f[W!Since(lines, r)] <= n)
    BY <2>3, <2>4, <2>5, <2>7, CapKeeps
  <2>9. K \in SUBSET lines
    BY <2>7
  <2> QED  BY <1>1, <1>3, <2>2, <2>6, <2>8, <2>9
<1> QED  BY <1>2, <1>3

\* What the cap on their size keeps.
LEMMA CapSizeKeeps ==
    ASSUME NEW lines \in SUBSET LogRows, IsFiniteSet(lines), NEW c \in LogCaps,
           NEW K, K = W!CapSize(lines, c)
    PROVE  /\ K \in SUBSET lines
           /\ c.bytes > 0 => W!Size(K) <= c.bytes
           /\ \A r \in lines \ K : /\ \A q \in K : r.id < q.id
                                  /\ c.bytes > 0 /\ ~(W!Size(W!Since(lines, r)) <= c.bytes)
<1>1. PICK n \in Nat : n = c.bytes
  BY AlertAssumption
<1>2. CASE ~(n > 0)
  BY <1>1, <1>2 DEF W!CapSize
<1>3. CASE n > 0
  <2>1. PICK f : f = [X \in SUBSET lines |-> W!Size(X)]
    OBVIOUS
  <2>2. \A X \in SUBSET lines : f[X] = W!Size(X) /\ W!Size(X) \in Nat
    BY <2>1, MoreRows
  <2>3. f \in [SUBSET lines -> Nat]
    BY <2>1, <2>2
  <2>4. f[{}] = 0
    <3>1. W!Bytes({}) = {}
      BY DEF W!Bytes
    <3>2. W!Cardinality({}) = 0
      BY FS_EmptySet DEF W!Cardinality, Cardinality
    <3> QED  BY <2>2, <3>1, <3>2 DEF W!Size
  <2>5. \A X \in SUBSET lines : \A Y \in SUBSET X : f[Y] <= f[X]
    <3>1. ASSUME NEW X \in SUBSET lines, NEW Y \in SUBSET X  PROVE f[Y] <= f[X]
      <4>1. IsFiniteSet(X) /\ Y \in SUBSET lines
        BY FS_Subset
      <4> QED  BY <2>2, <4>1, MoreRows
    <3> QED  BY <3>1
  <2>6. \A r \in lines : f[W!Since(lines, r)] = W!Size(W!Since(lines, r))
    BY <2>2 DEF W!Since
  <2>7. K = {r \in lines : f[W!Since(lines, r)] <= n}
    BY <1>1, <1>3, <2>6 DEF W!CapSize
  <2>8. /\ f[K] <= n
        /\ \A r \in lines \ K : (\A q \in K : r.id < q.id) /\ ~(f[W!Since(lines, r)] <= n)
    BY <2>3, <2>4, <2>5, <2>7, CapKeeps
  <2>9. K \in SUBSET lines
    BY <2>7
  <2> QED  BY <1>1, <1>3, <2>2, <2>6, <2>8, <2>9
<1> QED  BY <1>2, <1>3

\* The rows that a rotation leaves are the newest of those young enough, within both
\* caps, and one more of them would break a cap.
LEMMA PruneKeeps ==
    ASSUME logs \in SUBSET LogRows, IsFiniteSet(logs), NEW c \in LogCaps, NEW young,
           young = {r \in logs : c.days > 0 => r.ts + c.days >= now}, NEW K, K = W!PruneLogs(c)
    PROVE  /\ W!Within(K, c) /\ K \subseteq young
           /\ \A r \in young \ K : (\A q \in K : r.id < q.id) /\ ~W!Within(W!Since(young, r), c)
<1>1. W!CapAge(logs, c) = young
  BY DEF W!CapAge
<1>2. PICK E : E = W!CapEntries(young, c)
  OBVIOUS
<1>3. K = W!CapSize(E, c)
  BY <1>1, <1>2 DEF W!PruneLogs
<1>4. young \in SUBSET LogRows /\ IsFiniteSet(young)
  BY FS_Subset
<1>5. /\ E \in SUBSET young
      /\ c.entries > 0 => W!Cardinality(E) <= c.entries
      /\ \A r \in young \ E : /\ \A q \in E : r.id < q.id
                              /\ c.entries > 0 /\ ~(W!Cardinality(W!Since(young, r)) <= c.entries)
  <2>1. c \in LogCaps
    OBVIOUS
  <2> QED  BY ONLY <1>2, <1>4, <2>1, CapEntriesKeeps
<1>6. E \in SUBSET LogRows /\ IsFiniteSet(E)
  BY <1>4, <1>5, FS_Subset
<1>7. /\ K \in SUBSET E
      /\ c.bytes > 0 => W!Size(K) <= c.bytes
      /\ \A r \in E \ K : /\ \A q \in K : r.id < q.id
                          /\ c.bytes > 0 /\ ~(W!Size(W!Since(E, r)) <= c.bytes)
  BY <1>3, <1>6, CapSizeKeeps
<1>8. W!Within(K, c)
  <2>1. ASSUME c.entries > 0  PROVE W!Cardinality(K) <= c.entries
    <3>1. W!Cardinality(K) \in Nat /\ W!Cardinality(E) \in Nat /\ W!Cardinality(K) <= W!Cardinality(E)
      BY <1>6, <1>7, MoreRows
    <3>2. PICK x \in Nat, y \in Nat, n \in Nat : x = W!Cardinality(K) /\ y = W!Cardinality(E) /\ n = c.entries
      BY <3>1, AlertAssumption
    <3>3. x <= y /\ y <= n
      BY <1>5, <2>1, <3>1, <3>2
    <3>4. x <= n
      BY <3>3
    <3> QED  BY <3>2, <3>4
  <2> QED  BY <1>7, <2>1 DEF W!Within
<1>9. ASSUME NEW r \in young \ K  PROVE (\A q \in K : r.id < q.id) /\ ~W!Within(W!Since(young, r), c)
  <2>1. CASE r \notin E
    BY <1>5, <1>7, <2>1 DEF W!Within
  <2>2. CASE r \in E
    <3>1. (\A q \in K : r.id < q.id) /\ c.bytes > 0 /\ ~(W!Size(W!Since(E, r)) <= c.bytes)
      BY <1>7, <2>2
    <3>2. W!Since(young, r) \in SUBSET young /\ W!Since(E, r) \in SUBSET W!Since(young, r)
      BY <1>5 DEF W!Since
    <3>3. IsFiniteSet(W!Since(young, r))
      BY <1>4, <3>2, FS_Subset
    <3>4. W!Size(W!Since(E, r)) <= W!Size(W!Since(young, r))
      BY <3>2, <3>3, MoreRows
    <3>5. PICK x \in Nat, y \in Nat, n \in Nat :
             x = W!Size(W!Since(E, r)) /\ y = W!Size(W!Since(young, r)) /\ n = c.bytes
      <4>1. W!Size(W!Since(E, r)) \in Nat
        BY <3>2, <3>3, MoreRows
      <4>2. W!Size(W!Since(young, r)) \in Nat
        BY <1>4, <3>2, MoreRows
      <4> QED  BY <4>1, <4>2, AlertAssumption
    <3>6. x <= y /\ ~(x <= n)
      BY <3>1, <3>4, <3>5
    <3>7. ~(y <= n)
      BY <3>6
    <3> QED  BY <3>1, <3>5, <3>7 DEF W!Within
  <2> QED  BY <2>1, <2>2
<1> QED  BY <1>5, <1>7, <1>8, <1>9

\* The variables of the rows and of their settings.
LogsTyped ==
    /\ now \in 0..MaxAlertTime /\ window \in Windows /\ caps \in LogCaps
    /\ lastLog \in 0..MaxLogs /\ IsFiniteSet(logs)
    /\ logs \subseteq [id : 1..lastLog, ts : 0..now, size : 1..MaxLogSize]
    /\ \A r, q \in logs : r.id = q.id => r = q

\* Those of the alerts.
AlertsTyped ==
    /\ tally \in [raised : 0..MaxRaised, told : Nat, lost : Nat]
    /\ state = None \/ state \in [last : 0..now, suppressed : Nat]
    /\ IsFiniteSet(flying) /\ flying \subseteq [no : 1..tally.raised, n : 1..MaxRaised]
    /\ \A m, k \in flying : m.no = k.no => m = k

AlertInv == now \in 0..MaxAlertTime /\ LogsTyped /\ AlertsTyped /\ W!AlertsAccounted

\* The numbers in an account of alerts are numbers.
LEMMA AlertNumbers ==
    ASSUME AlertsTyped, now \in 0..MaxAlertTime
    PROVE  /\ flying \in SUBSET AlertMails /\ W!Reported(flying) \in Nat
           /\ W!Waiting \in Nat
           /\ tally.raised \in 0..MaxRaised /\ tally.raised \in Nat /\ tally.told \in Nat /\ tally.lost \in Nat
<1>1. tally.raised \in 0..MaxRaised /\ tally.told \in Nat /\ tally.lost \in Nat
  BY DEF AlertsTyped
<1>2. PICK a \in Nat : a = tally.raised
  BY <1>1, AlertAssumption
<1>3. flying \in SUBSET AlertMails
  <2>1. flying \subseteq [no : 1..a, n : 1..MaxRaised] /\ 1..a \subseteq Nat
    BY <1>2 DEF AlertsTyped
  <2> QED  BY <2>1 DEF AlertMails
<1>4. W!Waiting \in Nat
  BY DEF AlertsTyped, W!Waiting
<1>5. W!Reported(flying) \in Nat
  BY <1>3, ReportedCounts DEF AlertsTyped
<1> QED  BY <1>1, <1>2, <1>3, <1>4, <1>5

\* An occurrence is mailed, with those that waited, or waits, or is lost with them.
LEMMA AlertRaises ==
    ASSUME AlertsTyped, W!AlertsAccounted, now \in 0..MaxAlertTime, now' = now,
           tally.raised < MaxRaised, W!AlertAdmins
    PROVE  AlertsTyped' /\ W!AlertsAccounted'
<1>1. /\ flying \in SUBSET AlertMails /\ IsFiniteSet(flying)
      /\ tally \in [raised : 0..MaxRaised, told : Nat, lost : Nat]
  BY AlertNumbers DEF AlertsTyped
<1>2. PICK a \in 0..MaxRaised, b \in Nat, c \in Nat, w \in Nat, f \in Nat :
         a = tally.raised /\ b = tally.told /\ c = tally.lost /\ w = W!Waiting /\ f = W!Reported(flying)
  BY AlertNumbers
<1>3. a = b + c + w + f /\ a < MaxRaised
  BY <1>2 DEF W!AlertsAccounted
<1>4. PICK n : n = 1 + w
  OBVIOUS
<1>5. n \in 1..MaxRaised /\ a + 1 \in 0..MaxRaised /\ a + 1 \in 1..(a + 1) /\ a \in Nat /\ c + n \in Nat
  BY <1>2, <1>3, <1>4, AlertAssumption
<1>6. flying \subseteq [no : 1..a, n : 1..MaxRaised] /\ \A m, k \in flying : m.no = k.no => m = k
  BY <1>2 DEF AlertsTyped
<1>7. flying \subseteq [no : 1..(a + 1), n : 1..MaxRaised]
  <2>1. 1..a \subseteq 1..(a + 1)
    BY <1>5
  <2> QED  BY <1>6, <2>1
<1>8. CASE ~enabled
  <2>1. state' = state /\ flying' = flying /\ tally' = tally
    BY <1>8 DEF W!AlertAdmins, W!alerts
  <2> QED  BY <2>1 DEF AlertsTyped, W!AlertsAccounted, W!Waiting
<1>9. CASE enabled /\ state # None /\ now - state.last < window
  <2>1. /\ state' = [state EXCEPT !.suppressed = @ + 1] /\ tally' = [tally EXCEPT !.raised = @ + 1]
        /\ flying' = flying
    BY <1>9 DEF W!AlertAdmins
  <2>2. state \in [last : 0..now, suppressed : Nat] /\ state.suppressed = w
    BY <1>2, <1>9 DEF AlertsTyped, W!Waiting
  <2>3. state' \in [last : 0..now, suppressed : Nat] /\ state'.suppressed = w + 1
    BY <2>1, <2>2
  <2>4. tally' \in [raised : 0..MaxRaised, told : Nat, lost : Nat]
        /\ tally'.raised = a + 1 /\ tally'.told = b /\ tally'.lost = c
    BY <1>1, <1>2, <1>5, <2>1
  <2>5. state' # None
    <3>1. 0..now \subseteq Nat
      BY AlertAssumption
    <3> QED  BY <2>3, <3>1, AlertAssumption
  <2>6. W!Waiting' = w + 1
    BY <2>3, <2>5 DEF W!Waiting
  <2>7. AlertsTyped'
    BY <1>1, <1>6, <1>7, <2>1, <2>3, <2>4 DEF AlertsTyped
  <2>8. W!AlertsAccounted'
    <3>1. a + 1 = b + c + (w + 1) + f
      BY <1>2, <1>3
    <3>2. W!Reported(flying)' = f
      BY <1>2, <2>1
    <3> QED  BY <2>4, <2>6, <3>1, <3>2 DEF W!AlertsAccounted
  <2> QED  BY <2>7, <2>8
<1>10. CASE enabled /\ ~(state # None /\ now - state.last < window)
  <2>1. /\ state' = [last |-> now, suppressed |-> 0]
        /\ flying' = IF anybody THEN flying \cup {[no |-> a + 1, n |-> n]} ELSE flying
        /\ tally' = [tally EXCEPT !.raised = @ + 1, !.lost = IF anybody THEN @ ELSE @ + n]
    <3>1. (1 + IF state = None THEN 0 ELSE state.suppressed) = n
      BY <1>2, <1>4 DEF W!Waiting
    <3> QED  BY <1>2, <1>10, <3>1 DEF W!AlertAdmins
  <2>2. state' \in [last : 0..now, suppressed : Nat] /\ state'.suppressed = 0
    <3>1. now \in 0..now
      BY AlertAssumption
    <3> QED  BY <2>1, <3>1
  <2>3. W!Waiting' = 0
    BY <2>2 DEF W!Waiting
  <2>4. CASE anybody
    <3>1. PICK m : m = [no |-> a + 1, n |-> n]
      OBVIOUS
    <3>2. m \in [no : 1..(a + 1), n : 1..MaxRaised] /\ m.no = a + 1 /\ m.n = n
      BY <1>5, <3>1
    <3>3. \A k \in flying : k.no # a + 1
      BY <1>5, <1>6
    <3>4. m \in AlertMails \ flying
      <4>1. 1..(a + 1) \subseteq Nat
        BY <1>5
      <4> QED  BY <3>2, <3>3, <4>1 DEF AlertMails
    <3>5. flying' = flying \cup {m} /\ IsFiniteSet(flying')
      BY <1>1, <2>1, <2>4, <3>1, FS_AddElement
    <3>6. W!Reported(flying)' = f + n
      BY <1>1, <1>2, <3>2, <3>4, <3>5, ReportedCounts
    <3>7. tally' \in [raised : 0..MaxRaised, told : Nat, lost : Nat]
          /\ tally'.raised = a + 1 /\ tally'.told = b /\ tally'.lost = c
      BY <1>1, <1>2, <1>5, <2>1, <2>4
    <3>8. \A x, y \in flying' : x.no = y.no => x = y
      BY <1>6, <3>2, <3>3, <3>5
    <3>9. flying' \subseteq [no : 1..(a + 1), n : 1..MaxRaised]
      BY <1>7, <3>2, <3>5
    <3>10. AlertsTyped'
      BY <2>2, <3>5, <3>7, <3>8, <3>9 DEF AlertsTyped
    <3>11. a + 1 = b + c + 0 + (f + n)
      BY <1>2, <1>3, <1>4
    <3> QED  BY <2>3, <3>6, <3>7, <3>10, <3>11 DEF W!AlertsAccounted
  <2>5. CASE ~anybody
    <3>1. tally' \in [raised : 0..MaxRaised, told : Nat, lost : Nat]
          /\ tally'.raised = a + 1 /\ tally'.told = b /\ tally'.lost = c + n
      BY <1>1, <1>2, <1>5, <2>1, <2>5
    <3>2. flying' = flying
      BY <2>1, <2>5
    <3>3. AlertsTyped'
      BY <1>1, <1>6, <1>7, <2>2, <3>1, <3>2 DEF AlertsTyped
    <3>4. a + 1 = b + (c + n) + 0 + f
      <4>1. b + (c + (1 + w)) + 0 + f = b + c + w + f + 1
        OBVIOUS
      <4> QED  BY <1>3, <1>4, <4>1, Zenon
    <3>5. W!Reported(flying)' = f
      BY <1>2, <3>2
    <3> QED  BY <2>3, <3>1, <3>3, <3>4, <3>5 DEF W!AlertsAccounted
  <2> QED  BY <2>4, <2>5
<1> QED  BY <1>8, <1>9, <1>10

\* A mail that ends was told or is lost.
LEMMA AlertMailEnds ==
    ASSUME AlertsTyped, W!AlertsAccounted, now \in 0..MaxAlertTime, NEW m, NEW ok \in BOOLEAN, W!MailEnds(m, ok)
    PROVE  AlertsTyped' /\ W!AlertsAccounted'
<1>1. /\ flying \in SUBSET AlertMails /\ IsFiniteSet(flying)
      /\ tally \in [raised : 0..MaxRaised, told : Nat, lost : Nat]
  BY AlertNumbers DEF AlertsTyped
<1>2. /\ m \in flying /\ flying' = flying \ {m} /\ state' = state /\ now' = now
      /\ tally' = IF ok THEN [tally EXCEPT !.told = @ + m.n] ELSE [tally EXCEPT !.lost = @ + m.n]
  BY DEF W!MailEnds
<1>3. PICK a \in 0..MaxRaised, b \in Nat, c \in Nat, w \in Nat, f \in Nat :
         a = tally.raised /\ b = tally.told /\ c = tally.lost /\ w = W!Waiting /\ f = W!Reported(flying)
  BY AlertNumbers
<1>4. PICK n \in Nat, g \in Nat : n = m.n /\ g = W!Reported(flying \ {m}) /\ f = g + n /\ IsFiniteSet(flying \ {m})
  <2>1. IsFiniteSet(flying \ {m}) /\ W!Reported(flying \ {m}) \in Nat
        /\ W!Reported(flying) = W!Reported(flying \ {m}) + m.n
    BY <1>1, <1>2, ReportedEnds
  <2>2. m.n \in Nat
    BY <1>1, <1>2, AlertAssumption DEF AlertMails
  <2> QED  BY <1>3, <2>1, <2>2
<1>5. a = b + c + w + f
  BY <1>3 DEF W!AlertsAccounted
<1>6. W!Waiting' = w /\ W!Reported(flying)' = g
  BY <1>2, <1>3, <1>4 DEF W!Waiting
<1>7. /\ tally' \in [raised : 0..MaxRaised, told : Nat, lost : Nat] /\ tally'.raised = a
      /\ tally'.told + tally'.lost + w + g = a
  <2>1. CASE ok
    <3>1. tally' = [tally EXCEPT !.told = @ + n] /\ b + n \in Nat
      BY <1>2, <1>4, <2>1
    <3>2. /\ tally' \in [raised : 0..MaxRaised, told : Nat, lost : Nat] /\ tally'.raised = a
          /\ tally'.told = b + n /\ tally'.lost = c
      BY <1>1, <1>3, <3>1
    <3>3. b + n + c + w + g = a
      BY <1>3, <1>4, <1>5
    <3> QED  BY <3>2, <3>3
  <2>2. CASE ~ok
    <3>1. tally' = [tally EXCEPT !.lost = @ + n] /\ c + n \in Nat
      BY <1>2, <1>4, <2>2
    <3>2. /\ tally' \in [raised : 0..MaxRaised, told : Nat, lost : Nat] /\ tally'.raised = a
          /\ tally'.told = b /\ tally'.lost = c + n
      BY <1>1, <1>3, <3>1
    <3>3. b + (c + n) + w + g = a
      BY <1>3, <1>4, <1>5
    <3> QED  BY <3>2, <3>3
  <2> QED  BY <2>1, <2>2
<1>8. AlertsTyped'
  <2>1. flying \subseteq [no : 1..a, n : 1..MaxRaised] /\ \A x, k \in flying : x.no = k.no => x = k
    BY <1>3 DEF AlertsTyped
  <2> QED  BY <1>2, <1>4, <1>7, <2>1 DEF AlertsTyped
<1> QED  BY <1>3, <1>6, <1>7, <1>8 DEF W!AlertsAccounted

\* A restart loses what waited and what was on its way.
LEMMA AlertsForgotten ==
    ASSUME AlertsTyped, W!AlertsAccounted, now \in 0..MaxAlertTime, W!Restart
    PROVE  AlertsTyped' /\ W!AlertsAccounted'
<1>1. tally \in [raised : 0..MaxRaised, told : Nat, lost : Nat]
  BY DEF AlertsTyped
<1>2. PICK a \in 0..MaxRaised, b \in Nat, c \in Nat, w \in Nat, f \in Nat :
         a = tally.raised /\ b = tally.told /\ c = tally.lost /\ w = W!Waiting /\ f = W!Reported(flying)
  BY AlertNumbers
<1>3. a = b + c + w + f
  BY <1>2 DEF W!AlertsAccounted
<1>4. state' = None /\ flying' = {} /\ now' = now /\ tally' = [tally EXCEPT !.lost = @ + w + f]
  BY <1>2 DEF W!Restart
<1>5. /\ tally' \in [raised : 0..MaxRaised, told : Nat, lost : Nat] /\ tally'.raised = a
      /\ tally'.told = b /\ tally'.lost = c + w + f
  <2>1. c + w + f \in Nat
    OBVIOUS
  <2> QED  BY <1>1, <1>2, <1>4, <2>1
<1>6. W!Waiting' = 0 /\ W!Reported(flying)' = 0
  BY <1>4, ReportedCounts DEF W!Waiting
<1>7. a = b + (c + w + f) + 0 + 0
  BY <1>2, <1>3
<1>8. AlertsTyped'
  BY <1>4, <1>5, FS_EmptySet DEF AlertsTyped
<1> QED  BY <1>5, <1>6, <1>7, <1>8 DEF W!AlertsAccounted

\* Steps that leave alerts alone.
LEMMA AlertsStay ==
    ASSUME AlertsTyped, W!AlertsAccounted, UNCHANGED <<state, flying, tally>>, now' \in Nat, now \in Nat, now' >= now
    PROVE  AlertsTyped' /\ W!AlertsAccounted'
<1>1. W!AlertsAccounted'
  BY DEF W!AlertsAccounted, W!Waiting
<1>2. 0..now \subseteq 0..now'
  OBVIOUS
<1>3. state' = None \/ state' \in [last : 0..now', suppressed : Nat]
  BY <1>2 DEF AlertsTyped
<1> QED  BY <1>1, <1>3 DEF AlertsTyped

\* Rows that stay, or go, stay well formed.
LEMMA RowsStay ==
    ASSUME LogsTyped, logs' \subseteq logs, lastLog' = lastLog, now' \in 0..MaxAlertTime, now' >= now,
           window' \in Windows, caps' \in LogCaps
    PROVE  LogsTyped'
<1>1. 0..now \subseteq 0..now'
  BY AlertAssumption DEF LogsTyped
<1>2. logs' \subseteq [id : 1..lastLog', ts : 0..now', size : 1..MaxLogSize]
  BY <1>1 DEF LogsTyped
<1>3. IsFiniteSet(logs')
  BY FS_Subset DEF LogsTyped
<1> QED  BY <1>2, <1>3 DEF LogsTyped

\* Rows have numbers for their ids and times.
LEMMA RowsAreRows == LogsTyped => logs \in SUBSET LogRows /\ IsFiniteSet(logs)
<1> SUFFICES ASSUME LogsTyped  PROVE logs \in SUBSET LogRows /\ IsFiniteSet(logs)
  OBVIOUS
<1>1. 1..lastLog \subseteq Nat /\ 0..now \subseteq Nat
  BY AlertAssumption DEF LogsTyped
<1> QED  BY <1>1 DEF LogsTyped, LogRows

\* A row that is logged is the last.
LEMMA LogRowAdded ==
    ASSUME AlertInv, NEW lag \in 0..1, NEW size \in 1..MaxLogSize, NEW loud \in BOOLEAN, W!HandleLog(lag, size, loud)
    PROVE  AlertInv' /\ logs \subseteq logs'
<1>1. PICK l \in Nat, t \in Nat : l = lastLog /\ t = now
  BY AlertAssumption DEF AlertInv, LogsTyped
<1>2. /\ l < MaxLogs /\ lag <= t /\ (loud => tally.raised < MaxRaised)
      /\ lastLog' = l + 1 /\ logs' = logs \cup {[id |-> l + 1, ts |-> t - lag, size |-> size]}
      /\ (IF loud THEN W!AlertAdmins ELSE UNCHANGED <<state, flying, tally>>)
      /\ now' = now /\ caps' = caps /\ window' = window
  BY <1>1 DEF W!HandleLog, W!settings, W!alerts
<1>3. PICK r : r = [id |-> l + 1, ts |-> t - lag, size |-> size]
  OBVIOUS
<1>4. r \in [id : 1..(l + 1), ts : 0..t, size : 1..MaxLogSize] /\ r.id = l + 1
  <2>1. l + 1 \in 1..(l + 1) /\ t - lag \in 0..t
    BY <1>2
  <2> QED  BY <1>3, <2>1
<1>5. /\ logs \subseteq [id : 1..l, ts : 0..t, size : 1..MaxLogSize] /\ IsFiniteSet(logs)
      /\ \A x, q \in logs : x.id = q.id => x = q
  BY <1>1 DEF AlertInv, LogsTyped
<1>6. LogsTyped'
  <2>1. 1..l \subseteq 1..(l + 1) /\ l + 1 \notin 1..l /\ l + 1 \in 0..MaxLogs
    BY <1>2, AlertAssumption
  <2>2. logs' = logs \cup {r}
    BY <1>2, <1>3
  <2>3. logs' \subseteq [id : 1..(l + 1), ts : 0..t, size : 1..MaxLogSize]
    BY <1>4, <1>5, <2>1, <2>2
  <2>4. \A x \in logs : x.id # l + 1
    BY <1>5, <2>1
  <2>5. \A x, q \in logs' : x.id = q.id => x = q
    BY <1>4, <1>5, <2>2, <2>4
  <2>6. IsFiniteSet(logs')
    BY <1>5, <2>2, FS_AddElement
  <2>7. now' \in 0..MaxAlertTime /\ window' \in Windows /\ caps' \in LogCaps
    BY <1>2 DEF AlertInv, LogsTyped
  <2> QED  BY <1>1, <1>2, <2>1, <2>3, <2>5, <2>6, <2>7 DEF LogsTyped
<1>7. AlertsTyped' /\ W!AlertsAccounted'
  <2>1. CASE loud
    BY <1>2, <2>1, AlertRaises DEF AlertInv
  <2>2. CASE ~loud
    <3>1. now' \in Nat /\ now \in Nat /\ now' >= now
      BY <1>1, <1>2
    <3> QED  BY <1>2, <2>2, <3>1, AlertsStay DEF AlertInv
  <2> QED  BY <2>1, <2>2
<1> QED  BY <1>2, <1>6, <1>7 DEF AlertInv

\* A rotation keeps rows that are there.
LEMMA PruneRemoves ==
    ASSUME LogsTyped, NEW c \in LogCaps
    PROVE  W!PruneLogs(c) \subseteq logs
<1>1. logs \in SUBSET LogRows /\ IsFiniteSet(logs)
  BY RowsAreRows
<1>2. PICK young : young = {r \in logs : c.days > 0 => r.ts + c.days >= now}
  OBVIOUS
<1>3. W!PruneLogs(c) \subseteq young
  BY <1>1, <1>2, PruneKeeps
<1> QED  BY <1>2, <1>3

\* The other steps.
LEMMA AlertStep == AlertInv /\ W!Next => AlertInv'
<1> SUFFICES ASSUME AlertInv, W!Next
             PROVE  AlertInv'
  OBVIOUS
<1>t. now \in Nat /\ now >= now /\ now \in 0..MaxAlertTime
  BY AlertAssumption DEF AlertInv
<1>1. ASSUME NEW lag \in 0..1, NEW size \in 1..MaxLogSize, NEW loud \in BOOLEAN, W!HandleLog(lag, size, loud)
      PROVE  AlertInv'
  BY <1>1, LogRowAdded
<1>2. CASE W!AlertRaised
  <2>1. now' = now /\ logs' = logs /\ lastLog' = lastLog /\ caps' = caps /\ window' = window
        /\ tally.raised < MaxRaised /\ W!AlertAdmins
    BY <1>2 DEF W!AlertRaised, W!table, W!settings
  <2>2. LogsTyped'
    BY <2>1, <1>t, RowsStay DEF AlertInv, LogsTyped
  <2> QED  BY <2>1, <2>2, AlertRaises DEF AlertInv
<1>3. ASSUME NEW m \in flying, NEW ok \in BOOLEAN, W!MailEnds(m, ok)  PROVE AlertInv'
  <2>1. now' = now /\ logs' = logs /\ lastLog' = lastLog /\ caps' = caps /\ window' = window
    BY <1>3 DEF W!MailEnds, W!table, W!settings
  <2>2. LogsTyped'
    BY <2>1, <1>t, RowsStay DEF AlertInv, LogsTyped
  <2> QED  BY <1>3, <2>1, <2>2, AlertMailEnds DEF AlertInv
<1>4. CASE W!PruneOldData \/ W!ClearLogs
  <2>1. /\ now' = now /\ lastLog' = lastLog /\ caps' = caps /\ window' = window
        /\ UNCHANGED <<state, flying, tally>>
    BY <1>4 DEF W!PruneOldData, W!ClearLogs, W!settings, W!alerts
  <2>2. logs' \subseteq logs
    BY <1>4, PruneRemoves DEF W!PruneOldData, W!ClearLogs, AlertInv, LogsTyped
  <2>3. LogsTyped'
    BY <2>1, <2>2, <1>t, RowsStay DEF AlertInv, LogsTyped
  <2> QED  BY <1>t, <2>1, <2>3, AlertsStay DEF AlertInv
<1>5. ASSUME NEW on \in BOOLEAN, NEW w \in Windows, NEW c \in LogCaps, W!SaveAlertSettings(on, w, c)
      PROVE  AlertInv'
  <2>1. /\ now' = now /\ lastLog' = lastLog /\ caps' = c /\ window' = w /\ logs' = W!PruneLogs(c)
        /\ UNCHANGED <<state, flying, tally>>
    BY <1>5 DEF W!SaveAlertSettings, W!alerts
  <2>2. logs' \subseteq logs
    BY <2>1, PruneRemoves DEF AlertInv
  <2>3. LogsTyped'
    BY <2>1, <2>2, <1>t, RowsStay DEF AlertInv
  <2> QED  BY <1>t, <2>1, <2>3, AlertsStay DEF AlertInv
<1>6. CASE W!AdminRegisters
  <2>1. /\ now' = now /\ logs' = logs /\ lastLog' = lastLog /\ caps' = caps /\ window' = window
        /\ UNCHANGED <<state, flying, tally>>
    BY <1>6 DEF W!AdminRegisters, W!table, W!alerts
  <2>2. LogsTyped'
    BY <2>1, <1>t, RowsStay DEF AlertInv, LogsTyped
  <2> QED  BY <1>t, <2>1, <2>2, AlertsStay DEF AlertInv
<1>7. CASE W!Restart
  <2>1. now' = now /\ logs' = logs /\ lastLog' = lastLog /\ caps' = caps /\ window' = window
    BY <1>7 DEF W!Restart, W!table, W!settings
  <2>2. LogsTyped'
    BY <2>1, <1>t, RowsStay DEF AlertInv, LogsTyped
  <2> QED  BY <1>7, <2>1, <2>2, AlertsForgotten DEF AlertInv
<1>8. CASE W!Pass
  <2>1. /\ now < MaxAlertTime /\ now' = now + 1 /\ logs' = logs /\ lastLog' = lastLog /\ caps' = caps /\ window' = window
        /\ UNCHANGED <<state, flying, tally>>
    BY <1>8 DEF W!Pass, W!table, W!settings, W!alerts
  <2>2. now' \in 0..MaxAlertTime /\ now' \in Nat /\ now' >= now
    BY <1>t, <2>1, AlertAssumption
  <2>3. LogsTyped'
    BY <2>1, <2>2, RowsStay DEF AlertInv, LogsTyped
  <2> QED  BY <1>t, <2>1, <2>2, <2>3, AlertsStay DEF AlertInv
<1> QED  BY <1>1, <1>2, <1>3, <1>4, <1>5, <1>6, <1>7, <1>8 DEF W!Next

\* A rotation is one that keeps the newest rows, and nothing else removes any.
LEMMA AlertRotates == AlertInv /\ W!Next => W!Rotation
<1> SUFFICES ASSUME AlertInv, W!Next
             PROVE  W!Rotation
  OBVIOUS
<1>1. logs \in SUBSET LogRows /\ IsFiniteSet(logs) /\ caps \in LogCaps
  BY RowsAreRows DEF AlertInv, LogsTyped
<1>2. W!Rotates => logs' = W!PruneLogs(caps') /\ caps' \in LogCaps
  <2>1. W!PruneOldData => logs' = W!PruneLogs(caps) /\ caps' = caps
    BY DEF W!PruneOldData, W!settings
  <2>2. \A on \in BOOLEAN, w \in Windows : W!SaveAlertSettings(on, w, caps') => logs' = W!PruneLogs(caps')
    BY DEF W!SaveAlertSettings
  <2>3. caps' \in LogCaps
    BY AlertStep DEF AlertInv, LogsTyped
  <2> QED  BY <1>1, <2>1, <2>2, <2>3 DEF W!Rotates
<1>3. ASSUME W!Rotates, NEW young, young = {r \in logs : caps'.days > 0 => r.ts + caps'.days >= now}
      PROVE  /\ W!Within(logs', caps') /\ logs' \subseteq young
             /\ \A r \in young \ logs' : (\A q \in logs' : r.id < q.id) /\ ~W!Within(W!Since(young, r), caps')
  <2>1. PICK c \in LogCaps : c = caps'
    BY <1>2, <1>3
  <2>2. PICK K : K = logs'
    OBVIOUS
  <2>3. K = W!PruneLogs(c) /\ young = {r \in logs : c.days > 0 => r.ts + c.days >= now}
    BY <1>2, <1>3, <2>1, <2>2
  <2>4. /\ W!Within(K, c) /\ K \subseteq young
        /\ \A r \in young \ K : (\A q \in K : r.id < q.id) /\ ~W!Within(W!Since(young, r), c)
    BY <1>1, <2>3, PruneKeeps
  <2> QED  BY <2>1, <2>2, <2>4, Zenon
<1>4. W!Rotates \/ W!ClearLogs \/ logs \subseteq logs'
  <2>1. \A lag \in 0..1, size \in 1..MaxLogSize, loud \in BOOLEAN :
           W!HandleLog(lag, size, loud) => logs \subseteq logs'
    BY LogRowAdded
  <2>2. W!AlertRaised \/ W!AdminRegisters \/ W!Restart \/ W!Pass => logs' = logs
    BY DEF W!AlertRaised, W!AdminRegisters, W!Restart, W!Pass, W!table
  <2>3. \A m \in flying, ok \in BOOLEAN : W!MailEnds(m, ok) => logs' = logs
    BY DEF W!MailEnds, W!table
  <2>4. \A on \in BOOLEAN, w \in Windows, c \in LogCaps : W!SaveAlertSettings(on, w, c) => c = caps'
    BY DEF W!SaveAlertSettings
  <2> QED  BY <2>1, <2>2, <2>3, <2>4 DEF W!Next, W!Rotates
<1> QED  BY <1>3, <1>4 DEF W!Rotation

\* Types and the account follow.
LEMMA AlertHolds == AlertInv => W!TypeOK /\ W!AlertsAccounted
<1> SUFFICES ASSUME AlertInv
             PROVE  W!TypeOK
  BY DEF AlertInv
<1>1. PICK a \in 0..MaxRaised, b \in Nat, c \in Nat, w \in Nat, f \in Nat :
         a = tally.raised /\ b = tally.told /\ c = tally.lost /\ w = W!Waiting /\ f = W!Reported(flying)
  BY AlertNumbers DEF AlertInv
<1>2. a = b + c + w + f
  BY <1>1 DEF AlertInv, W!AlertsAccounted
<1>3. w \in 0..MaxRaised
  BY <1>1, <1>2, AlertAssumption
<1>4. state = None \/ (state.last \in 0..now /\ state.suppressed \in 0..MaxRaised)
  BY <1>1, <1>3 DEF AlertInv, AlertsTyped, W!Waiting
<1> QED  BY <1>4 DEF AlertInv, LogsTyped, AlertsTyped, W!TypeOK

\* The property the run checks of alerts and logs: no occurrence is dropped silently,
\* whatever windows, settings, mails and restarts overlap, and a rotation leaves the
\* newest rows the caps allow, no fewer.
THEOREM AlertsAndLogs == Spec => LogsAndAlerts
<1> DEFINE I == part = "alerts" => AlertInv
<1>1. Init => I
  <2> SUFFICES ASSUME Init  PROVE AlertInv
    OBVIOUS
  <2>1. /\ now = 0 /\ logs = {} /\ lastLog = 0 /\ caps \in LogCaps /\ window \in Windows
        /\ state = None /\ flying = {} /\ tally = [raised |-> 0, told |-> 0, lost |-> 0]
    BY DEF Init, W!Init
  <2>2. LogsTyped /\ now \in 0..MaxAlertTime
    BY <2>1, FS_EmptySet, AlertAssumption DEF LogsTyped
  <2>3. AlertsTyped
    <3>1. tally \in [raised : 0..MaxRaised, told : Nat, lost : Nat]
      BY <2>1, AlertAssumption
    <3> QED  BY <2>1, <3>1, FS_EmptySet DEF AlertsTyped
  <2>4. W!AlertsAccounted
    BY <2>1, ReportedCounts DEF W!AlertsAccounted, W!Waiting
  <2> QED  BY <2>2, <2>3, <2>4 DEF AlertInv
<1>2. I /\ [Next]_vars => I' /\ [part = "alerts" => W!Rotation]_<<now, alertVars>>
  <2> SUFFICES ASSUME I, [Next]_vars
               PROVE  I' /\ [part = "alerts" => W!Rotation]_<<now, alertVars>>
    OBVIOUS
  <2>1. part' = part /\ (part = "alerts" => W!Next \/ UNCHANGED <<now, alertVars>>)
    BY DEF Next, vars
  <2>2. part = "alerts" /\ UNCHANGED <<now, alertVars>> => AlertInv'
    <3> SUFFICES ASSUME part = "alerts", UNCHANGED <<now, alertVars>>  PROVE AlertInv'
      OBVIOUS
    <3>1. UNCHANGED <<now, logs, lastLog, caps, window, state, flying, tally>>
      BY DEF alertVars
    <3>2. now \in 0..MaxAlertTime /\ now \in Nat /\ now >= now
      BY AlertAssumption DEF AlertInv
    <3>3. LogsTyped'
      BY <3>1, <3>2, RowsStay DEF AlertInv, LogsTyped
    <3> QED  BY <3>1, <3>2, <3>3, AlertsStay DEF AlertInv
  <2>3. part = "alerts" /\ W!Next => AlertInv' /\ W!Rotation
    BY AlertStep, AlertRotates
  <2> QED  BY <2>1, <2>2, <2>3
<1>3. I => (part = "alerts" => W!TypeOK /\ W!AlertsAccounted)
  BY AlertHolds
<1> QED  BY <1>1, <1>2, <1>3, PTL DEF Spec, LogsAndAlerts
=============================================================================
