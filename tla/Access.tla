------------------------------- MODULE Access -------------------------------
(***************************************************************************)
(* Admin accounts and sessions (auth.ts): signing up, signing in, the gate *)
(* in front of every action, logging out everywhere and disabling an       *)
(* admin.  Hashing and comparing passwords, and signing and verifying      *)
(* tokens, wait: other requests run in between.                            *)
(*                                                                         *)
(* A request the rate limiter turns away changes nothing here and is left  *)
(* out; the limiter itself is in RateLimit.                                *)
(***************************************************************************)
EXTENDS Naturals, FiniteSets, Sequences

CONSTANTS Browsers, Mails, None,
          MaxAdmins,    \* rows of admins
          MaxBumps      \* how often sessions are invalidated

VARIABLES
    admins,    \* admins, by id: e-mail, is_active, token_version
    cookie,    \* the session each browser holds
    req,       \* the request each browser has in progress
    bumps,     \* history: logoutAllSessions calls, by admin id
    ran        \* history: the session on which an action just ran

vars == <<admins, cookie, req, bumps, ran>>

Ids   == DOMAIN admins
Idle  == [step |-> "idle", mail |-> None, id |-> 0, ver |-> 0, born |-> 0]
NoRun == [id |-> 0, ver |-> 0, born |-> 0]

Sessions == [id : 1..MaxAdmins, ver : 0..MaxBumps, born : 0..MaxBumps]

Init ==
    /\ admins = <<>>
    /\ cookie = [b \in Browsers |-> None]
    /\ req = [b \in Browsers |-> Idle]
    /\ bumps = <<>>
    /\ ran = NoRun

Row(mail) == {i \in Ids : admins[i].mail = mail}
-----------------------------------------------------------------------------
(* createAdmin and the signup form.                                        *)

\* The right token, a long enough password, and no admin with that e-mail yet.
SignupBegin(b, mail) ==
    /\ req[b] = Idle /\ Row(mail) = {} /\ Len(admins) < MaxAdmins
    /\ req' = [req EXCEPT ![b] = [Idle EXCEPT !.step = "hash", !.mail = mail]]
    /\ ran' = NoRun
    /\ UNCHANGED <<admins, cookie, bumps>>

\* Wrong variant: the check before the hash is taken to be enough.
SignupInsertAnyway(b) ==
    /\ req[b].step = "hash" /\ Len(admins) < MaxAdmins
    /\ admins' = Append(admins, [mail |-> req[b].mail, active |-> TRUE, ver |-> 0])
    /\ bumps' = Append(bumps, 0)
    /\ req' = [req EXCEPT ![b].step = "issue", ![b].id = Len(admins) + 1]
    /\ ran' = NoRun
    /\ UNCHANGED cookie

\* The INSERT after the hash: admins.email is UNIQUE, and the loser gets an error.
SignupInsert(b) ==
    /\ req[b].step = "hash"
    /\ \/ /\ Row(req[b].mail) = {} /\ Len(admins) < MaxAdmins
          /\ admins' = Append(admins, [mail |-> req[b].mail, active |-> TRUE, ver |-> 0])
          /\ bumps' = Append(bumps, 0)
          /\ req' = [req EXCEPT ![b].step = "issue", ![b].id = Len(admins) + 1]
       \/ /\ Row(req[b].mail) # {}
          /\ req' = [req EXCEPT ![b] = Idle]
          /\ UNCHANGED <<admins, bumps>>
    /\ ran' = NoRun
    /\ UNCHANGED cookie
-----------------------------------------------------------------------------
(* verifyLogin and the login form.                                         *)

\* The row is read, then compared: the rest of the login uses this row.
LoginBegin(b, mail) ==
    /\ req[b] = Idle
    /\ \E i \in Row(mail) : admins[i].active /\
          req' = [req EXCEPT ![b] = [Idle EXCEPT !.step = "compare", !.mail = mail, !.id = i,
                                                 !.ver = admins[i].ver]]
    /\ ran' = NoRun
    /\ UNCHANGED <<admins, cookie, bumps>>

LoginCompare(b, ok) ==
    /\ req[b].step = "compare"
    /\ req' = [req EXCEPT ![b] = IF ok THEN [@ EXCEPT !.step = "issue"] ELSE Idle]
    /\ ran' = NoRun
    /\ UNCHANGED <<admins, cookie, bumps>>

TokenVersion(i) == IF i \in Ids THEN admins[i].ver ELSE 0

\* Wrong variant: the version of the row that was read before the comparison.
IssueStale(b) ==
    /\ req[b].step = "issue"
    /\ req' = [req EXCEPT ![b].step = "sign", ![b].born = bumps[req[b].id]]
    /\ ran' = NoRun
    /\ UNCHANGED <<admins, cookie, bumps>>

\* issueSession reads token_version, then signs; setSessionCookie follows.
IssueSession(b) ==
    /\ req[b].step = "issue"
    /\ req' = [req EXCEPT ![b].step = "sign", ![b].ver = TokenVersion(req[b].id),
                          ![b].born = bumps[req[b].id]]
    /\ ran' = NoRun
    /\ UNCHANGED <<admins, cookie, bumps>>

SetSessionCookie(b) ==
    /\ req[b].step = "sign"
    /\ cookie' = [cookie EXCEPT ![b] = [id |-> req[b].id, ver |-> req[b].ver, born |-> req[b].born]]
    /\ req' = [req EXCEPT ![b] = Idle]
    /\ ran' = NoRun
    /\ UNCHANGED <<admins, bumps>>

\* logout, or 24 hours
LosesCookie(b) ==
    /\ req[b] = Idle /\ cookie[b] # None
    /\ cookie' = [cookie EXCEPT ![b] = None]
    /\ ran' = NoRun
    /\ UNCHANGED <<admins, req, bumps>>
-----------------------------------------------------------------------------
(* The proxy and currentAdmin verify the token; requireAdmin compares it   *)
(* with the row, after that wait, and the action's body follows.           *)

\* proxy.ts: a request without a session does not get to an action.
ProxyPasses(b) == cookie[b] # None

CurrentAdmin(b) ==
    /\ req[b] = Idle /\ ProxyPasses(b)
    /\ req' = [req EXCEPT ![b] = [Idle EXCEPT !.step = "gate", !.id = cookie[b].id,
                                              !.ver = cookie[b].ver, !.born = cookie[b].born]]
    /\ ran' = NoRun
    /\ UNCHANGED <<admins, cookie, bumps>>

\* Wrong variant: the version is left to the token.
GateOpenActive(r) == admins[r.id].active

GateOpen(r) == admins[r.id].active /\ admins[r.id].ver = r.ver

\* requireAdmin: a refused session is dropped.
RequireAdmin(b) ==
    /\ req[b].step = "gate"
    /\ IF GateOpen(req[b])
       THEN ran' = [id |-> req[b].id, ver |-> req[b].ver, born |-> req[b].born] /\ UNCHANGED cookie
       ELSE ran' = NoRun /\ cookie' = [cookie EXCEPT ![b] = None]
    /\ req' = [req EXCEPT ![b] = Idle]
    /\ UNCHANGED <<admins, bumps>>

\* requireAdminPage shows a page or redirects, and changes nothing.
RequireAdminPage(b) ==
    /\ req[b].step = "gate"
    /\ req' = [req EXCEPT ![b] = Idle]
    /\ ran' = NoRun
    /\ UNCHANGED <<admins, cookie, bumps>>
-----------------------------------------------------------------------------
LogoutAllSessions(i) ==
    /\ bumps[i] < MaxBumps
    /\ admins' = [admins EXCEPT ![i].ver = @ + 1]
    /\ bumps' = [bumps EXCEPT ![i] = @ + 1]
    /\ ran' = NoRun
    /\ UNCHANGED <<cookie, req>>

SetAdminActive(i, active) ==
    /\ admins[i].active # active
    /\ admins' = [admins EXCEPT ![i].active = active]
    /\ ran' = NoRun
    /\ UNCHANGED <<cookie, req, bumps>>

\* A restart ends the requests in progress; rows and cookies stay.
Restart ==
    /\ req' = [b \in Browsers |-> Idle]
    /\ ran' = NoRun
    /\ UNCHANGED <<admins, cookie, bumps>>

Next ==
    \/ \E b \in Browsers :
          \/ \E m \in Mails : SignupBegin(b, m) \/ LoginBegin(b, m)
          \/ SignupInsert(b) \/ \E ok \in BOOLEAN : LoginCompare(b, ok)
          \/ IssueSession(b) \/ SetSessionCookie(b) \/ LosesCookie(b)
          \/ CurrentAdmin(b) \/ RequireAdmin(b) \/ RequireAdminPage(b)
    \/ \E i \in Ids : LogoutAllSessions(i) \/ \E a \in BOOLEAN : SetAdminActive(i, a)
    \/ Restart

Spec == Init /\ [][Next]_vars
-----------------------------------------------------------------------------
\* Rows, cookies and requests have their types, and a session names a row: a
\* request never looks an admin up who is not there.
TypeOK ==
    /\ admins \in Seq([mail : Mails, active : BOOLEAN, ver : 0..MaxBumps])
    /\ bumps \in Seq(0..MaxBumps) /\ Len(bumps) = Len(admins)
    /\ cookie \in [Browsers -> Sessions \cup {None}]
    /\ ran = NoRun \/ ran \in Sessions
    /\ \A b \in Browsers :
          /\ cookie[b] # None => cookie[b].id \in Ids
          /\ req[b].step \in {"compare", "issue", "sign", "gate"} => req[b].id \in Ids

\* However signups of the same e-mail overlap while their passwords are hashed,
\* one admin comes of them.
MailsUnique == \A i, j \in Ids : admins[i].mail = admins[j].mail => i = j

\* After logoutAllSessions no action runs on a session that was issued before,
\* and none runs for a disabled admin, whatever was in progress then and however
\* often the admin was disabled and enabled since.
RevokedStaysOut ==
    [][ran' # NoRun => admins[ran'.id].active /\ ran'.born = bumps[ran'.id]]_vars

\* A session opens the gate for as long as its admin is active and no
\* logoutAllSessions came after it was issued: nobody is thrown out for a
\* version that was stale when the session was made.
FreshSessionsWork ==
    \A b \in Browsers : cookie[b] # None =>
       (admins[cookie[b].id].active /\ cookie[b].born = bumps[cookie[b].id] => GateOpen(cookie[b]))
=============================================================================
