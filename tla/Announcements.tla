---------------------------- MODULE Announcements ----------------------------
(***************************************************************************)
(* Announcements (announcements.ts): who is addressed is worked out at the *)
(* start, the mails go out side by side while everything else goes on, and *)
(* the row of the history is written when the last of them has ended.      *)
(*                                                                         *)
(* An address is a person and a spelling: a student's is stored in lower   *)
(* case; a PI's is stored as typed when the PI has no login name.  Texts   *)
(* and their placeholders are left out: a form with a blank one changes    *)
(* nothing.                                                                *)
(***************************************************************************)
EXTENDS Naturals, FiniteSets, FiniteSetsExt

CONSTANTS People, Admins,
          Spellings,      \* how a PI's address may be stored: "low", "typed"
          NoSend,
          MaxSends, MaxChanges   \* bounds: announcements; roster and server changes, restarts

VARIABLES
    students,   \* people on the students table with an address
    pis,        \* the PI addresses of the labs
    smtp,       \* isSmtpConfigured
    send,       \* the announcement each admin has in progress
    rows,       \* the announcements table
    serial, changes,
    got,        \* history: copies delivered, as announcement and recipient
    rowless     \* history: announcements cut off by a restart, or whose row was deleted

roster == <<students, pis, smtp>>
vars   == <<roster, send, rows, serial, changes, got, rowless>>

Low(who) == [who |-> who, as |-> "low"]
Addresses == [who : People, as : Spellings \cup {"low"}]
Audiences == {"students", "pis"}

Init ==
    /\ students = {} /\ pis = {} /\ smtp \in BOOLEAN
    /\ send = [a \in Admins |-> NoSend]
    /\ rows = {} /\ serial = 0 /\ changes = 0 /\ got = {} /\ rowless = {}
-----------------------------------------------------------------------------
\* One of each address; the audience it came by is kept to tell copies apart.
AudienceRecipients(a) ==
    IF a = "students" THEN {Low(who) : who \in students} ELSE pis

\* listAnnouncementPeople
AnnouncementPeople == AudienceRecipients("students") \cup AudienceRecipients("pis")

\* Wrong variant: each audience has its own copy.
RecipientsPerAudience(audiences, picked) ==
    UNION {{[to |-> r, via |-> a] : r \in AudienceRecipients(a)} : a \in audiences}
      \cup {[to |-> r, via |-> "picked"] : r \in picked}

\* The union of the audiences and of the people picked, by address.
Recipients(audiences, picked) ==
    {[to |-> r, via |-> "any"] : r \in picked \cup UNION {AudienceRecipients(a) : a \in audiences}}

\* sendAnnouncement up to its wait.  Someone picked who is not known any more ends it.
SendAnnouncement(admin, audiences, picked) ==
    LET to == Recipients(audiences, picked) IN
    /\ send[admin] = NoSend /\ serial < MaxSends
    /\ (audiences # {} \/ picked # {}) /\ picked \subseteq AnnouncementPeople
    /\ serial' = serial + 1
    /\ send' = [send EXCEPT ![admin] =
          [id |-> serial', to |-> to, todo |-> IF smtp THEN to ELSE {}, sent |-> 0, skipped |-> ~smtp]]
    /\ UNCHANGED <<roster, rows, changes, got, rowless>>

\* Wrong variant: a mail counts as sent once it was tried.
CountMailTried(s, ok) == s.sent + 1

CountMail(s, ok) == s.sent + IF ok THEN 1 ELSE 0

MailEnds(admin, r, ok) ==
    /\ send[admin] # NoSend /\ r \in send[admin].todo
    /\ send' = [send EXCEPT ![admin].todo = @ \ {r}, ![admin].sent = CountMail(send[admin], ok)]
    /\ got' = IF ok THEN got \cup {[id |-> send[admin].id, to |-> r]} ELSE got
    /\ UNCHANGED <<roster, rows, serial, changes, rowless>>

\* The row, with the counts.
RecordAnnouncement(admin) ==
    LET s == send[admin] IN
    /\ s # NoSend /\ s.todo = {}
    /\ rows' = rows \cup {[id |-> s.id, recipients |-> Cardinality(s.to), sent |-> s.sent, skipped |-> s.skipped]}
    /\ send' = [send EXCEPT ![admin] = NoSend]
    /\ UNCHANGED <<roster, serial, changes, got, rowless>>

DeleteAnnouncement(row) ==
    /\ rows' = rows \ {row} /\ rowless' = rowless \cup {row.id}
    /\ UNCHANGED <<roster, send, serial, changes, got>>

ClearAnnouncements ==
    /\ rows # {} /\ rows' = {} /\ rowless' = rowless \cup {r.id : r \in rows}
    /\ UNCHANGED <<roster, send, serial, changes, got>>
-----------------------------------------------------------------------------
Enrols(who) ==
    /\ changes < MaxChanges /\ changes' = changes + 1
    /\ students' = (students \ {who}) \cup ({who} \ students)
    /\ UNCHANGED <<pis, smtp, send, rows, serial, got, rowless>>

\* A lab's PI is set or replaced (createLab, updateLabMeta, an import).
PiChanges(old, new) ==
    /\ changes < MaxChanges /\ changes' = changes + 1
    /\ pis' = (pis \ {old}) \cup {new} /\ pis' # pis
    /\ UNCHANGED <<students, smtp, send, rows, serial, got, rowless>>

SmtpChanges ==
    /\ changes < MaxChanges /\ changes' = changes + 1
    /\ smtp' = ~smtp
    /\ UNCHANGED <<students, pis, send, rows, serial, got, rowless>>

Restart ==
    /\ changes < MaxChanges /\ changes' = changes + 1
    /\ rowless' = rowless \cup {send[a].id : a \in {b \in Admins : send[b] # NoSend}}
    /\ send' = [a \in Admins |-> NoSend]
    /\ UNCHANGED <<roster, rows, serial, got>>

Next ==
    \/ \E a \in Admins :
          \/ \E au \in SUBSET Audiences, p \in SUBSET Addresses : SendAnnouncement(a, au, p)
          \/ send[a] # NoSend /\ \E r \in send[a].todo, ok \in BOOLEAN : MailEnds(a, r, ok)
          \/ RecordAnnouncement(a)
    \/ \E r \in rows : DeleteAnnouncement(r)
    \/ ClearAnnouncements
    \/ \E who \in People : Enrols(who)
    \/ \E old, new \in [who : People, as : Spellings] : PiChanges(old, new)
    \/ SmtpChanges \/ Restart

Spec == Init /\ [][Next]_vars
-----------------------------------------------------------------------------
TypeOK ==
    /\ students \subseteq People /\ pis \subseteq Addresses
    /\ \A r \in rows : r.sent <= r.recipients /\ r.id \in 1..serial
    /\ \A a \in Admins : send[a] # NoSend => send[a].todo \subseteq send[a].to

\* A person is mailed once per announcement, whatever audiences and picks cover
\* them and however the roster changes meanwhile.
OneCopyEach == \A g, h \in got : g.id = h.id /\ g.to.to.who = h.to.to.who => g = h

\* The history tells the truth: a row's count is the copies that were delivered,
\* and an announcement that delivered something has its row, had it deleted by an
\* admin, is still being sent, or was cut off by a restart.
HistoryTrue ==
    /\ \A r \in rows : r.sent = Cardinality({g \in got : g.id = r.id}) /\ (r.skipped => r.sent = 0)
    /\ \A r, q \in rows : r.id = q.id => r = q
    /\ \A a \in Admins : send[a] # NoSend =>
          /\ send[a].sent = Cardinality({g \in got : g.id = send[a].id})
          /\ \A b \in Admins \ {a} : send[b] # NoSend => send[a].id # send[b].id
    /\ \A g \in got : \/ g.id \in rowless \cup {r.id : r \in rows}
                       \/ \E a \in Admins : send[a] # NoSend /\ send[a].id = g.id
=============================================================================
