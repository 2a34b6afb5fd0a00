----------------------------- MODULE MailServers -----------------------------
(***************************************************************************)
(* The ranked list of SMTP servers (settings.ts), its passwords, encrypted *)
(* with a key made of SESSION_SECRET (secrets.ts), the forms that edit it, *)
(* and sendMail, which tries the servers in order (mailer.ts).             *)
(*                                                                         *)
(* A controller that was set up before the list existed has one server in  *)
(* the old single-server settings, which are read until the list is first  *)
(* written and are never written again.  The names that break ties between *)
(* ranks are ordered as the servers are; the text of a mail is left out.   *)
(***************************************************************************)
EXTENDS Naturals, FiniteSets, FiniteSetsExt

CONSTANTS MaxServer,      \* servers are 1..MaxServer, the old settings' one is 1
          Passwords, Keys, NoRow,
          MaxRank, MaxOps \* bounds: ranks an admin types, edits and restarts

VARIABLES
    row,       \* the smtpConfigs setting: what is stored for each server, or NoRow
    old,       \* smtpPass of the old settings as stored, or NoRow without a smtpHost
    key,       \* the key the process derived from SESSION_SECRET
    mail,      \* the mail being sent: the servers left to try, with their ranks, and what
               \* came of it
    given,     \* history: the password last typed for each server
    turned,    \* history: servers whose password was typed under another key
    dropped,   \* history: servers an admin deleted and did not save again
    took,      \* history: the servers that took the mail, and how many answers were lost
    ops

stored == <<row, old, key>>
typed  == <<given, turned, dropped>>
vars   == <<stored, mail, typed, took, ops>>

Servers == 1..MaxServer
Legacy  == 1
Plain   == "plaintext"
Unset   == ""
Blank   == [key |-> Plain, val |-> Unset]

NoServers == [s \in {} |-> 0]
NoMail == [step |-> "none", todo |-> NoServers, all |-> {}]
NoTook == [by |-> {}, lost |-> 0]

Init ==
    /\ row = NoRow /\ key \in Keys
    /\ given \in [Servers -> {Unset}] \cup {[s \in Servers |-> IF s = Legacy THEN p ELSE Unset] : p \in Passwords}
    /\ old \in {NoRow} \cup {[key |-> k, val |-> given[Legacy]] : k \in {key, Plain}}
    /\ (old = NoRow <=> given[Legacy] = Unset)
    /\ turned = {} /\ dropped = {}
    /\ mail = NoMail /\ took = NoTook /\ ops = 0
-----------------------------------------------------------------------------
\* A password that was never set is stored as it is.
EncryptSecret(plain) == IF plain = Unset THEN Blank ELSE [key |-> key, val |-> plain]

\* Plaintext from before encryption is read as it is, and what was encrypted with
\* another key as nothing.
DecryptSecret(s) == IF s.key \in {Plain, key} THEN s.val ELSE Unset

\* Every server, with its password decrypted.
GetSmtpConfigs ==
    IF row # NoRow THEN [s \in DOMAIN row |-> [row[s] EXCEPT !.pass = DecryptSecret(@)]]
    ELSE IF old # NoRow THEN [s \in {Legacy} |-> [rank |-> 1, pass |-> DecryptSecret(old), usable |-> TRUE]]
    ELSE [s \in {} |-> {}]

\* In failover order, by rank and then by name.
FailoverOrder(configs) ==
    [s \in {t \in DOMAIN configs : configs[t].usable} |-> configs[s].rank]

IsFirst(s, order) ==
    /\ s \in DOMAIN order
    /\ \A t \in DOMAIN order : order[s] < order[t] \/ (order[s] = order[t] /\ s <= t)

\* setSetting encrypts every password of the list anew.
SetSmtpConfigs(configs) ==
    row' = [s \in DOMAIN configs |-> [configs[s] EXCEPT !.pass = EncryptSecret(@)]]

\* Wrong variant: a field that was left blank is saved blank.
PassToSaveBlank(configs, s, pass) == pass

\* A blank field keeps the password.
PassToSave(configs, s, pass) ==
    IF pass # Unset THEN pass ELSE IF s \in DOMAIN configs THEN configs[s].pass ELSE Unset

\* A rank that is not given is the old one, or the last.
RankToSave(configs, s, rank) ==
    IF rank # 0 THEN rank
    ELSE IF s \in DOMAIN configs THEN configs[s].rank
    ELSE 1 + Max({0} \cup {configs[t].rank : t \in DOMAIN configs})

\* saveSmtpSettingsAction; a form without a host or a sender makes the server unusable.
SaveSmtpSettings(s, rank, pass, usable) ==
    LET configs == GetSmtpConfigs
        updated == [rank   |-> RankToSave(configs, s, rank),
                    pass   |-> PassToSave(configs, s, pass),
                    usable |-> usable] IN
    /\ ops < MaxOps
    /\ SetSmtpConfigs([t \in (DOMAIN configs) \cup {s} |-> IF t = s THEN updated ELSE configs[t]])
    /\ given' = [given EXCEPT ![s] = IF pass # Unset THEN pass ELSE IF s \in dropped THEN Unset ELSE @]
    /\ turned' = IF pass # Unset THEN turned \ {s} ELSE turned
    /\ dropped' = dropped \ {s}
    /\ ops' = ops + 1
    /\ UNCHANGED <<old, key, mail, took>>

\* Wrong variant: an empty list is not kept.
DeleteSmtpDropsRow(s) ==
    LET configs == GetSmtpConfigs IN
    /\ ops < MaxOps /\ s \in DOMAIN configs
    /\ IF DOMAIN configs = {s} THEN row' = NoRow
       ELSE SetSmtpConfigs([t \in (DOMAIN configs) \ {s} |-> configs[t]])
    /\ dropped' = dropped \cup {s} /\ ops' = ops + 1
    /\ UNCHANGED <<old, key, mail, given, turned, took>>

\* deleteSmtpSettingsAction.
DeleteSmtpSettings(s) ==
    LET configs == GetSmtpConfigs IN
    /\ ops < MaxOps /\ s \in DOMAIN configs
    /\ SetSmtpConfigs([t \in (DOMAIN configs) \ {s} |-> configs[t]])
    /\ dropped' = dropped \cup {s} /\ ops' = ops + 1
    /\ UNCHANGED <<old, key, mail, given, turned, took>>

\* The process is restarted, with the same SESSION_SECRET or another.
Restart(k) ==
    /\ ops < MaxOps /\ ops' = ops + 1
    /\ key' = k
    /\ turned' = IF k = key THEN turned ELSE Servers
    /\ mail' = NoMail /\ took' = NoTook
    /\ UNCHANGED <<row, old, given, dropped>>
-----------------------------------------------------------------------------
\* sendMail takes the list once; nothing configured is no error.
SendMail ==
    LET order == FailoverOrder(GetSmtpConfigs) IN
    /\ mail.step # "trying"
    /\ mail' = [step |-> IF DOMAIN order = {} THEN "skipped" ELSE "trying",
                todo |-> order, all |-> DOMAIN order]
    /\ took' = NoTook
    /\ UNCHANGED <<stored, typed, ops>>

Left(s) == [t \in (DOMAIN mail.todo) \ {s} |-> mail.todo[t]]

\* Wrong variant: the servers after one that took the mail are tried too.
AfterAnswerAll(s, answer) ==
    [mail EXCEPT !.todo = Left(s),
                 !.step = IF DOMAIN Left(s) # {} THEN @ ELSE IF answer = "taken" THEN "sent" ELSE "failed"]

\* The first that takes it ends the loop, an error goes on to the next.
AfterAnswer(s, answer) ==
    IF answer = "taken" THEN [mail EXCEPT !.step = "sent", !.todo = NoServers]
    ELSE [mail EXCEPT !.todo = Left(s), !.step = IF DOMAIN Left(s) # {} THEN @ ELSE "failed"]

\* The next server takes the mail, refuses it, or takes it and its answer is lost.
Attempt(s, answer) ==
    /\ mail.step = "trying" /\ IsFirst(s, mail.todo)
    /\ took' = [by   |-> IF answer = "refused" THEN took.by ELSE took.by \cup {s},
                lost |-> took.lost + IF answer = "lost" THEN 1 ELSE 0]
    /\ mail' = AfterAnswer(s, answer)
    /\ UNCHANGED <<stored, typed, ops>>

Next ==
    \/ \E s \in Servers, r \in 0..MaxRank, p \in Passwords \cup {Unset}, u \in BOOLEAN :
          SaveSmtpSettings(s, r, p, u)
    \/ \E s \in Servers : DeleteSmtpSettings(s)
    \/ \E k \in Keys : Restart(k)
    \/ SendMail
    \/ \E s \in Servers, a \in {"taken", "refused", "lost"} : Attempt(s, a)

Spec == Init /\ [][Next]_vars
-----------------------------------------------------------------------------
TypeOK ==
    /\ row = NoRow \/ (DOMAIN row \subseteq Servers /\
          \A s \in DOMAIN row : /\ row[s].rank \in Nat \ {0} /\ row[s].usable \in BOOLEAN
                                /\ row[s].pass.val \in Passwords \cup {Unset}
                                /\ row[s].pass.key \in Keys \cup {Plain})
    /\ mail.step \in {"none", "trying", "sent", "failed", "skipped"}
    /\ mail.step = "trying" <=> DOMAIN mail.todo # {}

\* Whatever else is edited, reordered or deleted meanwhile, a server signs in with
\* the password that was last typed for it, also one that came from the old
\* settings; once the key has changed it is that password or none, never another.
PasswordsKept ==
    \A s \in DOMAIN GetSmtpConfigs :
       LET pass == GetSmtpConfigs[s].pass IN
       pass = given[s] \/ (s \in turned /\ pass = Unset)

\* A server that was deleted is out of the failover order until an admin saves it
\* again: deleting the last one does not bring the old settings back.
DeletedStaysOut == dropped \cap DOMAIN GetSmtpConfigs = {}

\* A mail reported sent was taken by one server, and by no second one unless an
\* answer was lost; one reported failed or skipped reached nobody as far as the
\* servers answered.
MailAccounted ==
    /\ mail.step = "sent" => Cardinality(took.by) = 1 + took.lost
    /\ mail.step \in {"failed", "skipped"} => Cardinality(took.by) = took.lost
    /\ took.by \subseteq mail.all
=============================================================================
