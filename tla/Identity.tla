------------------------------ MODULE Identity ------------------------------
(***************************************************************************)
(* Accounts of the book store: every endpoint of AuthController and the    *)
(* e-mail worker over one database, interleaved at every awaited call.     *)
(***************************************************************************)
EXTENDS Sessions, Verification

identityVars == <<accountVars, verificationVars>>

Init == AccountsInit /\ VerificationInit

Next ==
    \/ \E c \in Calls :
          \/ SessionStep(c) /\ UNCHANGED verificationVars
          \/ VerificationStep(c)
          \/ AbortCall(c) /\ UNCHANGED verificationVars
    \/ \E m \in Calls : MailJobStep(m) \/ StallMailJob(m)
    \/ Tick /\ UNCHANGED verificationVars

Spec == Init /\ [][Next]_identityVars

\* BullMQ runs queued jobs as long as the worker is up.
FairSpec == Spec /\ \A m \in Calls : WF_identityVars(MailJobStep(m))

TypeOK == AccountsTypeOK /\ VerificationTypeOK

(* ------------------------------- Sessions ------------------------------- *)

\* Past the guard and about to write: a refresh that will revive the session.
Reviving(s) == \E c \in Calls : At(c, "refresh", "rotate") /\ call[c].ref = s

Dead(s) == sessions[s].status \in {"EXPIRED", "REVOKED"} /\ ~Reviving(s)

\* A session that was logged out or has expired is never used again, unless a
\* refresh had passed RefreshGuard before: rotateSession writes ACTIVE by id
\* without looking, so everything rests on the guard and on unique token hashes.
DeadStaysDead == [][\A s \in Calls : Dead(s) => Dead(s)']_identityVars

Overlapped(kinds, u) ==
    {c \in Calls : call[c].kind \in kinds /\ call[c].user = u /\ call[c].overlapped}

(* --------------------------- Codes and mails ---------------------------- *)

\* Every link that was delivered opens what its code row holds: no retry,
\* stalled job or cancelled mail replaces the hash of a link that is out.
LinksMatchCodes == \A link \in mailbox : mails[link.mail].codeHash = link.token

\* An address is verified only by someone who opened a registration link that
\* was sent to it.  A password is set by the registration of the user, by a
\* signed-in user, or by someone who opened a reset link that was sent to the
\* address of this user.
LinksOfOwner ==
    \A u \in Users :
        /\ users[u].verified =>
              \E c \in Calls, link \in mailbox :
                  /\ call[c].kind = "verify" /\ call[c].ref = link.mail
                  /\ mails[link.mail].type = "REGISTER" /\ mails[link.mail].user = u
        /\ LET c == users[u].password IN c # NULL =>
              /\ call[c].user = u
              /\ call[c].kind = "reset" =>
                    \E link \in mailbox :
                        /\ call[c].ref = link.mail
                        /\ mails[link.mail].type = "FORGOT_PASSWORD" /\ mails[link.mail].user = u

\* A link that has done its work is never accepted again, by neither endpoint:
\* resetPassword marks the code in a statement after the one that changes the
\* password, so only requests that began before it is marked get through.
SpentLinks ==
    [][\A c, d \in Calls :
          /\ call[c].pc = "idle" /\ call'[c].kind \in {"verify", "reset"}
          /\ call'[c].pc \in {"use", "password"}
          /\ call[d].pc = "done" /\ call[d].kind \in {"verify", "reset"}
          => call'[c].ref # call[d].ref]_identityVars

LiveCodes(u) == {m \in Calls : mails[m].type = "REGISTER" /\ mails[m].user = u /\ ~mails[m].used}

\* Apart from requests that ran at the same time, a user has MAX_DEVICES active
\* devices at most, an address has one registration code that can be used, however
\* often the mail is sent again, and within the block window no more mails go to it
\* than the quota.  In each case what is counted and what is written are different
\* statements, and two requests may count the same.
LimitsHold ==
    \A u \in Users :
        /\ Cardinality(ActiveDevices(u)) <= MaxDevices + Cardinality(Overlapped({"login"}, u))
        /\ Cardinality(LiveCodes(u)) <= 1 + Cardinality(Overlapped({"register", "resend"}, u))
        /\ Cardinality({m \in RegisterMails(u) : mails[m].createdAt + BlockWindow > now})
               <= MaxPerDay + Cardinality(Overlapped({"register", "resend"}, u))

\* A queued mail does not wait forever: it leaves PENDING, or its job fails for
\* good, although jobs wait for each other, are retried and lose their worker.
MailSettles ==
    \A m \in Calls :
        job[m].pc = "queued" ~> mails[m].status # "PENDING" \/ job[m].pc = "failed"
=============================================================================
