---------------------------- MODULE Verification ----------------------------
(***************************************************************************)
(* Registration, e-mail verification and password reset, and the e-mail    *)
(* worker (EmailProcessor) that makes the tokens.  The HTTP request writes  *)
(* a verification code and an outbox row and queues a job; the worker puts  *)
(* the hash of a fresh token into the code and mails the token as a link.  *)
(***************************************************************************)
EXTENDS Accounts

CONSTANTS
    MaxPerDay,     \* RESEND_MAX_ATTEMPTS_PER_DAY
    BlockWindow,   \* RESEND_BLOCK_WINDOW_IN_MS, in clock units
    MaxAttempts,   \* attempts of an e-mail job
    MaxStalls      \* how often BullMQ re-runs a job whose worker died

VARIABLES
    job,           \* the e-mail job of each mail
    mailbox        \* the links that have been delivered

verificationVars == <<job, mailbox>>

ASSUME VerificationConstants ==
    /\ MaxPerDay \in Nat \ {0} /\ BlockWindow \in Nat
    /\ MaxAttempts \in Nat \ {0} /\ MaxStalls \in Nat

JobSteps == {"find", "hash", "sending", "send", "sent", "fail"}

Job ==
    [pc: {"none", "queued", "done", "failed"} \union JobSteps,
     attempts: Nat, stalls: Nat]

NoJob == [pc |-> "none", attempts |-> 0, stalls |-> 0]

\* A link names the code and which of its tokens it carries.
Link == [mail: Calls, token: Nat]

(* ------------------------- Writing a code and mail ---------------------- *)

MailType(kind) == IF kind = "forgot" THEN "FORGOT_PASSWORD" ELSE "REGISTER"

\* createRegisterVerification, createForgotPasswordVerification: two inserts.
InsertCode(c) ==
    /\ call[c].pc = "code"
    /\ mails' = [mails EXCEPT ![c] =
           [NoMail EXCEPT !.type = MailType(call[c].kind), !.user = call[c].user,
                          !.expiresAt = ExpiresAt(CodeTTL)]]
    /\ Goto(c, "outbox")
    /\ UNCHANGED <<userTables, now, faults, verificationVars>>

InsertOutbox(c) ==
    /\ call[c].pc = "outbox"
    /\ mails' = [mails EXCEPT ![c].status = "PENDING", ![c].createdAt = now]
    /\ Goto(c, "enqueue")
    /\ UNCHANGED <<userTables, now, faults, verificationVars>>

EnqueueMail(c) ==
    /\ call[c].pc = "enqueue"
    /\ job' = [job EXCEPT ![c].pc = "queued"]
    /\ Goto(c, "done")
    /\ UNCHANGED <<userTables, mails, now, faults, mailbox>>

(* ------------------------------- register ------------------------------- *)

StartRegister(c) ==
    /\ \E u \in Users :
          Receive(c, "register",
              IF users[u].exists THEN Answered
              ELSE [IdleCall EXCEPT !.user = u, !.pc = "user"])
    /\ UNCHANGED <<userTables, mails, now, faults, verificationVars>>

\* The address is unique: the loser of two concurrent registrations throws.
CreateUser(c) ==
    LET u == call[c].user IN
    /\ call[c].pc = "user"
    /\ IF users[u].exists
       THEN Goto(c, "error") /\ UNCHANGED users
       ELSE /\ users' = [users EXCEPT ![u] =
                   [exists |-> TRUE, verified |-> FALSE, password |-> c]]
            /\ Goto(c, "session")
    /\ UNCHANGED <<sessions, devices, revokedTokens, mails, now, faults, verificationVars>>

RegisterSession(c) ==
    /\ At(c, "register", "session")
    /\ CreateSession(c, call[c].user)
    /\ Goto(c, "code")
    /\ UNCHANGED <<users, devices, revokedTokens, mails, now, faults, verificationVars>>

(* ----------------------------- resendEmail ------------------------------ *)

RegisterMails(u) ==
    {m \in Calls : mails[m].type = "REGISTER" /\ mails[m].user = u /\ mails[m].status # "NONE"}

\* All mails of a behaviour are of one day.
QuotaUsedUp(u) ==
    /\ Cardinality(RegisterMails(u)) >= MaxPerDay
    /\ \E m \in RegisterMails(u) : mails[m].createdAt + BlockWindow > now

StartResend(c) ==
    /\ \E u \in Users :
          Receive(c, "resend",
              IF ~users[u].exists \/ users[u].verified THEN Answered
              ELSE [IdleCall EXCEPT !.user = u, !.pc = "quota"])
    /\ UNCHANGED <<userTables, mails, now, faults, verificationVars>>

\* countByEmailInDay and the latest mail of the day
CheckQuota(c) ==
    /\ call[c].pc = "quota"
    /\ \/ /\ QuotaUsedUp(call[c].user)
          /\ call' = [call EXCEPT ![c] = Answered]
       \/ /\ ~QuotaUsedUp(call[c].user)
          /\ call' = [call EXCEPT ![c].pc = "invalidate", ![c].todo = {"codes", "outbox"}]
    /\ UNCHANGED <<userTables, mails, now, faults, verificationVars>>

\* markAllRegisterUnusedByEmail
MarkAllRegisterUsed(u) ==
    mails' = [m \in Calls |->
        IF mails[m].type = "REGISTER" /\ mails[m].user = u
        THEN [mails[m] EXCEPT !.used = TRUE] ELSE mails[m]]

CancelInProgress(u) ==
    mails' = [m \in Calls |->
        IF m \in RegisterMails(u) /\ mails[m].status \in {"PENDING", "SENDING"}
        THEN [mails[m] EXCEPT !.status = "CANCELLED"] ELSE mails[m]]

\* The two updates of the Promise.all, in any order.
InvalidateCodes(c) ==
    /\ "codes" \in call[c].todo
    /\ MarkAllRegisterUsed(call[c].user)
    /\ call' = [call EXCEPT ![c].todo = @ \ {"codes"}]
    /\ UNCHANGED <<userTables, now, faults, verificationVars>>

CancelMails(c) ==
    /\ "outbox" \in call[c].todo
    /\ CancelInProgress(call[c].user)
    /\ call' = [call EXCEPT ![c].todo = @ \ {"outbox"}]
    /\ UNCHANGED <<userTables, now, faults, verificationVars>>

EndInvalidate(c) ==
    /\ call[c].pc = "invalidate" /\ call[c].todo = {}
    /\ Goto(c, "code")
    /\ UNCHANGED <<userTables, mails, now, faults, verificationVars>>

(* ---------------------------- forgotPassword ---------------------------- *)

StartForgot(c) ==
    /\ \E u \in Users :
          Receive(c, "forgot",
              IF ~users[u].exists THEN Answered
              ELSE [IdleCall EXCEPT !.user = u, !.pc = "code"])
    /\ UNCHANGED <<userTables, mails, now, faults, verificationVars>>

(* ------------------- verifyEmail, validate and resetPassword ------------ *)

\* An unused code of the type with the hash of the link's token.
Active(link, type) ==
    /\ mails[link.mail].type = type
    /\ mails[link.mail].codeHash = link.token
    /\ ~mails[link.mail].used

Expired(link) == mails[link.mail].expiresAt < now

\* What a request that presents a link does next; found: its code was found.
Open(c, link, kind, u, found, next) ==
    Receive(c, kind,
        IF ~found THEN Answered
        ELSE [IdleCall EXCEPT !.user = u, !.ref = link.mail,
                              !.pc = IF Expired(link) THEN "expire" ELSE next])

\* findActiveRegisterByCodeHash
ActiveRegister(link) == Active(link, "REGISTER")

StartVerify(c) ==
    /\ \E link \in mailbox :
          Open(c, link, "verify", mails[link.mail].user, ActiveRegister(link), "use")
    /\ UNCHANGED <<userTables, mails, now, faults, verificationVars>>

\* validateResetPasswordToken only tells, unless the code has expired.
StartValidate(c) ==
    /\ \E link \in mailbox :
          IF Active(link, "FORGOT_PASSWORD") /\ Expired(link)
          THEN Receive(c, "validate", [IdleCall EXCEPT
                   !.user = mails[link.mail].user, !.ref = link.mail, !.pc = "expire"])
          ELSE Receive(c, "validate", Answered)
    /\ UNCHANGED <<userTables, mails, now, faults, verificationVars>>

\* Mutant of the next one: the address of the request is not compared.
MatchesAnyone(link, u) == Active(link, "FORGOT_PASSWORD")

\* findActiveForgotByCodeHash with the address the request names
Matches(link, u) ==
    Active(link, "FORGOT_PASSWORD") /\ mails[link.mail].user = u

\* The user of the address is looked up after the code.
StartReset(c) ==
    /\ \E link \in mailbox, u \in Users :
          Open(c, link, "reset", u, Matches(link, u) /\ users[u].exists, "password")
    /\ UNCHANGED <<userTables, mails, now, faults, verificationVars>>

\* An expired code is marked as used.
ExpireCode(c) ==
    /\ call[c].pc = "expire"
    /\ mails' = [mails EXCEPT ![call[c].ref].used = TRUE]
    /\ call' = [call EXCEPT ![c] = Answered]
    /\ UNCHANGED <<userTables, now, faults, verificationVars>>

\* Mutant of the next one: resetPassword leaves the code as it is.
UseVerified(c) ==
    /\ call[c].pc = "use"
    /\ mails' = [mails EXCEPT ![call[c].ref].used = (call[c].kind = "verify")]
    /\ Goto(c, IF call[c].kind = "verify" THEN "verify" ELSE "done")
    /\ UNCHANGED <<userTables, now, faults, verificationVars>>

\* verifyEmail marks the code first, resetPassword last.
UseCode(c) ==
    /\ call[c].pc = "use"
    /\ mails' = [mails EXCEPT ![call[c].ref].used = TRUE]
    /\ Goto(c, IF call[c].kind = "verify" THEN "verify" ELSE "done")
    /\ UNCHANGED <<userTables, now, faults, verificationVars>>

MarkEmailVerified(c) ==
    /\ call[c].pc = "verify"
    /\ users' = [users EXCEPT ![mails[call[c].ref].user].verified = TRUE]
    /\ Goto(c, "done")
    /\ UNCHANGED <<sessions, devices, revokedTokens, mails, now, faults, verificationVars>>

UpdatePassword(c) ==
    /\ call[c].pc = "password"
    /\ users' = [users EXCEPT ![call[c].user].password = c]
    /\ Goto(c, IF call[c].kind = "reset" THEN "use" ELSE "done")
    /\ UNCHANGED <<sessions, devices, revokedTokens, mails, now, faults, verificationVars>>

(* ----------------------- EmailProcessor.process ------------------------- *)

RunningJobs == {m \in Calls : job[m].pc \in JobSteps}

JobGoto(m, pc) == job' = [job EXCEPT ![m].pc = pc]

SetStatus(m, status) == mails' = [mails EXCEPT ![m].status = status]

\* The worker takes one job at a time.
StartMailJob(m) ==
    /\ job[m].pc = "queued"
    /\ RunningJobs = {}
    /\ job' = [job EXCEPT ![m].pc = "find", ![m].attempts = @ + 1]
    /\ UNCHANGED <<userTables, mails, call, now, faults, mailbox>>

EndJob(m, pc) == job' = [job EXCEPT ![m] = [NoJob EXCEPT !.pc = pc]]

\* The job throws: BullMQ queues it again while it has attempts left.
RetryOrFail(m) ==
    IF job[m].attempts < MaxAttempts THEN JobGoto(m, "queued") ELSE EndJob(m, "failed")

\* Mutant of the next one: a row whose mail failed is taken again.
Unsent(m) == mails[m].status \in {"PENDING", "FAILED"}

\* findByIdEmailPending
Pending(m) == mails[m].status = "PENDING"

\* The read is outside the try block.
FindMail(m) ==
    /\ job[m].pc = "find"
    /\ \/ Pending(m) /\ JobGoto(m, "hash") /\ UNCHANGED faults
       \/ ~Pending(m) /\ EndJob(m, "done") /\ UNCHANGED faults
       \/ Fault /\ RetryOrFail(m)
    /\ UNCHANGED <<userTables, mails, call, now, mailbox>>

UpdateCodeHash(m) ==
    /\ job[m].pc = "hash"
    /\ \/ /\ mails' = [mails EXCEPT ![m].codeHash = @ + 1]
          /\ JobGoto(m, "sending")
          /\ UNCHANGED faults
       \/ Fault /\ JobGoto(m, "fail") /\ UNCHANGED mails
    /\ UNCHANGED <<userTables, call, now, mailbox>>

MarkSending(m) ==
    /\ job[m].pc = "sending"
    /\ \/ SetStatus(m, "SENDING") /\ JobGoto(m, "send") /\ UNCHANGED faults
       \/ Fault /\ JobGoto(m, "fail") /\ UNCHANGED mails
    /\ UNCHANGED <<userTables, call, now, mailbox>>

Deliver(m) == mailbox' = mailbox \union {[mail |-> m, token |-> mails[m].codeHash]}

\* SMTP may fail before the mail is out or after.
SendMail(m) ==
    /\ job[m].pc = "send"
    /\ \/ Deliver(m) /\ JobGoto(m, "sent") /\ UNCHANGED faults
       \/ Fault /\ JobGoto(m, "fail") /\ UNCHANGED mailbox
       \/ Fault /\ JobGoto(m, "fail") /\ Deliver(m)
    /\ UNCHANGED <<userTables, mails, call, now>>

MarkSent(m) ==
    /\ job[m].pc = "sent"
    /\ \/ SetStatus(m, "SENT") /\ EndJob(m, "done") /\ UNCHANGED faults
       \/ Fault /\ JobGoto(m, "fail") /\ UNCHANGED mails
    /\ UNCHANGED <<userTables, call, now, mailbox>>

\* Mutant of the next one: catch swallows the error.
SwallowFailure(m) ==
    /\ job[m].pc = "fail"
    /\ EndJob(m, "done")
    /\ UNCHANGED <<userTables, mails, call, now, faults, mailbox>>

\* catch: the row fails, and then the job.
MarkFailed(m) ==
    /\ job[m].pc = "fail"
    /\ \/ SetStatus(m, "FAILED") /\ UNCHANGED faults
       \/ Fault /\ UNCHANGED mails
    /\ RetryOrFail(m)
    /\ UNCHANGED <<userTables, call, now, mailbox>>

\* The worker dies and BullMQ finds the job stalled.
StallMailJob(m) ==
    /\ job[m].pc \in JobSteps
    /\ Fault
    /\ IF job[m].stalls < MaxStalls
       THEN job' = [job EXCEPT ![m].pc = "queued", ![m].stalls = @ + 1]
       ELSE EndJob(m, "failed")
    /\ UNCHANGED <<userTables, mails, call, now, mailbox>>

VerificationInit ==
    /\ job = [m \in Calls |-> NoJob]
    /\ mailbox = {}

VerificationStep(c) ==
    \/ StartRegister(c) \/ CreateUser(c) \/ RegisterSession(c)
    \/ StartResend(c) \/ CheckQuota(c)
    \/ InvalidateCodes(c) \/ CancelMails(c) \/ EndInvalidate(c)
    \/ StartForgot(c) \/ InsertCode(c) \/ InsertOutbox(c) \/ EnqueueMail(c)
    \/ StartVerify(c) \/ StartValidate(c) \/ StartReset(c)
    \/ ExpireCode(c) \/ UseCode(c) \/ MarkEmailVerified(c) \/ UpdatePassword(c)

MailJobStep(m) ==
    \/ StartMailJob(m) \/ FindMail(m) \/ UpdateCodeHash(m) \/ MarkSending(m)
    \/ SendMail(m) \/ MarkSent(m) \/ MarkFailed(m)

VerificationTypeOK ==
    /\ job \in [Calls -> Job]
    /\ mailbox \in SUBSET Link
=============================================================================
