------------------------------ MODULE Accounts ------------------------------
(***************************************************************************)
(* The tables behind AuthService: users, user_sessions, user_devices and   *)
(* revoked_tokens, verification_codes with the email_outbox row made for   *)
(* each, and the HTTP requests that work on them.                          *)
(*                                                                         *)
(* A user is identified with the e-mail address (unique).  A session is    *)
(* identified with the request that created it, a token pair with the      *)
(* request that signed it, a code and its mail with the request that asked *)
(* for them.  An absent row has status or type "NONE".                     *)
(***************************************************************************)
EXTENDS Integers, FiniteSets

CONSTANTS
    Users,         \* e-mail addresses
    InitialUsers,  \* addresses that are registered, unverified, from the start
    Fingerprints,  \* device fingerprints a client may send
    Calls,         \* HTTP requests
    Kinds,         \* endpoints they may call
    NULL,          \* no request: the code or token is null
    CodeTTL,       \* OTP_TIME_SECONDS, in clock units
    SessionTTL,    \* REFRESH_TOKEN_TIME, in clock units
    MaxClock,      \* bound on the clock
    MaxFaults      \* bound on the failed calls of one behaviour

VARIABLES
    users,         \* users
    sessions,      \* user_sessions, by the request that created them
    devices,       \* user_devices, by user and fingerprint
    revokedTokens, \* revoked_tokens: access tokens, by the request that signed them
    mails,         \* verification_codes with their email_outbox rows
    call,          \* the HTTP requests
    now,           \* the clock
    faults         \* how many calls have failed so far

userTables == <<users, sessions, devices, revokedTokens>>

accountVars == <<users, sessions, devices, revokedTokens, mails, call, now, faults>>

AllKinds ==
    {"register", "verify", "resend", "forgot", "validate", "reset", "change",
     "login", "refresh", "logout"}

ASSUME AccountConstants ==
    /\ InitialUsers \subseteq Users /\ Kinds \subseteq AllKinds
    /\ CodeTTL \in Nat /\ SessionTTL \in Nat
    /\ MaxClock \in Nat /\ MaxFaults \in Nat
    /\ NULL \notin Calls
    /\ IsFiniteSet(Calls) /\ IsFiniteSet(Fingerprints)

UserRow == [exists: BOOLEAN, verified: BOOLEAN, password: Calls \union {NULL}]

SessionRow ==
    [status: {"NONE", "ACTIVE", "EXPIRED", "REVOKED"}, user: Users \union {NULL},
     token: Calls \union {NULL}, expiresAt: Nat]

NoSession == [status |-> "NONE", user |-> NULL, token |-> NULL, expiresAt |-> 0]

DeviceRow == [status: {"none", "active", "revoked"}, lastSeenAt: Nat]

\* code_hash counts the tokens the worker has made for the code, 0: null.
MailRow ==
    [type: {"NONE", "REGISTER", "FORGOT_PASSWORD"}, user: Users \union {NULL},
     used: BOOLEAN, codeHash: Nat, expiresAt: Nat, createdAt: Nat,
     status: {"NONE", "PENDING", "SENDING", "SENT", "FAILED", "CANCELLED"}]

NoMail ==
    [type |-> "NONE", user |-> NULL, used |-> FALSE, codeHash |-> 0,
     expiresAt |-> 0, createdAt |-> 0, status |-> "NONE"]

Steps ==
    {"user", "session", "code", "outbox", "enqueue", "quota", "invalidate", "expire",
     "use", "verify", "password", "count", "oldest", "revoke", "device",
     "rotate", "expireSession", "logout"}

\* ref: the session or mail the request works on; token: the one it presents;
\* device, seen, oldest, at: what a login knows of devices, and since when;
\* todo: the calls of a Promise.all that are not back; overlapped (history):
\* another request of the same family for the same user was under way at the
\* same time.
Call ==
    [pc: {"idle", "done", "answered", "error"} \union Steps,
     kind: AllKinds \union {"none"}, user: Users \union {NULL},
     ref: Calls \union {NULL}, token: Calls \union {NULL}, device: Fingerprints \union {NULL},
     seen: {"none", "active", "revoked"}, oldest: Fingerprints \union {NULL},
     at: Nat, todo: SUBSET {"codes", "outbox", "token", "find", "session"},
     overlapped: BOOLEAN]

IdleCall ==
    [pc |-> "idle", kind |-> "none", user |-> NULL, ref |-> NULL,
     token |-> NULL, device |-> NULL, seen |-> "none", oldest |-> NULL, at |-> 0,
     todo |-> {}, overlapped |-> FALSE]

\* Answered without having changed anything worth remembering.
Answered == [IdleCall EXCEPT !.pc = "answered"]

Goto(c, pc) == call' = [call EXCEPT ![c].pc = pc]

At(c, kind, pc) == call[c].kind = kind /\ call[c].pc = pc

UnderWay(c) == call[c].pc \in Steps

\* Requests that could disturb each other: logins, and those that make codes to
\* verify an address.
Families == {{"login"}, {"register", "resend"}}

Peers(kind, u) ==
    {c \in Calls : /\ UnderWay(c) /\ call[c].user = u
                   /\ \E family \in Families : {kind, call[c].kind} \subseteq family}

\* A request of this kind has been received and has done its first read: r is
\* what it knows.
Receive(c, kind, r) ==
    /\ call[c].pc = "idle"
    /\ kind \in Kinds
    /\ LET peers == IF r = Answered THEN {} ELSE Peers(kind, r.user)
       IN  call' = [x \in Calls |->
               IF x # c THEN [call[x] EXCEPT !.overlapped = @ \/ x \in peers]
               ELSE IF r = Answered THEN r
               ELSE [r EXCEPT !.kind = kind, !.overlapped = (peers # {})]]

\* A call to MySQL, Redis or SMTP that throws, or a process that dies.
Fault == faults < MaxFaults /\ faults' = faults + 1

\* What a request awaits throws, or its process dies: nothing is undone, and the
\* other calls of a Promise.all (todo) run on, unless the process has died.
AbortCall(c) ==
    /\ UnderWay(c)
    /\ Fault
    /\ Goto(c, "error")
    /\ UNCHANGED <<userTables, mails, now>>

\* Mutant of the next one: the sign is wrong.
ExpiresBefore(ttl) == now - ttl

\* new Date(Date.now() + ...)
ExpiresAt(ttl) == now + ttl

\* UserSessionService.createSession
CreateSession(c, u) ==
    sessions' = [sessions EXCEPT ![c] =
        [status |-> "ACTIVE", user |-> u, token |-> c, expiresAt |-> ExpiresAt(SessionTTL)]]

\* Clients know the token pairs of their answered requests.
Tokens == {c \in Calls : call[c].pc = "done" /\ call[c].kind \in {"register", "login", "refresh"}}

Tick ==
    /\ now < MaxClock
    /\ now' = now + 1
    /\ UNCHANGED <<userTables, mails, call, faults>>

AccountsInit ==
    /\ users = [u \in Users |->
           [exists |-> u \in InitialUsers, verified |-> FALSE, password |-> NULL]]
    /\ sessions = [c \in Calls |-> NoSession]
    /\ devices = [u \in Users |-> [f \in Fingerprints |->
           [status |-> "none", lastSeenAt |-> 0]]]
    /\ revokedTokens = {}
    /\ mails = [c \in Calls |-> NoMail]
    /\ call = [c \in Calls |-> IdleCall]
    /\ now = 0
    /\ faults = 0

AccountsTypeOK ==
    /\ users \in [Users -> UserRow]
    /\ sessions \in [Calls -> SessionRow]
    /\ devices \in [Users -> [Fingerprints -> DeviceRow]]
    /\ revokedTokens \in SUBSET Calls
    /\ mails \in [Calls -> MailRow]
    /\ call \in [Calls -> Call]
    /\ now \in Nat
    /\ faults \in Nat
=============================================================================
