--------------------------- MODULE IdentityProofs ---------------------------
(***************************************************************************)
(* Accounts, sessions, codes and mails: types, what a link proves, what a   *)
(* dead session and a spent link stay, and by how much the limits on       *)
(* devices, codes and mails can be passed.                                 *)
(***************************************************************************)
EXTENDS Identity, SumFacts

(* ----------------------- Updating typed records ------------------------- *)

CallPcs == {"idle", "done", "answered", "error"} \union Steps

Todos == SUBSET {"codes", "outbox", "token", "find", "session"}

\* Empty rows and answered requests are typed.
LEMMA EmptyRows ==
    /\ IdleCall \in Call /\ Answered \in Call /\ NoSession \in SessionRow
    /\ NoMail \in MailRow /\ NoJob \in Job
    /\ Answered.pc = "answered" /\ Answered.kind = "none" /\ Answered.todo = {}
    /\ Answered.ref = NULL
BY DEF IdleCall, Answered, Call, NoSession, SessionRow, NoMail, MailRow, NoJob, Job

\* A request that moves on stays typed ...
LEMMA GotoTyped ==
    ASSUME call \in [Calls -> Call], NEW c \in Calls, NEW pc \in CallPcs, Goto(c, pc)
    PROVE  call' \in [Calls -> Call]
BY DEF Goto, Call, CallPcs

\* ... also when a call of its Promise.all is back ...
LEMMA TodoTyped ==
    ASSUME call \in [Calls -> Call], NEW c \in Calls, NEW t \in Todos, NEW s \in Calls \union {NULL},
           \/ call' = [call EXCEPT ![c].todo = t]
           \/ call' = [call EXCEPT ![c].todo = t, ![c].ref = s]
    PROVE  call' \in [Calls -> Call]
<1>1. call[c] \in Call
  OBVIOUS
<1>2. [call[c] EXCEPT !.todo = t] \in Call /\ [call[c] EXCEPT !.todo = t, !.ref = s] \in Call
  BY ZenonT(30), <1>1 DEF Call, Todos
<1> QED BY <1>2

\* ... and when it is answered.
LEMMA AnsweredTyped ==
    ASSUME call \in [Calls -> Call], NEW c \in Calls, call' = [call EXCEPT ![c] = Answered]
    PROVE  call' \in [Calls -> Call]
BY EmptyRows

\* The request as far as the invariants look at it.
Same(r, s) ==
    /\ s.pc = r.pc /\ s.kind = r.kind /\ s.user = r.user
    /\ s.ref = r.ref /\ s.token = r.token /\ s.todo = r.todo
    /\ s.device = r.device /\ s.seen = r.seen /\ s.oldest = r.oldest

\* Request c has just arrived: it and the requests under way that it could
\* disturb know of each other, and no other request forgets.
Meets(c) ==
    \A x \in Calls : x # c =>
        /\ call[x].overlapped => call'[x].overlapped
        /\ x \in Peers(call'[c].kind, call'[c].user) =>
              call'[x].overlapped /\ call'[c].overlapped

\* What the arrival of a request does to all requests.
LEMMA ReceiveFacts ==
    ASSUME call \in [Calls -> Call], NEW c \in Calls, NEW kind \in AllKinds, NEW r \in Call,
           Receive(c, kind, r)
    PROVE  /\ call' \in [Calls -> Call]
           /\ \A x \in Calls : x # c => Same(call[x], call'[x])
           /\ call[c].pc = "idle"
           /\ \/ r = Answered /\ call'[c] = Answered
              \/ /\ r # Answered
                 /\ call'[c].kind = kind /\ call'[c].pc = r.pc /\ call'[c].user = r.user
                 /\ call'[c].ref = r.ref /\ call'[c].token = r.token
                 /\ call'[c].todo = r.todo /\ call'[c].device = r.device
                 /\ call'[c].seen = r.seen /\ call'[c].oldest = r.oldest
           /\ Meets(c)
<1> DEFINE peers == IF r = Answered THEN {} ELSE Peers(kind, r.user)
           own == IF r = Answered THEN r ELSE [r EXCEPT !.kind = kind, !.overlapped = (peers # {})]
           other(x) == [call[x] EXCEPT !.overlapped = @ \/ x \in peers]
<1>1. call[c].pc = "idle"
  BY ZenonT(30) DEF Receive
<1>2. call' = [x \in Calls |-> IF x # c THEN other(x) ELSE own]
  BY Zenon DEF Receive
<1>3. own \in Call /\ (r # Answered => /\ own.kind = kind /\ own.pc = r.pc /\ own.user = r.user
                                       /\ own.ref = r.ref /\ own.token = r.token
                                       /\ own.todo = r.todo /\ own.device = r.device
                                       /\ own.seen = r.seen /\ own.oldest = r.oldest
                                       /\ own.overlapped = (peers # {}))
  <2> DEFINE b == (peers # {})
  <2>1. b \in BOOLEAN
    OBVIOUS
  <2> HIDE DEF b, peers
  <2>2. [r EXCEPT !.kind = kind, !.overlapped = b] \in Call
    BY <2>1 DEF Call
  <2>3. LET s == [r EXCEPT !.kind = kind, !.overlapped = b]
        IN  /\ s.kind = kind /\ s.pc = r.pc /\ s.user = r.user
            /\ s.ref = r.ref /\ s.token = r.token /\ s.todo = r.todo
            /\ s.device = r.device /\ s.seen = r.seen /\ s.oldest = r.oldest
            /\ s.overlapped = b
    BY <2>1 DEF Call
  <2> QED BY <2>2, <2>3 DEF b
<1>4. ASSUME NEW x \in Calls
      PROVE  /\ other(x) \in Call /\ Same(call[x], other(x))
             /\ call[x].overlapped \/ x \in peers => other(x).overlapped
  <2> DEFINE b == call[x].overlapped \/ x \in peers
  <2>1. b \in BOOLEAN /\ call[x] \in Call
    OBVIOUS
  <2> HIDE DEF b, peers
  <2>2. LET s == [call[x] EXCEPT !.overlapped = b] IN
          s \in Call /\ Same(call[x], s) /\ s.overlapped = b
    BY <2>1 DEF Call, Same
  <2> QED BY <2>2 DEF b
<1> HIDE DEF own, other
<1>5. call'[c] = own /\ \A x \in Calls : x # c => call'[x] = other(x)
  BY <1>2
<1>6. call' \in [Calls -> Call]
  BY <1>2, <1>3, <1>4
<1>7. Meets(c)
  <2>1. CASE r = Answered
    <3>1. Peers(Answered.kind, Answered.user) = {}
      BY EmptyRows DEF Peers, Families
    <3> QED BY <1>4, <1>5, <2>1, <3>1 DEF Meets, own
  <2>2. CASE r # Answered
    <3>1. call'[c].kind = kind /\ call'[c].user = r.user /\ call'[c].overlapped = (peers # {})
      BY <1>3, <1>5, <2>2
    <3>2. peers = Peers(kind, r.user)
      BY <2>2
    <3> HIDE DEF peers
    <3> QED BY <1>4, <1>5, <3>1, <3>2 DEF Meets
  <2> QED BY <2>1, <2>2
<1> QED BY <1>1, <1>3, <1>4, <1>5, <1>6, <1>7 DEF own

(* ----------------------- How a request can change ----------------------- *)

\* A link of this mail is out.
Out(m) == \E link \in mailbox : link.mail = m

\* The link the request has opened: a delivered one, of this type.
Opened(r, type) == r.ref \in Calls /\ Out(r.ref) /\ mails[r.ref].type = type

\* A request that has arrived and knows what it has read.
Started(s) ==
    \/ s.kind = "register" /\ s.pc = "user" /\ s.todo = {} /\ s.user \in Users
    \/ /\ s.kind = "resend" /\ s.pc = "quota" /\ s.todo = {}
       /\ s.user \in Users /\ users[s.user].exists
    \/ s.kind = "forgot" /\ s.pc = "code" /\ s.todo = {}
    \/ /\ s.kind = "verify" /\ s.pc \in {"use", "expire"} /\ s.todo = {}
       /\ Opened(s, "REGISTER") /\ ~mails[s.ref].used
    \/ s.kind = "validate" /\ s.pc = "expire" /\ s.todo = {}
    \/ /\ s.kind = "reset" /\ s.pc \in {"password", "expire"} /\ s.todo = {}
       /\ Opened(s, "FORGOT_PASSWORD") /\ ~mails[s.ref].used /\ mails[s.ref].user = s.user
    \/ /\ s.kind = "login" /\ s.pc \in {"device", "count"} /\ s.todo = {}
       /\ s.user \in Users /\ s.device \in Fingerprints
       /\ s.seen = devices[s.user][s.device].status
       /\ s.pc = "device" => s.seen = "active"
    \/ /\ s.kind = "refresh" /\ s.pc \in {"rotate", "expireSession"} /\ s.todo = {}
       /\ s.ref \in Calls /\ sessions[s.ref].status = "ACTIVE"
    \/ s.kind = "logout" /\ s.pc = "logout" /\ s.todo = {"token", "find"} /\ s.token \in Calls
    \/ s.kind = "change" /\ s.pc = "password" /\ s.todo = {}

\* One request arrives; to the others at most their overlap is new.
Arrives(c) ==
    /\ \A x \in Calls : x # c => Same(call[x], call'[x])
    /\ call[c].pc = "idle"
    /\ call'[c] = Answered \/ Started(call'[c])
    /\ Meets(c)

\* A request that presents a link.
LEMMA OpenFacts ==
    ASSUME TypeOK, NEW c \in Calls, NEW link \in mailbox, NEW kind \in {"verify", "reset"},
           NEW u \in Users \union {NULL}, NEW found \in BOOLEAN, NEW next \in {"use", "password"},
           Open(c, link, kind, u, found, next)
    PROVE  /\ call' \in [Calls -> Call]
           /\ \A x \in Calls : x # c => Same(call[x], call'[x])
           /\ call[c].pc = "idle"
           /\ \/ call'[c] = Answered
              \/ /\ found /\ call'[c].kind = kind /\ call'[c].user = u
                 /\ call'[c].ref = link.mail /\ link.mail \in Calls
                 /\ call'[c].pc \in {next, "expire"} /\ call'[c].todo = {}
           /\ Meets(c)
<1> DEFINE pc == IF Expired(link) THEN "expire" ELSE next
           r == IF ~found THEN Answered
                ELSE [IdleCall EXCEPT !.user = u, !.ref = link.mail, !.pc = pc]
<1>1. call \in [Calls -> Call] /\ link.mail \in Calls
  BY DEF TypeOK, AccountsTypeOK, VerificationTypeOK, Link
<1>2. pc \in CallPcs /\ pc \in {next, "expire"}
  BY DEF CallPcs, Steps
<1>3. Receive(c, kind, r) /\ kind \in AllKinds
  BY DEF Open, AllKinds
<1>4. r \in Call /\ (found => r.pc = pc /\ r.user = u /\ r.todo = {} /\ r.ref = link.mail)
  <2>1. PICK m \in Calls \union {NULL}, p \in CallPcs : m = link.mail /\ p = pc
    BY <1>1, <1>2
  <2> DEFINE q == [IdleCall EXCEPT !.user = u, !.ref = m, !.pc = p]
  <2>2. q \in Call /\ q.pc = p /\ q.user = u /\ q.todo = {} /\ q.ref = m
    BY DEF IdleCall, Call, CallPcs
  <2>3. r = IF ~found THEN Answered ELSE q
    BY <2>1
  <2> HIDE DEF q, r, pc
  <2> QED BY <2>1, <2>2, <2>3, EmptyRows
<1> HIDE DEF pc
<1> HIDE DEF r
<1>5. r = Answered \/ found
  BY DEF r
<1> QED BY <1>1, <1>2, <1>3, <1>4, <1>5, ReceiveFacts

\* Every endpoint starts in one of these ways.
LEMMA Starts ==
    ASSUME TypeOK, NEW c \in Calls,
           \/ StartRegister(c) \/ StartResend(c) \/ StartForgot(c) \/ StartVerify(c)
           \/ StartValidate(c) \/ StartReset(c) \/ StartLogin(c) \/ StartRefresh(c)
           \/ StartLogout(c) \/ StartChange(c)
    PROVE  call' \in [Calls -> Call] /\ Arrives(c)
<1>t. /\ call \in [Calls -> Call] /\ now \in Nat /\ devices \in [Users -> [Fingerprints -> DeviceRow]]
      /\ \A x \in Calls : call[x] \in Call
      /\ \A x \in Calls : call[x].user \in Users \union {NULL}
      /\ \A x \in Calls : mails[x] \in MailRow
      /\ \A x \in Calls : mails[x].user \in Users \union {NULL}
  BY DEF TypeOK, AccountsTypeOK, Call, MailRow
<1>l. \A link \in mailbox : link.mail \in Calls /\ Out(link.mail)
  BY DEF TypeOK, VerificationTypeOK, Link, Out
<1>p. /\ CallPcs \cap {"user", "quota", "code", "expire", "count", "device", "rotate",
                       "expireSession", "logout", "password"}
           = {"user", "quota", "code", "expire", "count", "device", "rotate",
              "expireSession", "logout", "password"}
      /\ {"token", "find"} \in Todos
      /\ {"register", "resend", "forgot", "validate", "login", "refresh", "logout", "change"}
            \subseteq AllKinds
  BY DEF CallPcs, Steps, Todos, AllKinds
<1>r. ASSUME NEW kind \in AllKinds, NEW r \in Call, Receive(c, kind, r),
             r = Answered \/ \A s \in Call :
                (/\ s.kind = kind /\ s.pc = r.pc /\ s.user = r.user
                 /\ s.ref = r.ref /\ s.token = r.token /\ s.todo = r.todo
                 /\ s.device = r.device /\ s.seen = r.seen) => Started(s)
      PROVE  call' \in [Calls -> Call] /\ Arrives(c)
  BY <1>r, <1>t, ReceiveFacts DEF Arrives
<1>a. \A kind \in AllKinds : Receive(c, kind, Answered) => call' \in [Calls -> Call] /\ Arrives(c)
  BY <1>r, EmptyRows
<1>1. CASE StartRegister(c)
  <2>1. PICK u \in Users : Receive(c, "register", IF users[u].exists THEN Answered
              ELSE [IdleCall EXCEPT !.user = u, !.pc = "user"])
    BY ZenonT(30), <1>1 DEF StartRegister
  <2> DEFINE r == [IdleCall EXCEPT !.user = u, !.pc = "user"]
  <2>2. r \in Call /\ r.pc = "user" /\ r.todo = {} /\ r.user = u
    BY DEF IdleCall, Call, Steps
  <2>3. Receive(c, "register", Answered) \/ Receive(c, "register", r)
    BY <2>1
  <2> HIDE DEF r
  <2> QED BY <1>p, <1>r, <1>a, <2>2, <2>3 DEF Started
<1>2. CASE StartResend(c)
  <2>1. PICK u \in Users : Receive(c, "resend",
              IF ~users[u].exists \/ users[u].verified THEN Answered
              ELSE [IdleCall EXCEPT !.user = u, !.pc = "quota"])
    BY ZenonT(30), <1>2 DEF StartResend
  <2> DEFINE r == [IdleCall EXCEPT !.user = u, !.pc = "quota"]
  <2>2. r \in Call /\ r.pc = "quota" /\ r.todo = {} /\ r.user = u
    BY DEF IdleCall, Call, Steps
  <2>3. \/ Receive(c, "resend", Answered)
        \/ Receive(c, "resend", r) /\ users[u].exists
    BY <2>1
  <2> HIDE DEF r
  <2> QED BY <1>p, <1>r, <1>a, <2>2, <2>3 DEF Started
<1>3. CASE StartForgot(c)
  <2>1. PICK u \in Users : Receive(c, "forgot",
              IF ~users[u].exists THEN Answered
              ELSE [IdleCall EXCEPT !.user = u, !.pc = "code"])
    BY ZenonT(30), <1>3 DEF StartForgot
  <2> DEFINE r == [IdleCall EXCEPT !.user = u, !.pc = "code"]
  <2>2. r \in Call /\ r.pc = "code" /\ r.todo = {}
    BY DEF IdleCall, Call, Steps
  <2>3. Receive(c, "forgot", Answered) \/ Receive(c, "forgot", r)
    BY <2>1
  <2> HIDE DEF r
  <2> QED BY <1>p, <1>r, <1>a, <2>2, <2>3 DEF Started
<1>4. CASE StartVerify(c)
  <2>1. PICK link \in mailbox :
          Open(c, link, "verify", mails[link.mail].user, ActiveRegister(link), "use")
    BY <1>4 DEF StartVerify
  <2>2. ActiveRegister(link) \in BOOLEAN
    BY DEF ActiveRegister, Active
  <2>3. ActiveRegister(link) => mails[link.mail].type = "REGISTER" /\ ~mails[link.mail].used
    BY DEF ActiveRegister, Active
  <2>4. /\ call' \in [Calls -> Call]
        /\ \A x \in Calls : x # c => Same(call[x], call'[x])
        /\ call[c].pc = "idle"
        /\ \/ call'[c] = Answered
           \/ /\ ActiveRegister(link) /\ call'[c].kind = "verify"
              /\ call'[c].ref = link.mail /\ link.mail \in Calls
              /\ call'[c].pc \in {"use", "expire"} /\ call'[c].todo = {}
        /\ Meets(c)
    <3>1. PICK u \in Users \union {NULL}, found \in BOOLEAN :
            u = mails[link.mail].user /\ found = ActiveRegister(link)
      BY <1>t, <1>l, <2>2
    <3>2. Open(c, link, "verify", u, found, "use")
      BY <2>1, <3>1
    <3> QED BY <3>1, <3>2, OpenFacts
  <2> QED BY <1>l, <2>3, <2>4 DEF Arrives, Started, Opened
<1>5. CASE StartValidate(c)
  <2>1. PICK link \in mailbox :
          \/ Receive(c, "validate", [IdleCall EXCEPT
                   !.user = mails[link.mail].user, !.ref = link.mail, !.pc = "expire"])
          \/ Receive(c, "validate", Answered)
    BY ZenonT(30), <1>5 DEF StartValidate
  <2> DEFINE r == [IdleCall EXCEPT !.user = mails[link.mail].user, !.ref = link.mail,
                                   !.pc = "expire"]
  <2>2. r \in Call /\ r.pc = "expire" /\ r.todo = {}
    <3>1. PICK u \in Users \union {NULL}, m \in Calls \union {NULL} :
            u = mails[link.mail].user /\ m = link.mail
      BY <1>t, <1>l
    <3>2. r = [IdleCall EXCEPT !.user = u, !.ref = m, !.pc = "expire"]
      BY <3>1
    <3> HIDE DEF r
    <3> QED BY <3>2 DEF IdleCall, Call, Steps
  <2>3. Receive(c, "validate", Answered) \/ Receive(c, "validate", r)
    BY <2>1
  <2> HIDE DEF r
  <2> QED BY <1>p, <1>r, <1>a, <2>2, <2>3 DEF Started
<1>6. CASE StartReset(c)
  <2>1. PICK link \in mailbox, u \in Users :
          Open(c, link, "reset", u, Matches(link, u) /\ users[u].exists, "password")
    BY <1>6 DEF StartReset
  <2> DEFINE found == Matches(link, u) /\ users[u].exists
  <2>2. found \in BOOLEAN
    OBVIOUS
  <2>3. found => /\ mails[link.mail].type = "FORGOT_PASSWORD" /\ ~mails[link.mail].used
                 /\ mails[link.mail].user = u
    BY DEF Matches, Active
  <2> HIDE DEF found
  <2>4. Open(c, link, "reset", u, found, "password")
    BY <2>1 DEF found
  <2> QED BY <1>t, <1>l, <2>4, <2>2, <2>3, OpenFacts DEF Arrives, Started, Opened
<1>7. CASE StartLogin(c)
  <2>1. PICK u \in Users, f \in Fingerprints :
          Receive(c, "login", [IdleCall EXCEPT
                     !.user = u, !.device = f, !.seen = devices[u][f].status, !.at = now,
                     !.pc = IF devices[u][f].status = "active" THEN "device" ELSE "count"])
    BY ZenonT(30), <1>7 DEF StartLogin
  <2> DEFINE seen == devices[u][f].status
             pc == IF seen = "active" THEN "device" ELSE "count"
             r == [IdleCall EXCEPT !.user = u, !.device = f, !.seen = seen, !.at = now,
                                   !.pc = pc]
  <2>2. seen \in {"none", "active", "revoked"} /\ pc \in {"device", "count"}
    BY <1>t DEF DeviceRow
  <2>3. Receive(c, "login", r)
    BY <2>1
  <2>4. r \in Call /\ r.pc = pc /\ r.todo = {} /\ r.user = u /\ r.device = f /\ r.seen = seen
    <3>1. PICK seen1 \in {"none", "active", "revoked"}, at1 \in Nat, pc1 \in CallPcs :
            seen1 = seen /\ at1 = now /\ pc1 = pc
      BY <1>t, <1>p, <2>2
    <3>2. r = [IdleCall EXCEPT !.user = u, !.device = f, !.seen = seen1, !.at = at1, !.pc = pc1]
      BY <3>1
    <3> HIDE DEF pc, seen
    <3> QED BY <3>1, <3>2 DEF IdleCall, Call, CallPcs
  <2>5. pc = "device" => seen = "active"
    OBVIOUS
  <2>6. seen = devices[u][f].status
    OBVIOUS
  <2> HIDE DEF seen, pc
  <2> HIDE DEF r
  <2> QED BY <1>p, <1>r, <2>2, <2>3, <2>4, <2>5, <2>6 DEF Started
<1>8. CASE StartRefresh(c)
  <2>1. CASE Receive(c, "refresh", Answered)
    BY <1>a, <1>p, <2>1
  <2>2. CASE ~Receive(c, "refresh", Answered)
    <3>1. PICK t \in Tokens : \E s \in SessionsOf(t) :
              /\ MayRefresh(s)
              /\ Receive(c, "refresh", [IdleCall EXCEPT !.user = call[t].user, !.ref = s,
                   !.pc = IF sessions[s].expiresAt < now THEN "expireSession" ELSE "rotate"])
      BY ZenonT(30), <1>8, <2>2 DEF StartRefresh
    <3>s. PICK s \in SessionsOf(t) :
              /\ MayRefresh(s)
              /\ Receive(c, "refresh", [IdleCall EXCEPT !.user = call[t].user, !.ref = s,
                   !.pc = IF sessions[s].expiresAt < now THEN "expireSession" ELSE "rotate"])
      BY ZenonT(30), <3>1
    <3> DEFINE pc == IF sessions[s].expiresAt < now THEN "expireSession" ELSE "rotate"
               r == [IdleCall EXCEPT !.user = call[t].user, !.ref = s, !.pc = pc]
    <3>2. pc \in {"expireSession", "rotate"} /\ s \in Calls /\ t \in Calls
             /\ sessions[s].status = "ACTIVE"
      BY <3>s DEF SessionsOf, Tokens, MayRefresh
    <3>3. Receive(c, "refresh", r)
      BY <3>s
    <3>4. r \in Call /\ r.pc = pc /\ r.todo = {} /\ r.ref = s
      <4>1. PICK u \in Users \union {NULL}, pc1 \in CallPcs : u = call[t].user /\ pc1 = pc
        BY <1>t, <1>p, <3>2
      <4>2. r = [IdleCall EXCEPT !.user = u, !.ref = s, !.pc = pc1]
        BY <4>1
      <4> HIDE DEF r, pc
      <4> QED BY <3>2, <4>1, <4>2 DEF IdleCall, Call, CallPcs
    <3> HIDE DEF pc
    <3> HIDE DEF r
    <3> QED BY <1>p, <1>r, <3>2, <3>3, <3>4 DEF Started
  <2> QED BY <2>1, <2>2
<1>9. CASE StartLogout(c)
  <2>1. PICK t \in Tokens : Receive(c, "logout", [IdleCall EXCEPT !.user = call[t].user,
              !.token = t, !.pc = "logout", !.todo = {"token", "find"}])
    BY ZenonT(30), <1>9 DEF StartLogout
  <2> DEFINE r == [IdleCall EXCEPT !.user = call[t].user, !.token = t, !.pc = "logout",
                                   !.todo = {"token", "find"}]
  <2>2. r \in Call /\ r.pc = "logout" /\ r.todo = {"token", "find"} /\ r.token \in Calls
    <3>1. PICK u \in Users \union {NULL}, todo \in Todos :
            u = call[t].user /\ todo = {"token", "find"} /\ t \in Calls
      BY <1>t, <1>p DEF Tokens
    <3>2. r = [IdleCall EXCEPT !.user = u, !.token = t, !.pc = "logout", !.todo = todo]
      BY <3>1
    <3> HIDE DEF r
    <3> QED BY <3>1, <3>2 DEF IdleCall, Call, Steps, Todos
  <2>3. Receive(c, "logout", r)
    BY <2>1
  <2> HIDE DEF r
  <2> QED BY <1>p, <1>r, <2>2, <2>3 DEF Started
<1>10. CASE StartChange(c)
  <2>1. PICK t \in Tokens :
          Receive(c, "change", [IdleCall EXCEPT !.user = call[t].user, !.pc = "password"])
    BY ZenonT(30), <1>10 DEF StartChange
  <2> DEFINE r == [IdleCall EXCEPT !.user = call[t].user, !.pc = "password"]
  <2>2. r \in Call /\ r.pc = "password" /\ r.todo = {}
    <3>1. PICK u \in Users \union {NULL} : u = call[t].user
      BY <1>t DEF Tokens
    <3>2. r = [IdleCall EXCEPT !.user = u, !.pc = "password"]
      BY <3>1
    <3> HIDE DEF r
    <3> QED BY <3>2 DEF IdleCall, Call, Steps
  <2>3. Receive(c, "change", r)
    BY <2>1
  <2> HIDE DEF r
  <2> QED BY <1>p, <1>r, <2>2, <2>3 DEF Started
<1> QED
  BY <1>1, <1>2, <1>3, <1>4, <1>5, <1>6, <1>7, <1>8, <1>9, <1>10

Keeps(r, s) ==
    /\ s.kind = r.kind /\ s.user = r.user /\ s.ref = r.ref /\ s.token = r.token
    /\ s.overlapped = r.overlapped

\* The steps that only lead on.
PcMoves ==
    ({"count"} \X {"oldest", "device"})
      \union ({"oldest"} \X {"device", "revoke"})
      \union ({"revoke"} \X {"device"})
      \union ({"device", "user"} \X {"session", "error"})
      \union ({"code"} \X {"outbox"})
      \union ({"outbox"} \X {"enqueue"})
      \union ({"enqueue", "verify"} \X {"done"})

\* Request r becomes s in one step of its own.
StepMove(r, s) ==
    \/ /\ Keeps(r, s) /\ s.todo = r.todo
       /\ \/ <<r.pc, s.pc>> \in PcMoves
          \/ r.pc = "invalidate" /\ r.todo = {} /\ s.pc = "code"
          \/ r.pc = "session" /\ r.kind = "register" /\ s.pc = "code"
          \/ r.pc = "session" /\ r.kind = "login" /\ s.pc = "done"
          \/ r.pc = "rotate" /\ r.kind = "refresh" /\ s.pc = "done"
          \/ r.pc = "use" /\ s.pc = IF r.kind = "verify" THEN "verify" ELSE "done"
          \/ r.pc = "password" /\ s.pc = IF r.kind = "reset" THEN "use" ELSE "done"
    \/ r.pc \in {"expire", "expireSession", "logout", "quota"} /\ s = Answered
    \/ Keeps(r, s) /\ r.pc = "quota" /\ s.pc = "invalidate" /\ s.todo = {"codes", "outbox"}
    \/ Keeps(r, s) /\ s.pc = r.pc /\ r.todo # {} /\ s.todo \subseteq r.todo
    \/ /\ s.kind = r.kind /\ s.user = r.user /\ s.token = r.token /\ s.pc = r.pc
       /\ s.overlapped = r.overlapped
       /\ "find" \in r.todo /\ s.todo = (r.todo \ {"find"}) \union {"session"}
       /\ s.ref \in Calls /\ sessions[s.ref].status # "NONE"
    \/ Keeps(r, s) /\ r.pc \in Steps /\ s.pc = "error" /\ s.todo = r.todo

\* What a request does after its start.
LaterStep(c) ==
    \/ CountDevices(c) \/ FindOldestDevice(c) \/ RevokeOldestDevice(c) \/ SaveDevice(c)
    \/ LoginSession(c) \/ ExpireSession(c) \/ RotateSession(c) \/ RevokeToken(c)
    \/ FindForLogout(c) \/ RevokeSession(c) \/ EndLogout(c)
    \/ CreateUser(c) \/ RegisterSession(c)
    \/ CheckQuota(c) \/ InvalidateCodes(c) \/ CancelMails(c)
    \/ EndInvalidate(c) \/ InsertCode(c) \/ InsertOutbox(c) \/ EnqueueMail(c)
    \/ ExpireCode(c) \/ UseCode(c) \/ MarkEmailVerified(c) \/ UpdatePassword(c)
    \/ AbortCall(c)

\* Every later step of a request is one of these moves, and no other request
\* notices.
LEMMA StepMoves ==
    ASSUME TypeOK, NEW c \in Calls, LaterStep(c)
    PROVE  /\ call' \in [Calls -> Call]
           /\ \A x \in Calls : x # c => call'[x] = call[x]
           /\ StepMove(call[c], call'[c])
<1> DEFINE Goal == /\ call' \in [Calls -> Call]
                   /\ \A x \in Calls : x # c => call'[x] = call[x]
                   /\ StepMove(call[c], call'[c])
<1>t. /\ call \in [Calls -> Call] /\ call[c] \in Call
      /\ call[c].todo \in Todos
  BY DEF TypeOK, AccountsTypeOK, Call, Todos
<1>g. ASSUME NEW pc \in CallPcs, Goto(c, pc),
             \/ <<call[c].pc, pc>> \in PcMoves
             \/ call[c].pc = "invalidate" /\ call[c].todo = {} /\ pc = "code"
             \/ call[c].pc = "session" /\ call[c].kind = "register" /\ pc = "code"
             \/ call[c].pc = "session" /\ call[c].kind = "login" /\ pc = "done"
             \/ call[c].pc = "rotate" /\ call[c].kind = "refresh" /\ pc = "done"
             \/ call[c].pc = "use" /\ pc = IF call[c].kind = "verify" THEN "verify" ELSE "done"
             \/ call[c].pc = "password" /\ pc = IF call[c].kind = "reset" THEN "use" ELSE "done"
      PROVE  Goal
  <2>1. call' \in [Calls -> Call]
    BY <1>t, <1>g, GotoTyped
  <2>2. /\ \A x \in Calls : x # c => call'[x] = call[x]
        /\ call'[c].pc = pc /\ Keeps(call[c], call'[c]) /\ call'[c].todo = call[c].todo
    BY <1>t, <1>g DEF Goto, Call, Keeps
  <2> QED BY <1>g, <2>1, <2>2 DEF StepMove
<1>a. ASSUME call' = [call EXCEPT ![c] = Answered],
             call[c].pc \in {"expire", "expireSession", "logout", "quota"}
      PROVE  Goal
  BY <1>t, <1>a, AnsweredTyped DEF StepMove
<1>d. ASSUME NEW k \in {"codes", "outbox", "token", "find", "session"}, k \in call[c].todo,
             call' = [call EXCEPT ![c].todo = @ \ {k}]
      PROVE  Goal
  <2> DEFINE todo == call[c].todo \ {k}
  <2>1. todo \in Todos /\ todo \subseteq call[c].todo /\ call[c].todo # {}
    BY <1>t, <1>d DEF Todos
  <2>2. call' = [call EXCEPT ![c].todo = todo]
    BY <1>d
  <2> HIDE DEF todo
  <2>3. call' \in [Calls -> Call]
    BY ZenonT(30), <1>t, <2>1, <2>2, TodoTyped
  <2>4. /\ \A x \in Calls : x # c => call'[x] = call[x]
        /\ call'[c].pc = call[c].pc /\ Keeps(call[c], call'[c]) /\ call'[c].todo = todo
    BY <1>t, <2>2 DEF Call, Keeps
  <2> QED BY <2>1, <2>3, <2>4 DEF StepMove
<1>p. {"oldest", "device", "done", "error", "session", "code", "outbox", "enqueue", "verify", "use"}
         \subseteq CallPcs
  BY DEF CallPcs, Steps
<1> SUFFICES Goal
  OBVIOUS
<1> HIDE DEF Goal
<1>1. CASE CountDevices(c)
  <2>1. PICK pc \in {"oldest", "device"} : Goto(c, pc) /\ call[c].pc = "count"
    BY <1>1 DEF CountDevices, At
  <2> QED BY <1>g, <1>p, <2>1 DEF PcMoves
<1>2. CASE FindOldestDevice(c)
  <2>1. CASE Goto(c, "device")
    BY <1>2, <1>g, <1>p, <2>1 DEF FindOldestDevice, At, PcMoves
  <2>2. CASE ~Goto(c, "device")
    <3>1. PICK f \in Fingerprints : call' = [call EXCEPT ![c].pc = "revoke", ![c].oldest = f]
      BY <1>2, <2>2 DEF FindOldestDevice, ActiveDevices
    <3>2. call[c].pc = "oldest"
      BY <1>2 DEF FindOldestDevice, At
    <3>3. [call[c] EXCEPT !.pc = "revoke", !.oldest = f] \in Call
      BY ZenonT(30), <1>t DEF Call, Steps
    <3>4. call' \in [Calls -> Call] /\ \A x \in Calls : x # c => call'[x] = call[x]
      BY <1>t, <3>1, <3>3
    <3>5. Keeps(call[c], call'[c]) /\ call'[c].todo = call[c].todo /\ call'[c].pc = "revoke"
      BY <1>t, <3>1 DEF Call, Keeps
    <3> QED BY <3>2, <3>4, <3>5 DEF Goal, StepMove, PcMoves
  <2> QED BY <2>1, <2>2
<1>3. CASE RevokeOldestDevice(c)
  <2>1. call' = [call EXCEPT ![c].pc = "device", ![c].oldest = NULL] /\ call[c].pc = "revoke"
    BY <1>3 DEF RevokeOldestDevice, At
  <2>2. [call[c] EXCEPT !.pc = "device", !.oldest = NULL] \in Call
    BY ZenonT(30), <1>t DEF Call, Steps
  <2>3. call' \in [Calls -> Call] /\ \A x \in Calls : x # c => call'[x] = call[x]
    BY <1>t, <2>1, <2>2
  <2>4. Keeps(call[c], call'[c]) /\ call'[c].todo = call[c].todo /\ call'[c].pc = "device"
    BY <1>t, <2>1 DEF Call, Keeps
  <2> QED BY <2>1, <2>3, <2>4 DEF Goal, StepMove, PcMoves
<1>4. CASE SaveDevice(c)
  <2>1. CASE Goto(c, "error")
    BY <1>4, <1>g, <1>p, <2>1 DEF SaveDevice, At, PcMoves
  <2>2. CASE ~Goto(c, "error")
    <3>1. /\ call' = [call EXCEPT ![c].pc = "session", ![c].device = NULL,
                                  ![c].seen = "none", ![c].at = 0]
          /\ call[c].pc = "device"
      BY <1>4, <2>2 DEF SaveDevice, At
    <3>2. [call[c] EXCEPT !.pc = "session", !.device = NULL, !.seen = "none", !.at = 0] \in Call
      BY ZenonT(30), <1>t DEF Call, Steps
    <3>3. call' \in [Calls -> Call] /\ \A x \in Calls : x # c => call'[x] = call[x]
      BY <1>t, <3>1, <3>2
    <3>4. Keeps(call[c], call'[c]) /\ call'[c].todo = call[c].todo /\ call'[c].pc = "session"
      BY <1>t, <3>1 DEF Call, Keeps
    <3> QED BY <3>1, <3>3, <3>4 DEF Goal, StepMove, PcMoves
  <2> QED BY <2>1, <2>2
<1>5. CASE LoginSession(c) \/ RotateSession(c) \/ RegisterSession(c)
  BY <1>5, <1>g, <1>p DEF LoginSession, RotateSession, Rotated, RegisterSession, At
<1>6. CASE ExpireSession(c) \/ EndLogout(c) \/ ExpireCode(c)
  BY <1>6, <1>a DEF ExpireSession, EndLogout, ExpireCode, At
<1>7. CASE RevokeToken(c) \/ RevokeSession(c) \/ InvalidateCodes(c) \/ CancelMails(c)
  <2>1. PICK k \in {"codes", "outbox", "token", "find", "session"} :
           k \in call[c].todo /\ call' = [call EXCEPT ![c].todo = @ \ {k}]
    BY <1>7 DEF RevokeToken, RevokeSession, InvalidateCodes, CancelMails
  <2> QED BY <1>d, <2>1
<1>8. CASE FindForLogout(c)
  <2>1. CASE call' = [call EXCEPT ![c].todo = @ \ {"find"}]
    BY <1>8, <1>d, <2>1 DEF FindForLogout
  <2>2. CASE call' # [call EXCEPT ![c].todo = @ \ {"find"}]
    <3> DEFINE todo == (call[c].todo \ {"find"}) \union {"session"}
    <3>1. PICK s \in SessionsOf(call[c].token) :
             call' = [call EXCEPT ![c].todo = todo, ![c].ref = s]
      BY <1>8, <2>2 DEF FindForLogout
    <3>2. s \in Calls /\ sessions[s].status # "NONE"
      BY DEF SessionsOf
    <3>3. todo \in Todos /\ "find" \in call[c].todo
      BY <1>t, <1>8 DEF Todos, FindForLogout
    <3>n. todo = (call[c].todo \ {"find"}) \union {"session"}
      OBVIOUS
    <3> HIDE DEF todo
    <3>4. call' \in [Calls -> Call]
      BY ZenonT(30), <1>t, <3>1, <3>2, <3>3, TodoTyped
    <3>5. /\ \A x \in Calls : x # c => call'[x] = call[x]
          /\ call'[c].pc = call[c].pc /\ call'[c].kind = call[c].kind
          /\ call'[c].user = call[c].user /\ call'[c].todo = todo /\ call'[c].ref = s
          /\ call'[c].token = call[c].token /\ call'[c].overlapped = call[c].overlapped
      BY <1>t, <3>1 DEF Call
    <3> QED BY <3>2, <3>3, <3>n, <3>4, <3>5 DEF Goal, StepMove
  <2> QED BY <2>1, <2>2
<1>9. CASE CreateUser(c)
  <2>1. PICK pc \in {"error", "session"} : Goto(c, pc) /\ call[c].pc = "user"
    BY <1>9 DEF CreateUser
  <2> QED BY <1>g, <1>p, <2>1 DEF PcMoves
<1>10. CASE EndInvalidate(c) \/ InsertCode(c) \/ InsertOutbox(c) \/ EnqueueMail(c)
              \/ MarkEmailVerified(c)
  BY <1>10, <1>g, <1>p
  DEF EndInvalidate, InsertCode, InsertOutbox, EnqueueMail, MarkEmailVerified, PcMoves
<1>11. CASE UseCode(c)
  <2>1. PICK pc \in {"verify", "done"} :
          /\ Goto(c, pc) /\ call[c].pc = "use"
          /\ pc = IF call[c].kind = "verify" THEN "verify" ELSE "done"
    BY <1>11 DEF UseCode
  <2> QED BY <1>g, <1>p, <2>1
<1>12. CASE UpdatePassword(c)
  <2>1. PICK pc \in {"use", "done"} :
          /\ Goto(c, pc) /\ call[c].pc = "password"
          /\ pc = IF call[c].kind = "reset" THEN "use" ELSE "done"
    BY <1>12 DEF UpdatePassword
  <2> QED BY <1>g, <1>p, <2>1
<1>13. CASE AbortCall(c)
  <2>1. Goto(c, "error") /\ call[c].pc \in Steps
    BY <1>13 DEF AbortCall, UnderWay
  <2>2. call' \in [Calls -> Call]
    BY <1>t, <1>p, <2>1, GotoTyped
  <2>3. /\ \A x \in Calls : x # c => call'[x] = call[x]
        /\ Keeps(call[c], call'[c]) /\ call'[c].todo = call[c].todo /\ call'[c].pc = "error"
    BY <1>t, <2>1 DEF Goto, Call, Keeps
  <2> QED BY <2>1, <2>2, <2>3 DEF Goal, StepMove
<1>14. CASE CheckQuota(c)
  <2>1. CASE call' = [call EXCEPT ![c] = Answered]
    BY <1>14, <1>a, <2>1 DEF CheckQuota
  <2>2. CASE call' # [call EXCEPT ![c] = Answered]
    <3>1. PICK todo \in Todos : todo = {"codes", "outbox"}
      BY DEF Todos
    <3>2. call' = [call EXCEPT ![c].pc = "invalidate", ![c].todo = todo] /\ call[c].pc = "quota"
      BY <1>14, <2>2, <3>1 DEF CheckQuota
    <3>3. [call[c] EXCEPT !.pc = "invalidate", !.todo = todo] \in Call
      BY ZenonT(30), <1>t DEF Call, Steps, Todos
    <3>4. call' \in [Calls -> Call] /\ \A x \in Calls : x # c => call'[x] = call[x]
      BY <1>t, <3>2, <3>3
    <3>5. Keeps(call[c], call'[c]) /\ call'[c].todo = todo /\ call'[c].pc = "invalidate"
      BY <1>t, <3>2 DEF Call, Keeps
    <3> QED BY <3>1, <3>2, <3>4, <3>5 DEF Goal, StepMove
  <2> QED BY <2>1, <2>2
<1> QED
  BY <1>1, <1>2, <1>3, <1>4, <1>5, <1>6, <1>7, <1>8, <1>9, <1>10, <1>11, <1>12, <1>13, <1>14
  DEF LaterStep, Goal

\* The first step of a request.
FirstStep(c) ==
    \/ StartRegister(c) \/ StartResend(c) \/ StartForgot(c) \/ StartVerify(c)
    \/ StartValidate(c) \/ StartReset(c) \/ StartLogin(c) \/ StartRefresh(c)
    \/ StartLogout(c) \/ StartChange(c)

\* A step of the system is one of four.
LEMMA Split ==
    ASSUME [Next]_identityVars
    PROVE  \/ UNCHANGED <<userTables, mails, call, job, mailbox, faults>> /\ (UNCHANGED now \/ Tick)
           \/ \E c \in Calls : /\ FirstStep(c)
                               /\ UNCHANGED <<userTables, mails, now, faults, job, mailbox>>
           \/ \E c \in Calls : LaterStep(c) /\ UNCHANGED mailbox /\ (EnqueueMail(c) \/ UNCHANGED job)
           \/ \E m \in Calls : /\ MailJobStep(m) \/ StallMailJob(m)
                               /\ UNCHANGED <<userTables, call, now>>
<1> USE DEF verificationVars, userTables, accountVars
<1>1. ASSUME NEW c \in Calls, SessionStep(c), UNCHANGED verificationVars
      PROVE  \/ FirstStep(c) /\ UNCHANGED <<userTables, mails, now, faults, job, mailbox>>
             \/ LaterStep(c) /\ UNCHANGED <<job, mailbox>>
  BY ZenonT(30), <1>1
  DEF SessionStep, FirstStep, LaterStep, StartLogin, StartRefresh, StartLogout, StartChange
<1>2. ASSUME NEW c \in Calls, VerificationStep(c)
      PROVE  \/ FirstStep(c) /\ UNCHANGED <<userTables, mails, now, faults, job, mailbox>>
             \/ LaterStep(c) /\ UNCHANGED mailbox /\ (EnqueueMail(c) \/ UNCHANGED job)
  <2>1. CASE \/ StartRegister(c) \/ StartResend(c) \/ StartForgot(c)
             \/ StartVerify(c) \/ StartValidate(c) \/ StartReset(c)
    BY ZenonT(30), <2>1
    DEF FirstStep, StartRegister, StartResend, StartForgot, StartVerify, StartValidate, StartReset
  <2>2. CASE ~(\/ StartRegister(c) \/ StartResend(c) \/ StartForgot(c)
               \/ StartVerify(c) \/ StartValidate(c) \/ StartReset(c))
    BY <1>2, <2>2
    DEF VerificationStep, LaterStep, CreateUser, RegisterSession, CheckQuota, InvalidateCodes,
        CancelMails, EndInvalidate, InsertCode, InsertOutbox, EnqueueMail, ExpireCode,
        UseCode, MarkEmailVerified, UpdatePassword
  <2> QED BY <2>1, <2>2
<1>3. ASSUME NEW m \in Calls, MailJobStep(m) \/ StallMailJob(m)
      PROVE  UNCHANGED <<userTables, call, now>>
  BY <1>3
  DEF MailJobStep, StallMailJob, StartMailJob, FindMail, UpdateCodeHash, MarkSending,
      SendMail, MarkSent, MarkFailed
<1>4. ASSUME NEW c \in Calls, AbortCall(c), UNCHANGED verificationVars
      PROVE  LaterStep(c) /\ UNCHANGED <<job, mailbox>>
  BY <1>4 DEF LaterStep
<1>5. CASE UNCHANGED identityVars
  BY <1>5 DEF identityVars
<1>6. CASE Tick /\ UNCHANGED verificationVars
  BY <1>6 DEF Tick
<1> QED BY <1>1, <1>2, <1>3, <1>4, <1>5, <1>6 DEF Next

\* Who writes which table.
LEMMA Writes ==
    ASSUME NEW c \in Calls, LaterStep(c)
    PROVE  /\ UNCHANGED users \/ CreateUser(c) \/ MarkEmailVerified(c) \/ UpdatePassword(c)
           /\ \/ UNCHANGED sessions
              \/ LoginSession(c) \/ RegisterSession(c) \/ ExpireSession(c)
              \/ RotateSession(c) \/ RevokeSession(c)
           /\ UNCHANGED devices \/ RevokeOldestDevice(c) \/ SaveDevice(c)
           /\ UNCHANGED revokedTokens \/ RevokeToken(c)
           /\ \/ UNCHANGED mails
              \/ InsertCode(c) \/ InsertOutbox(c) \/ InvalidateCodes(c)
              \/ CancelMails(c) \/ ExpireCode(c) \/ UseCode(c)
           /\ UNCHANGED now /\ (UNCHANGED faults \/ AbortCall(c))
<1> USE DEF userTables
<1>1. CASE \/ CountDevices(c) \/ FindOldestDevice(c) \/ RevokeOldestDevice(c) \/ SaveDevice(c)
           \/ LoginSession(c) \/ ExpireSession(c) \/ RotateSession(c) \/ RevokeToken(c)
           \/ FindForLogout(c) \/ RevokeSession(c) \/ EndLogout(c)
  BY ZenonT(30), <1>1
  DEF CountDevices, FindOldestDevice, RevokeOldestDevice, SaveDevice, LoginSession,
      ExpireSession, RotateSession, Rotated, RevokeToken, FindForLogout, RevokeSession, EndLogout
<1>2. CASE \/ CreateUser(c) \/ RegisterSession(c)
           \/ CheckQuota(c) \/ InvalidateCodes(c) \/ CancelMails(c)
           \/ EndInvalidate(c) \/ InsertCode(c) \/ InsertOutbox(c) \/ EnqueueMail(c)
           \/ ExpireCode(c) \/ UseCode(c) \/ MarkEmailVerified(c) \/ UpdatePassword(c)
           \/ AbortCall(c)
  BY ZenonT(30), <1>2
  DEF CreateUser, RegisterSession, CheckQuota, InvalidateCodes, CancelMails, EndInvalidate,
      InsertCode, InsertOutbox, EnqueueMail, ExpireCode, UseCode, MarkEmailVerified,
      UpdatePassword, AbortCall
<1> QED BY SMTT(30), <1>1, <1>2 DEF LaterStep

(* ------------------------------- Types ---------------------------------- *)

\* A logout that will revoke its access token has one.
TokenInv == \A c \in Calls : "token" \in call[c].todo => call[c].token \in Calls

TypeInv == TypeOK /\ TokenInv

\* Rows of the user tables that a request writes are typed.
LEMMA UserTablesTyped ==
    ASSUME TypeInv, NEW c \in Calls, LaterStep(c)
    PROVE  /\ users' \in [Users -> UserRow]
           /\ sessions' \in [Calls -> SessionRow]
           /\ devices' \in [Users -> [Fingerprints -> DeviceRow]]
           /\ revokedTokens' \in SUBSET Calls
           /\ faults' \in Nat /\ now' \in Nat
<1>t. /\ users \in [Users -> UserRow] /\ sessions \in [Calls -> SessionRow]
      /\ devices \in [Users -> [Fingerprints -> DeviceRow]]
      /\ revokedTokens \in SUBSET Calls /\ faults \in Nat /\ now \in Nat
      /\ call[c] \in Call /\ call[c].user \in Users \union {NULL} /\ call[c].at \in Nat
      /\ "token" \in call[c].todo => call[c].token \in Calls
  BY DEF TypeInv, TypeOK, AccountsTypeOK, TokenInv, Call
<1>1. users' \in [Users -> UserRow]
  <2>1. [exists |-> TRUE, verified |-> FALSE, password |-> c] \in UserRow
    BY DEF UserRow
  <2>2. \A u \in Users : /\ [users[u] EXCEPT !.verified = TRUE] \in UserRow
                         /\ [users[u] EXCEPT !.password = c] \in UserRow
    BY <1>t DEF UserRow
  <2>3. CASE CreateUser(c)
    BY <1>t, <2>1, <2>3 DEF CreateUser
  <2>4. CASE MarkEmailVerified(c)
    BY <1>t, <2>2, <2>4 DEF MarkEmailVerified
  <2>5. CASE UpdatePassword(c)
    BY <1>t, <2>2, <2>5 DEF UpdatePassword
  <2> QED BY <1>t, <2>3, <2>4, <2>5, Writes
<1>2. sessions' \in [Calls -> SessionRow]
  <2> DEFINE expiresAt == ExpiresAt(SessionTTL)
  <2>1. expiresAt \in Nat
    BY <1>t, AccountConstants DEF ExpiresAt
  <2> HIDE DEF expiresAt
  <2>2. [status |-> "ACTIVE", user |-> call[c].user, token |-> c, expiresAt |-> expiresAt]
           \in SessionRow
    BY <1>t, <2>1 DEF SessionRow
  <2>3. \A s \in Calls, status \in {"EXPIRED", "REVOKED"} :
           [sessions[s] EXCEPT !.status = status] \in SessionRow
    BY <1>t DEF SessionRow
  <2>4. \A s \in Calls : [status |-> "ACTIVE", user |-> sessions[s].user, token |-> c,
                          expiresAt |-> expiresAt] \in SessionRow
    BY <1>t, <2>1 DEF SessionRow
  <2>5. CASE LoginSession(c) \/ RegisterSession(c)
    BY <1>t, <2>2, <2>5 DEF LoginSession, RegisterSession, CreateSession, expiresAt
  <2>6. CASE ExpireSession(c) \/ RevokeSession(c)
    <3>1. PICK status \in {"EXPIRED", "REVOKED"} :
             sessions' = [sessions EXCEPT ![call[c].ref].status = status]
      BY <2>6 DEF ExpireSession, RevokeSession
    <3> QED BY <1>t, <2>3, <3>1
  <2>7. CASE RotateSession(c)
    BY <1>t, <2>4, <2>7 DEF RotateSession, Rotated, expiresAt
  <2> QED BY <1>t, <2>5, <2>6, <2>7, Writes
<1>3. devices' \in [Users -> [Fingerprints -> DeviceRow]]
  <2>1. CASE RevokeOldestDevice(c)
    <3> DEFINE u == call[c].user
               f == call[c].oldest
               row(w, g) == [devices[w][g] EXCEPT !.status = "revoked"]
    <3>1. \A w \in Users, g \in Fingerprints : row(w, g) \in DeviceRow
      BY <1>t DEF DeviceRow
    <3>2. devices' = [devices EXCEPT ![u] = [devices[u] EXCEPT ![f] = row(u, f)]]
      BY <2>1 DEF RevokeOldestDevice
    <3> HIDE DEF row, u, f
    <3> QED BY <1>t, <3>1, <3>2
  <2>2. CASE SaveDevice(c) /\ ~UNCHANGED devices
    <3> DEFINE u == call[c].user
               f == call[c].device
    <3>1. devices' = [devices EXCEPT ![u][f] =
                     [status |-> IF call[c].seen = "active" THEN @.status ELSE "active",
                      lastSeenAt |-> call[c].at]]
      BY <2>2 DEF SaveDevice
    <3> DEFINE row(w, g) == [status |-> IF call[c].seen = "active" THEN devices[w][g].status
                                        ELSE "active", lastSeenAt |-> call[c].at]
    <3>2. \A w \in Users, g \in Fingerprints : row(w, g) \in DeviceRow
      BY <1>t DEF DeviceRow
    <3>3. devices' = [devices EXCEPT ![u] = [devices[u] EXCEPT ![f] = row(u, f)]]
      BY <3>1
    <3> HIDE DEF row, u, f
    <3> QED BY <1>t, <3>2, <3>3
  <2> QED BY <1>t, <2>1, <2>2, Writes
<1>4. revokedTokens' \in SUBSET Calls
  <2>1. CASE RevokeToken(c)
    BY <1>t, <2>1 DEF RevokeToken
  <2> QED BY <1>t, <2>1, Writes
<1>5. faults' \in Nat /\ now' \in Nat
  <2>1. CASE AbortCall(c)
    BY <1>t, <2>1, Writes DEF AbortCall, Fault
  <2> QED BY <1>t, <2>1, Writes
<1> QED BY <1>1, <1>2, <1>3, <1>4, <1>5

\* So are the codes and mails.
LEMMA MailsTyped ==
    ASSUME TypeOK, NEW c \in Calls, LaterStep(c)
    PROVE  mails' \in [Calls -> MailRow]
<1>t. /\ mails \in [Calls -> MailRow] /\ now \in Nat
      /\ call[c] \in Call /\ call[c].user \in Users \union {NULL}
  BY DEF TypeOK, AccountsTypeOK, Call
<1>1. CASE InsertCode(c)
  <2>1. PICK type \in {"REGISTER", "FORGOT_PASSWORD"}, u \in Users \union {NULL}, at \in Nat :
           type = MailType(call[c].kind) /\ u = call[c].user /\ at = ExpiresAt(CodeTTL)
    BY <1>t, AccountConstants DEF MailType, ExpiresAt
  <2> DEFINE row == [NoMail EXCEPT !.type = type, !.user = u, !.expiresAt = at]
  <2>2. row \in MailRow
    BY DEF NoMail, MailRow
  <2>3. mails' = [mails EXCEPT ![c] = row]
    BY <1>1, <2>1 DEF InsertCode
  <2> HIDE DEF row
  <2> QED BY <1>t, <2>2, <2>3
<1>2. CASE InsertOutbox(c)
  BY ZenonT(30), <1>t, <1>2 DEF InsertOutbox, MailRow
<1>3. CASE InvalidateCodes(c) \/ CancelMails(c)
  <2>1. \A m \in Calls : [mails[m] EXCEPT !.used = TRUE] \in MailRow
    BY <1>t DEF MailRow
  <2>2. \A m \in Calls : [mails[m] EXCEPT !.status = "CANCELLED"] \in MailRow
    BY <1>t DEF MailRow
  <2> QED BY <1>t, <1>3, <2>1, <2>2
          DEF InvalidateCodes, CancelMails, MarkAllRegisterUsed, CancelInProgress
<1>4. CASE ExpireCode(c) \/ UseCode(c)
  <2>1. mails' = [mails EXCEPT ![call[c].ref].used = TRUE]
    BY <1>4 DEF ExpireCode, UseCode
  <2> QED BY ZenonT(30), <1>t, <2>1 DEF MailRow
<1> QED BY <1>t, <1>1, <1>2, <1>3, <1>4, Writes

\* How the e-mail job of a mail can change.
JobMove(m) ==
    \/ job'[m] = job[m]
    \/ call[m].pc = "enqueue" /\ call'[m].pc = "done" /\ job'[m].pc = "queued"
    \/ job[m].pc # "none" /\ job'[m].pc \in {"queued", "find", "done", "failed", "fail"}
    \/ job[m].pc = "find" /\ job'[m].pc = "hash" /\ mails[m].status = "PENDING"
    \/ job[m].pc = "hash" /\ job'[m].pc = "sending"
    \/ job[m].pc = "sending" /\ job'[m].pc = "send" /\ mails'[m].status = "SENDING"
    \/ job[m].pc = "send" /\ job'[m].pc = "sent"

\* How a mail can change.
MailMove(m) ==
    \/ /\ mails'[m].type = mails[m].type /\ mails'[m].user = mails[m].user
       /\ mails[m].used => mails'[m].used
       /\ mails'[m].codeHash = mails[m].codeHash \/ job[m].pc = "hash"
       /\ mails'[m].status = mails[m].status \/ mails'[m].status \notin {"NONE", "PENDING"}
    \/ call[m].pc \in {"code", "outbox"}

\* Links are added, and only with the hash that is in the row.
BoxMove ==
    /\ mailbox \subseteq mailbox'
    /\ \A link \in mailbox' : link \notin mailbox =>
          /\ link.mail \in Calls /\ job[link.mail].pc = "send"
          /\ link.token = mails[link.mail].codeHash /\ mails' = mails

\* A step of the e-mail worker.
LEMMA WorkerMoves ==
    ASSUME TypeOK, NEW m \in Calls, MailJobStep(m) \/ StallMailJob(m)
    PROVE  /\ job' \in [Calls -> Job] /\ mailbox' \in SUBSET Link
           /\ mails' \in [Calls -> MailRow] /\ faults' \in Nat
           /\ \A x \in Calls : JobMove(x) /\ MailMove(x)
           /\ BoxMove
<1> DEFINE Goal == /\ job' \in [Calls -> Job] /\ mailbox' \in SUBSET Link
                   /\ mails' \in [Calls -> MailRow] /\ faults' \in Nat
                   /\ \A x \in Calls : JobMove(x) /\ MailMove(x)
                   /\ BoxMove
<1>t. /\ job \in [Calls -> Job] /\ mailbox \in SUBSET Link /\ mails \in [Calls -> MailRow]
      /\ faults \in Nat /\ job[m] \in Job /\ mails[m] \in MailRow
      /\ job[m].attempts \in Nat /\ job[m].stalls \in Nat /\ mails[m].codeHash \in Nat
  BY DEF TypeOK, AccountsTypeOK, VerificationTypeOK, Job, MailRow
<1>f. UNCHANGED faults \/ Fault => faults' \in Nat
  BY <1>t DEF Fault
<1>j. ASSUME NEW j \in Job, job' = [job EXCEPT ![m] = j]
      PROVE  /\ job' \in [Calls -> Job] /\ job'[m] = j
             /\ \A x \in Calls : x # m => job'[x] = job[x]
  BY <1>t, <1>j
<1>g. ASSUME NEW pc \in {"queued", "done", "failed"} \union JobSteps, JobGoto(m, pc)
      PROVE  /\ job' \in [Calls -> Job] /\ job'[m].pc = pc
             /\ \A x \in Calls : x # m => job'[x] = job[x]
  BY <1>t, <1>g DEF JobGoto, Job
<1>e. ASSUME NEW pc \in {"done", "failed"}, EndJob(m, pc)
      PROVE  /\ job' \in [Calls -> Job] /\ job'[m].pc = pc
             /\ \A x \in Calls : x # m => job'[x] = job[x]
  <2>1. [NoJob EXCEPT !.pc = pc] \in Job /\ [NoJob EXCEPT !.pc = pc].pc = pc
    BY DEF NoJob, Job
  <2> QED BY <1>e, <1>j, <2>1 DEF EndJob
<1>r. ASSUME RetryOrFail(m)
      PROVE  /\ job' \in [Calls -> Job] /\ job'[m].pc \in {"queued", "failed"}
             /\ \A x \in Calls : x # m => job'[x] = job[x]
  BY <1>r, <1>g, <1>e DEF RetryOrFail
<1>s. ASSUME NEW status \in {"SENDING", "SENT", "FAILED"}, SetStatus(m, status)
      PROVE  /\ mails' \in [Calls -> MailRow] /\ mails'[m].status = status
             /\ \A x \in Calls : MailMove(x)
  BY <1>t, <1>s DEF SetStatus, MailRow, MailMove
<1>u. UNCHANGED mails => mails' \in [Calls -> MailRow] /\ \A x \in Calls : MailMove(x)
  BY <1>t DEF MailMove
<1>b. UNCHANGED mailbox => mailbox' \in SUBSET Link /\ BoxMove
  BY <1>t DEF BoxMove
<1> HIDE DEF Goal
<1> SUFFICES Goal
  BY DEF Goal
<1>1. CASE StartMailJob(m)
  <2> DEFINE n == job[m].attempts + 1
             j == [job[m] EXCEPT !.pc = "find", !.attempts = n]
  <2>1. n \in Nat
    BY <1>t
  <2> HIDE DEF n
  <2>2. j \in Job /\ j.pc = "find"
    BY <1>t, <2>1 DEF Job, JobSteps
  <2>3. job' = [job EXCEPT ![m] = j]
    BY <1>1 DEF StartMailJob, n
  <2> HIDE DEF j
  <2>4. job' \in [Calls -> Job] /\ \A x \in Calls : JobMove(x)
    BY <1>1, <1>j, <2>2, <2>3 DEF StartMailJob, JobMove
  <2> QED BY <1>1, <1>f, <1>u, <1>b, <2>4 DEF StartMailJob, Goal
<1>2. CASE FindMail(m)
  <2>1. job' \in [Calls -> Job] /\ \A x \in Calls : JobMove(x)
    <3>1. CASE Pending(m) /\ JobGoto(m, "hash")
      BY <1>2, <1>g, <3>1 DEF FindMail, JobMove, Pending, JobSteps
    <3>2. CASE EndJob(m, "done") \/ RetryOrFail(m)
      BY <1>2, <1>e, <1>r, <3>2 DEF FindMail, JobMove
    <3> QED BY <1>2, <3>1, <3>2 DEF FindMail
  <2> QED BY <1>2, <1>f, <1>u, <1>b, <2>1 DEF FindMail, Goal
<1>3. CASE UpdateCodeHash(m)
  <2>1. job' \in [Calls -> Job] /\ \A x \in Calls : JobMove(x)
    BY <1>3, <1>g DEF UpdateCodeHash, JobMove, JobSteps
  <2>2. CASE UNCHANGED mails
    BY <1>3, <1>f, <1>u, <1>b, <2>1, <2>2 DEF UpdateCodeHash, Goal
  <2>3. CASE ~UNCHANGED mails
    <3> DEFINE n == mails[m].codeHash + 1
    <3>1. n \in Nat
      BY <1>t
    <3>2. mails' = [mails EXCEPT ![m].codeHash = n]
      BY <1>3, <2>3 DEF UpdateCodeHash
    <3> HIDE DEF n
    <3>3. mails' \in [Calls -> MailRow] /\ \A x \in Calls : MailMove(x)
      BY <1>3, <1>t, <3>1, <3>2 DEF MailRow, MailMove, UpdateCodeHash
    <3> QED BY <1>3, <1>f, <1>b, <2>1, <3>3 DEF UpdateCodeHash, Goal
  <2> QED BY <2>2, <2>3
<1>4. CASE MarkSending(m)
  <2>1. CASE SetStatus(m, "SENDING") /\ JobGoto(m, "send") /\ UNCHANGED faults
    <3>1. job' \in [Calls -> Job] /\ \A x \in Calls : JobMove(x)
      BY <1>4, <1>g, <1>s, <2>1 DEF MarkSending, JobMove, JobSteps
    <3> QED BY <1>4, <1>f, <1>s, <1>b, <2>1, <3>1 DEF MarkSending, Goal
  <2>2. CASE Fault /\ JobGoto(m, "fail") /\ UNCHANGED mails
    <3>1. job' \in [Calls -> Job] /\ \A x \in Calls : JobMove(x)
      BY <1>4, <1>g, <2>2 DEF MarkSending, JobMove, JobSteps
    <3> QED BY <1>4, <1>f, <1>u, <1>b, <2>2, <3>1 DEF MarkSending, Goal
  <2> QED BY <1>4, <2>1, <2>2 DEF MarkSending
<1>5. CASE SendMail(m)
  <2>1. job' \in [Calls -> Job] /\ \A x \in Calls : JobMove(x)
    <3>1. PICK pc \in {"sent", "fail"} : JobGoto(m, pc)
      BY <1>5 DEF SendMail
    <3> QED BY <1>5, <1>g, <3>1 DEF SendMail, JobMove, JobSteps
  <2>2. mailbox' \in SUBSET Link /\ BoxMove
    <3>1. CASE UNCHANGED mailbox
      BY <1>b, <3>1
    <3>2. CASE Deliver(m)
      <4> DEFINE link == [mail |-> m, token |-> mails[m].codeHash]
      <4>1. link \in Link /\ link.mail = m /\ link.token = mails[m].codeHash
        BY <1>t DEF Link
      <4>2. mailbox' = mailbox \union {link}
        BY <3>2 DEF Deliver
      <4> HIDE DEF link
      <4> QED BY <1>5, <1>t, <4>1, <4>2 DEF BoxMove, SendMail
    <3> QED BY <1>5, <3>1, <3>2 DEF SendMail
  <2> QED BY <1>5, <1>f, <1>u, <2>1, <2>2 DEF SendMail, Goal
<1>6. CASE MarkSent(m)
  <2>1. job' \in [Calls -> Job] /\ \A x \in Calls : JobMove(x)
    <3>1. EndJob(m, "done") \/ JobGoto(m, "fail")
      BY <1>6 DEF MarkSent
    <3> QED BY <1>6, <1>g, <1>e, <3>1 DEF MarkSent, JobMove, JobSteps
  <2> QED BY <1>6, <1>f, <1>s, <1>u, <1>b, <2>1 DEF MarkSent, Goal
<1>7. CASE MarkFailed(m)
  <2>1. job' \in [Calls -> Job] /\ \A x \in Calls : JobMove(x)
    BY <1>7, <1>r DEF MarkFailed, JobMove
  <2> QED BY <1>7, <1>f, <1>s, <1>u, <1>b, <2>1 DEF MarkFailed, Goal
<1>8. CASE StallMailJob(m)
  <2>1. job' \in [Calls -> Job] /\ \A x \in Calls : JobMove(x)
    <3>1. CASE EndJob(m, "failed")
      BY <1>8, <1>e, <3>1 DEF StallMailJob, JobMove, JobSteps
    <3>2. CASE ~EndJob(m, "failed")
      <4> DEFINE n == job[m].stalls + 1
                 j == [job[m] EXCEPT !.pc = "queued", !.stalls = n]
      <4>1. n \in Nat
        BY <1>t
      <4> HIDE DEF n
      <4>2. j \in Job /\ j.pc = "queued"
        BY <1>t, <4>1 DEF Job
      <4>3. job' = [job EXCEPT ![m] = j]
        BY <1>8, <3>2 DEF StallMailJob, n
      <4> HIDE DEF j
      <4> QED BY <1>8, <1>j, <4>2, <4>3 DEF StallMailJob, JobMove, JobSteps
    <3> QED BY <3>1, <3>2
  <2> QED BY <1>8, <1>f, <1>u, <1>b, <2>1 DEF StallMailJob, Goal
<1> QED BY <1>1, <1>2, <1>3, <1>4, <1>5, <1>6, <1>7, <1>8 DEF MailJobStep

\* A step of a request, as the mails see it.
LEMMA RequestWritesMails ==
    ASSUME TypeOK, NEW c \in Calls, LaterStep(c), EnqueueMail(c) \/ UNCHANGED job
    PROVE  job' \in [Calls -> Job] /\ \A x \in Calls : JobMove(x) /\ MailMove(x)
<1>t. /\ job \in [Calls -> Job] /\ mails \in [Calls -> MailRow]
      /\ call \in [Calls -> Call]
  BY DEF TypeOK, AccountsTypeOK, VerificationTypeOK
<1>1. job' \in [Calls -> Job] /\ \A x \in Calls : JobMove(x)
  <2>1. CASE EnqueueMail(c)
    <3>1. call'[c].pc = "done"
      BY <1>t, <2>1 DEF EnqueueMail, Goto, Call
    <3>2. job' \in [Calls -> Job] /\ job'[c].pc = "queued" /\ \A x \in Calls : x # c => job'[x] = job[x]
      BY <1>t, <2>1 DEF EnqueueMail, Job
    <3> QED BY <2>1, <3>1, <3>2 DEF EnqueueMail, JobMove
  <2> QED BY <1>t, <2>1 DEF JobMove
<1>2. \A x \in Calls : MailMove(x)
  <2>1. CASE InsertCode(c) \/ InsertOutbox(c)
    BY <1>t, <2>1 DEF InsertCode, InsertOutbox, MailMove
  <2>2. CASE InvalidateCodes(c)
    BY <1>t, <2>2 DEF InvalidateCodes, MarkAllRegisterUsed, MailMove, MailRow
  <2>3. CASE CancelMails(c)
    BY <1>t, <2>3 DEF CancelMails, CancelInProgress, MailMove, MailRow
  <2>4. CASE ExpireCode(c) \/ UseCode(c)
    <3>1. mails' = [mails EXCEPT ![call[c].ref].used = TRUE]
      BY <2>4 DEF ExpireCode, UseCode
    <3> QED BY <1>t, <3>1 DEF MailMove, MailRow
  <2> QED BY <2>1, <2>2, <2>3, <2>4, Writes DEF MailMove
<1> QED BY <1>1, <1>2

\* How a request can change in a step of the system.
CallMove(c) ==
    \/ Same(call[c], call'[c])
    \/ call[c].pc = "idle" /\ (call'[c] = Answered \/ Started(call'[c]))
    \/ StepMove(call[c], call'[c])

\* A step of the system keeps the types and moves requests, jobs, mails and
\* links in these ways only.
LEMMA Moves ==
    ASSUME TypeInv, [Next]_identityVars
    PROVE  /\ TypeOK'
           /\ \A x \in Calls : CallMove(x) /\ JobMove(x) /\ MailMove(x)
           /\ BoxMove
<1>t. /\ TypeOK /\ call \in [Calls -> Call] /\ now \in Nat
      /\ \A x \in Calls : Same(call[x], call[x])
  BY DEF TypeInv, TypeOK, AccountsTypeOK, Same
<1>1. CASE /\ UNCHANGED <<userTables, mails, call, job, mailbox, faults>>
           /\ UNCHANGED now \/ Tick
  <2>1. now' \in Nat
    BY <1>1, <1>t DEF Tick
  <2>2. TypeOK'
    BY <1>1, <1>t, <2>1 DEF TypeOK, AccountsTypeOK, VerificationTypeOK, userTables
  <2> QED BY <1>1, <1>t, <2>2 DEF CallMove, JobMove, MailMove, BoxMove
<1>2. ASSUME NEW c \in Calls, FirstStep(c),
             UNCHANGED <<userTables, mails, now, faults, job, mailbox>>
      PROVE  /\ TypeOK'
             /\ \A x \in Calls : CallMove(x) /\ JobMove(x) /\ MailMove(x)
             /\ BoxMove
  <2>1. call' \in [Calls -> Call] /\ Arrives(c)
    BY <1>2, <1>t, Starts DEF FirstStep
  <2>2. TypeOK'
    BY <1>2, <1>t, <2>1 DEF TypeOK, AccountsTypeOK, VerificationTypeOK, userTables
  <2>3. \A x \in Calls : CallMove(x)
    BY <2>1 DEF Arrives, CallMove
  <2> QED BY <1>2, <2>2, <2>3 DEF JobMove, MailMove, BoxMove
<1>3. ASSUME NEW c \in Calls, LaterStep(c), UNCHANGED mailbox, EnqueueMail(c) \/ UNCHANGED job
      PROVE  /\ TypeOK'
             /\ \A x \in Calls : CallMove(x) /\ JobMove(x) /\ MailMove(x)
             /\ BoxMove
  <2>1. /\ call' \in [Calls -> Call]
        /\ \A x \in Calls : x # c => call'[x] = call[x]
        /\ StepMove(call[c], call'[c])
    BY <1>3, <1>t, StepMoves
  <2>2. job' \in [Calls -> Job] /\ \A x \in Calls : JobMove(x) /\ MailMove(x)
    BY <1>3, <1>t, RequestWritesMails
  <2>3. TypeOK'
    BY <1>3, <1>t, <2>1, <2>2, UserTablesTyped, MailsTyped
    DEF TypeOK, AccountsTypeOK, VerificationTypeOK
  <2>4. \A x \in Calls : CallMove(x)
    BY <1>t, <2>1 DEF CallMove
  <2> QED BY <1>3, <2>2, <2>3, <2>4 DEF BoxMove
<1>4. ASSUME NEW m \in Calls, MailJobStep(m) \/ StallMailJob(m), UNCHANGED <<userTables, call, now>>
      PROVE  /\ TypeOK'
             /\ \A x \in Calls : CallMove(x) /\ JobMove(x) /\ MailMove(x)
             /\ BoxMove
  <2>1. /\ job' \in [Calls -> Job] /\ mailbox' \in SUBSET Link
        /\ mails' \in [Calls -> MailRow] /\ faults' \in Nat
        /\ \A x \in Calls : JobMove(x) /\ MailMove(x)
        /\ BoxMove
    BY <1>4, <1>t, WorkerMoves
  <2>2. TypeOK'
    BY <1>4, <1>t, <2>1 DEF TypeOK, AccountsTypeOK, VerificationTypeOK, userTables
  <2> QED BY <1>4, <1>t, <2>1, <2>2 DEF CallMove
<1> QED BY <1>1, <1>2, <1>3, <1>4, Split

\* The initial rows are typed.
LEMMA InitTyped == Init => TypeInv
<1> SUFFICES ASSUME Init PROVE TypeInv
  OBVIOUS
<1>1. \A c \in Calls : call[c] = IdleCall
  BY DEF Init, AccountsInit
<1>2. users \in [Users -> UserRow]
  BY DEF Init, AccountsInit, UserRow
<1>3. devices \in [Users -> [Fingerprints -> DeviceRow]]
  BY DEF Init, AccountsInit, DeviceRow
<1>4. TypeOK
  BY <1>2, <1>3, EmptyRows
  DEF TypeOK, AccountsTypeOK, VerificationTypeOK, Init, AccountsInit, VerificationInit
<1>5. TokenInv
  BY <1>1 DEF TokenInv, IdleCall
<1> QED BY <1>4, <1>5 DEF TypeInv

\* Every step keeps the types; a logout keeps the token it came with.
LEMMA TypeStep ==
    ASSUME TypeInv, [Next]_identityVars
    PROVE  TypeInv'
<1>1. TypeOK' /\ \A x \in Calls : CallMove(x)
  BY Moves
<1>2. ASSUME NEW c \in Calls
      PROVE  "token" \in call'[c].todo => call'[c].token \in Calls
  <2>1. "token" \in call[c].todo => call[c].token \in Calls
    BY DEF TypeInv, TokenInv
  <2>2. CASE Same(call[c], call'[c])
    BY <2>1, <2>2 DEF Same
  <2>3. CASE call'[c] = Answered \/ Started(call'[c])
    BY <2>3, EmptyRows DEF Started
  <2>4. CASE StepMove(call[c], call'[c])
    BY <2>1, <2>4, EmptyRows DEF StepMove, Keeps
  <2> QED BY <1>1, <2>2, <2>3, <2>4 DEF CallMove
<1> QED BY <1>1, <1>2 DEF TypeInv, TokenInv

\* Every row of users, user_sessions, user_devices, revoked_tokens,
\* verification_codes and email_outbox has its type, in particular no logout
\* puts a missing token into revoked_tokens.
THEOREM IdentityTyped == Spec => []TypeOK
<1>1. TypeInv /\ [Next]_identityVars => TypeInv'
  BY TypeStep
<1>2. TypeInv => TypeOK
  BY DEF TypeInv
<1> QED BY <1>1, <1>2, InitTyped, PTL DEF Spec

(* --------------------------- Requests and kinds ------------------------- *)

\* What a step of a request says of its endpoint, and which calls of a
\* Promise.all can be open there.
KindOK(r) ==
    /\ r.pc = "idle" => r.kind = "none"
    /\ r.pc = "user" => r.kind = "register"
    /\ r.pc \in {"count", "oldest", "revoke", "device"} => r.kind = "login"
    /\ r.pc = "session" => r.kind \in {"register", "login"}
    /\ r.pc \in {"quota", "invalidate"} => r.kind = "resend"
    /\ r.pc \in {"code", "outbox", "enqueue"} => r.kind \in {"register", "resend", "forgot"}
    /\ r.pc = "use" => r.kind \in {"verify", "reset"}
    /\ r.pc = "verify" => r.kind = "verify"
    /\ r.pc = "password" => r.kind \in {"reset", "change"}
    /\ r.pc = "expire" => r.kind \in {"verify", "validate", "reset"}
    /\ r.pc = "expireSession" => r.kind = "refresh"
    /\ r.pc = "logout" => r.kind = "logout"
    /\ r.todo # {} => r.pc \in {"invalidate", "logout", "error"}
    /\ "find" \in r.todo => r.kind = "logout"
    /\ r.pc = "invalidate" => r.todo \subseteq {"codes", "outbox"}
    /\ r.pc = "logout" => r.todo \subseteq {"token", "find", "session"}

KindInv == \A c \in Calls : KindOK(call[c])

\* No step of a request leaves its endpoint.
LEMMA KindStep ==
    ASSUME TypeInv, KindInv, [Next]_identityVars
    PROVE  KindInv'
<1> SUFFICES ASSUME NEW c \in Calls PROVE KindOK(call'[c])
  BY DEF KindInv
<1> DEFINE r == call[c]
           s == call'[c]
<1>1. KindOK(r) /\ (Same(r, s) \/ s = Answered \/ Started(s) \/ StepMove(r, s))
  BY Moves DEF KindInv, CallMove
<1> SUFFICES KindOK(s)
  OBVIOUS
<1> HIDE DEF r, s
<1>2. CASE Same(r, s)
  BY <1>1, <1>2 DEF Same, KindOK
<1>3. CASE s = Answered
  BY <1>3, EmptyRows DEF KindOK
<1>4. CASE Started(s)
  BY <1>4 DEF Started, KindOK
<1>5. CASE StepMove(r, s)
  <2>1. CASE Keeps(r, s) /\ s.todo = r.todo /\ <<r.pc, s.pc>> \in PcMoves
    BY <1>1, <2>1 DEF Keeps, KindOK, PcMoves
  <2>2. CASE /\ Keeps(r, s) /\ s.todo = r.todo
             /\ \/ r.pc = "invalidate" /\ r.todo = {} /\ s.pc = "code"
                \/ r.pc = "session" /\ r.kind = "register" /\ s.pc = "code"
                \/ r.pc = "session" /\ r.kind = "login" /\ s.pc = "done"
                \/ r.pc = "rotate" /\ r.kind = "refresh" /\ s.pc = "done"
                \/ r.pc = "use" /\ s.pc = IF r.kind = "verify" THEN "verify" ELSE "done"
                \/ r.pc = "password" /\ s.pc = IF r.kind = "reset" THEN "use" ELSE "done"
    BY <1>1, <2>2 DEF Keeps, KindOK
  <2>3. CASE s = Answered
    BY <2>3, EmptyRows DEF KindOK
  <2>4. CASE Keeps(r, s) /\ s.pc = r.pc /\ r.todo # {} /\ s.todo \subseteq r.todo
    BY <1>1, <2>4 DEF Keeps, KindOK
  <2>5. CASE /\ s.kind = r.kind /\ s.pc = r.pc /\ "find" \in r.todo
             /\ s.todo = (r.todo \ {"find"}) \union {"session"}
    BY <1>1, <2>5 DEF KindOK
  <2>6. CASE Keeps(r, s) /\ s.pc = "error" /\ s.todo = r.todo
    BY <1>1, <2>6 DEF Keeps, KindOK
  <2>7. CASE /\ Keeps(r, s) /\ r.pc = "quota" /\ s.pc = "invalidate"
             /\ s.todo = {"codes", "outbox"}
    BY <1>1, <2>7 DEF Keeps, KindOK
  <2> QED BY <1>5, <2>1, <2>2, <2>3, <2>4, <2>5, <2>6, <2>7 DEF StepMove
<1> QED BY <1>1, <1>2, <1>3, <1>4, <1>5

(* ------------------------------- Sessions ------------------------------- *)

\* Before a request has created its session.
BeforeSession == {"idle", "user", "count", "oldest", "revoke", "device", "session"}

\* About to write the session it has found, by id.
WritesSession(r) == r.pc \in {"rotate", "expireSession"} \/ "session" \in r.todo

SessionInv ==
    \A c \in Calls :
        /\ call[c].pc \in BeforeSession => sessions[c].status = "NONE"
        /\ WritesSession(call[c]) => call[c].ref \in Calls /\ sessions[call[c].ref].status # "NONE"

\* How a session can change: it is created, it is ended, or a refresh that has
\* passed its guard revives it.
SessionMove(s) ==
    \/ sessions'[s] = sessions[s]
    \/ call[s].pc = "session" /\ call'[s].pc \in {"code", "done"} /\ sessions'[s].status = "ACTIVE"
    \/ /\ \E c \in Calls : WritesSession(call[c]) /\ call[c].ref = s
       /\ sessions'[s].status \in {"EXPIRED", "REVOKED"}
    \/ /\ \E c \in Calls : At(c, "refresh", "rotate") /\ call[c].ref = s
       /\ sessions'[s].status = "ACTIVE"

\* Sessions change in these ways only.
LEMMA SessionMoves ==
    ASSUME TypeInv, [Next]_identityVars
    PROVE  \A s \in Calls : SessionMove(s)
<1>t. call \in [Calls -> Call] /\ sessions \in [Calls -> SessionRow]
  BY DEF TypeInv, TypeOK, AccountsTypeOK
<1>1. CASE UNCHANGED sessions
  BY <1>1 DEF SessionMove
<1>2. CASE ~UNCHANGED sessions
  <2>1. PICK c \in Calls : LaterStep(c)
    BY <1>2, Split DEF userTables
  <2>2. CASE LoginSession(c) \/ RegisterSession(c)
    <3>1. call[c].pc = "session" /\ call'[c].pc \in {"code", "done"}
      BY <1>t, <2>2 DEF LoginSession, RegisterSession, At, Goto, Call
    <3>2. sessions'[c].status = "ACTIVE" /\ \A s \in Calls : s # c => sessions'[s] = sessions[s]
      BY <1>t, <2>2 DEF LoginSession, RegisterSession, CreateSession
    <3> QED BY <3>1, <3>2 DEF SessionMove
  <2>3. CASE ExpireSession(c) \/ RevokeSession(c)
    <3>1. PICK status \in {"EXPIRED", "REVOKED"} :
             sessions' = [sessions EXCEPT ![call[c].ref].status = status]
      BY <2>3 DEF ExpireSession, RevokeSession
    <3>2. WritesSession(call[c])
      BY <2>3 DEF ExpireSession, RevokeSession, At, WritesSession
    <3>3. \A s \in Calls : IF s = call[c].ref THEN sessions'[s].status = status
                           ELSE sessions'[s] = sessions[s]
      BY <1>t, <3>1 DEF SessionRow
    <3> QED BY <3>2, <3>3 DEF SessionMove
  <2>4. CASE RotateSession(c)
    <3>1. \A s \in Calls : IF s = call[c].ref THEN sessions'[s].status = "ACTIVE"
                           ELSE sessions'[s] = sessions[s]
      BY <1>t, <2>4 DEF RotateSession, Rotated
    <3> QED BY <2>4, <3>1 DEF SessionMove, RotateSession, Rotated
  <2> QED BY <1>2, <2>1, <2>2, <2>3, <2>4, Writes
<1> QED BY <1>1, <1>2

\* A request creates its session once, and writes others only when they exist.
LEMMA SessionStepInv ==
    ASSUME TypeInv, KindInv, SessionInv, [Next]_identityVars
    PROVE  SessionInv'
<1>m. \A s \in Calls : SessionMove(s) /\ CallMove(s)
  BY SessionMoves, Moves
<1>1. \A s \in Calls : sessions[s].status # "NONE" => sessions'[s].status # "NONE"
  BY <1>m DEF SessionMove
<1>2. ASSUME NEW c \in Calls, call'[c].pc \in BeforeSession
      PROVE  sessions'[c].status = "NONE"
  <2>1. call[c].pc \in BeforeSession /\ (call[c].pc = "session" => call'[c].pc = "session")
    <3>1. CASE Same(call[c], call'[c])
      BY <1>2, <3>1 DEF Same
    <3>2. CASE call[c].pc = "idle" /\ (call'[c] = Answered \/ Started(call'[c]))
      BY <3>2 DEF BeforeSession
    <3>3. CASE StepMove(call[c], call'[c])
      BY <1>2, <3>3, EmptyRows DEF StepMove, PcMoves, BeforeSession
    <3> QED BY <1>m, <3>1, <3>2, <3>3 DEF CallMove
  <2>2. sessions[c].status = "NONE"
    BY <2>1 DEF SessionInv
  <2>3. ~\E d \in Calls : (WritesSession(call[d]) \/ At(d, "refresh", "rotate")) /\ call[d].ref = c
    BY <2>2 DEF SessionInv, WritesSession, At
  <2> QED BY <1>m, <2>1, <2>2, <2>3 DEF SessionMove
<1>3. ASSUME NEW c \in Calls, WritesSession(call'[c])
      PROVE  call'[c].ref \in Calls /\ sessions'[call'[c].ref].status # "NONE"
  <2>1. SUFFICES call'[c].ref \in Calls /\ sessions[call'[c].ref].status # "NONE"
    BY <1>1
  <2>2. WritesSession(call[c]) => call[c].ref \in Calls /\ sessions[call[c].ref].status # "NONE"
    BY DEF SessionInv
  <2>3. CASE Same(call[c], call'[c])
    BY <1>3, <2>2, <2>3 DEF Same, WritesSession
  <2>4. CASE call'[c] = Answered \/ Started(call'[c])
    BY <1>3, <2>4, EmptyRows DEF Started, WritesSession
  <2>5. CASE StepMove(call[c], call'[c])
    BY <1>3, <2>2, <2>5, EmptyRows DEF StepMove, PcMoves, Keeps, WritesSession
  <2> QED BY <1>m, <2>3, <2>4, <2>5 DEF CallMove
<1> QED BY <1>2, <1>3 DEF SessionInv

\* The requests of the initial state are idle and there is no session.
LEMMA InitRequests == Init => KindInv /\ SessionInv
<1> SUFFICES ASSUME Init PROVE KindInv /\ SessionInv
  OBVIOUS
<1>1. \A c \in Calls : call[c] = IdleCall /\ sessions[c] = NoSession
  BY DEF Init, AccountsInit
<1> QED BY <1>1
        DEF KindInv, KindOK, SessionInv, WritesSession, IdleCall, NoSession

\* No refresh passes its guard for a session that is not active.
LEMMA RevivingIsOld ==
    ASSUME TypeInv, KindInv, [Next]_identityVars, NEW s \in Calls, Reviving(s)'
    PROVE  Reviving(s) \/ sessions[s].status = "ACTIVE"
<1>1. PICK c \in Calls : /\ call'[c].kind = "refresh" /\ call'[c].pc = "rotate"
                         /\ call'[c].ref = s
  BY DEF Reviving, At
<1>2. CallMove(c) /\ KindOK(call[c])
  BY Moves DEF KindInv
<1>3. CASE Same(call[c], call'[c])
  BY <1>1, <1>3 DEF Same, Reviving, At
<1>4. CASE call'[c] = Answered \/ Started(call'[c])
  BY <1>1, <1>4, EmptyRows DEF Started
<1>5. CASE StepMove(call[c], call'[c])
  BY <1>1, <1>2, <1>5, EmptyRows DEF StepMove, PcMoves, Keeps, KindOK, Reviving, At
<1> QED BY <1>2, <1>3, <1>4, <1>5 DEF CallMove

\* A session that is dead stays dead: only a refresh that passed RefreshGuard
\* before could revive it, and no request creates its session twice.
THEOREM SessionsStayDead == Spec => DeadStaysDead
<1> DEFINE Inv == TypeInv /\ KindInv /\ SessionInv
<1>1. Init => Inv
  BY InitTyped, InitRequests
<1>2. Inv /\ [Next]_identityVars => Inv'
  BY TypeStep, KindStep, SessionStepInv
<1>3. Inv /\ [Next]_identityVars => [\A s \in Calls : Dead(s) => Dead(s)']_identityVars
  <2> SUFFICES ASSUME Inv, [Next]_identityVars, NEW s \in Calls, Dead(s)
               PROVE  Dead(s)'
    OBVIOUS
  <2>1. SessionMove(s)
    BY SessionMoves
  <2>2. sessions[s].status \in {"EXPIRED", "REVOKED"} /\ ~Reviving(s)
    BY DEF Dead
  <2>3. call[s].pc # "session"
    BY <2>2 DEF SessionInv, BeforeSession
  <2>4. sessions'[s].status \in {"EXPIRED", "REVOKED"}
    BY <2>1, <2>2, <2>3 DEF SessionMove, Reviving
  <2>5. ~Reviving(s)'
    BY <2>2, RevivingIsOld
  <2> QED BY <2>4, <2>5 DEF Dead
<1> QED BY <1>1, <1>2, <1>3, PTL DEF Spec, DeadStaysDead

(* --------------------------- Codes and mails ---------------------------- *)

\* While a request is making a code there is no job for it; a link is out only
\* after a job has marked the row, and while a job is about to write a hash no
\* link of this code is out.
MailInv ==
    \A m \in Calls :
        /\ call[m].pc \in Steps \union {"idle"} => job[m].pc = "none"
        /\ mails[m].status \in {"NONE", "PENDING"} => ~Out(m)
        /\ job[m].pc \in {"none", "hash", "sending"} => ~Out(m)
        /\ job[m].pc \in {"send", "sent"} => mails[m].status \notin {"NONE", "PENDING"}

\* A request that is under way has not ended before.
LEMMA NotYetEnded ==
    ASSUME NEW c \in Calls, CallMove(c), call'[c].pc \in Steps \union {"idle"}
    PROVE  call[c].pc \in Steps \union {"idle"}
<1>1. CASE Same(call[c], call'[c])
  BY <1>1 DEF Same
<1>2. CASE call[c].pc = "idle"
  BY <1>2
<1>3. CASE StepMove(call[c], call'[c])
  BY <1>3, EmptyRows DEF StepMove, PcMoves, Steps
<1> QED BY <1>1, <1>2, <1>3 DEF CallMove

\* A new link is one of a job that sends.
LEMMA NewLinks ==
    ASSUME BoxMove, NEW m \in Calls, Out(m)'
    PROVE  Out(m) \/ (job[m].pc = "send" /\ mails' = mails)
BY DEF BoxMove, Out

\* Requests and worker keep out of each other's way.
LEMMA MailStep ==
    ASSUME TypeInv, MailInv, [Next]_identityVars
    PROVE  MailInv'
<1>m. BoxMove /\ \A x \in Calls : CallMove(x) /\ JobMove(x) /\ MailMove(x)
  BY Moves
<1> SUFFICES ASSUME NEW m \in Calls
             PROVE  /\ call'[m].pc \in Steps \union {"idle"} => job'[m].pc = "none"
                    /\ mails'[m].status \in {"NONE", "PENDING"} => ~Out(m)'
                    /\ job'[m].pc \in {"none", "hash", "sending"} => ~Out(m)'
                    /\ job'[m].pc \in {"send", "sent"} => mails'[m].status \notin {"NONE", "PENDING"}
  BY DEF MailInv
<1>i. /\ call[m].pc \in Steps \union {"idle"} => job[m].pc = "none"
      /\ mails[m].status \in {"NONE", "PENDING"} => ~Out(m)
      /\ job[m].pc \in {"none", "hash", "sending"} => ~Out(m)
      /\ job[m].pc \in {"send", "sent"} => mails[m].status \notin {"NONE", "PENDING"}
  BY DEF MailInv
<1>c. call[m].pc \in {"code", "outbox", "enqueue"} => job[m].pc = "none" /\ ~Out(m)
  BY <1>i DEF Steps
<1>1. ASSUME call'[m].pc \in Steps \union {"idle"}
      PROVE  job'[m].pc = "none"
  <2>1. job[m].pc = "none"
    BY <1>1, <1>m, <1>i, NotYetEnded
  <2>2. call'[m].pc # "done"
    BY <1>1 DEF Steps
  <2> QED BY <1>m, <2>1, <2>2 DEF JobMove
<1>2. ASSUME mails'[m].status \in {"NONE", "PENDING"}
      PROVE  ~Out(m)'
  <2>1. mails[m].status \in {"NONE", "PENDING"} \/ job[m].pc = "none"
    BY <1>2, <1>m, <1>c DEF MailMove
  <2> QED BY <1>m, <1>i, <2>1, NewLinks
<1>3. ASSUME job'[m].pc \in {"none", "hash", "sending"}
      PROVE  ~Out(m)'
  BY <1>3, <1>m, <1>i, NewLinks DEF JobMove
<1>4. ASSUME job'[m].pc \in {"send", "sent"}
      PROVE  mails'[m].status \notin {"NONE", "PENDING"}
  BY <1>4, <1>m, <1>i, <1>c DEF JobMove, MailMove
<1> QED BY <1>1, <1>2, <1>3, <1>4

\* What a delivered link opens stays what it was, and a spent one stays spent.
LEMMA OutStays ==
    ASSUME TypeInv, MailInv, [Next]_identityVars, NEW m \in Calls, Out(m)
    PROVE  /\ Out(m)' /\ mails'[m].type = mails[m].type /\ mails'[m].user = mails[m].user
           /\ mails'[m].codeHash = mails[m].codeHash
           /\ mails[m].used => mails'[m].used
<1>1. BoxMove /\ MailMove(m)
  BY Moves
<1>2. job[m].pc \notin {"none", "hash"} /\ call[m].pc \notin {"code", "outbox"}
  BY DEF MailInv, Steps
<1>3. Out(m)'
  BY <1>1 DEF BoxMove, Out
<1> QED BY <1>1, <1>2, <1>3 DEF MailMove

\* Nothing is queued or sent initially.
LEMMA InitMails == Init => MailInv /\ LinksMatchCodes
<1> SUFFICES ASSUME Init PROVE MailInv /\ LinksMatchCodes
  OBVIOUS
<1>1. mailbox = {} /\ \A m \in Calls : job[m] = NoJob
  BY DEF Init, VerificationInit
<1> QED BY <1>1 DEF MailInv, LinksMatchCodes, Out, NoJob

\* No retry, stalled job or cancelled mail replaces the hash of a link that is
\* out: every delivered link opens the code it was made for.
THEOREM DeliveredLinksMatch == Spec => []LinksMatchCodes
<1> DEFINE Inv == TypeInv /\ MailInv /\ LinksMatchCodes
<1>1. Init => Inv
  BY InitTyped, InitMails
<1>2. Inv /\ [Next]_identityVars => Inv'
  <2> SUFFICES ASSUME Inv, [Next]_identityVars PROVE Inv'
    OBVIOUS
  <2>1. TypeInv' /\ MailInv'
    BY TypeStep, MailStep
  <2>2. ASSUME NEW link \in mailbox' PROVE mails'[link.mail].codeHash = link.token
    <3>1. BoxMove
      BY Moves
    <3>2. CASE link \in mailbox
      <4>1. link.mail \in Calls /\ Out(link.mail)
        BY <3>2 DEF TypeInv, TypeOK, VerificationTypeOK, Link, Out
      <4> QED BY <3>2, <4>1, OutStays DEF LinksMatchCodes
    <3>3. CASE link \notin mailbox
      BY <3>1, <3>3 DEF BoxMove
    <3> QED BY <3>2, <3>3
  <2> QED BY <2>1, <2>2 DEF LinksMatchCodes
<1>3. Inv => LinksMatchCodes
  OBVIOUS
<1> QED BY <1>1, <1>2, <1>3, PTL DEF Spec

(* ---------------------- What an opened link proves ---------------------- *)

\* What a request knows of the link it has opened, until it is done.
OpenInv ==
    \A c \in Calls :
        /\ call[c].kind = "verify" /\ call[c].pc \in {"use", "verify"} =>
              Opened(call[c], "REGISTER")
        /\ call[c].kind = "reset" /\ call[c].pc \in {"password", "use"} =>
              Opened(call[c], "FORGOT_PASSWORD") /\ mails[call[c].ref].user = call[c].user
        /\ call[c].pc = "verify" \/ (call[c].pc = "done" /\ call[c].kind \in {"verify", "reset"}) =>
              call[c].ref \in Calls /\ Out(call[c].ref) /\ mails[call[c].ref].used

\* After a request has set a password.
AfterPassword == {"session", "code", "outbox", "enqueue", "use", "verify", "done", "error"}

VerifiedBy(u, c) ==
    /\ call[c].kind = "verify" /\ call[c].pc = "done"
    /\ Opened(call[c], "REGISTER") /\ mails[call[c].ref].user = u

SetBy(u, c) ==
    /\ c \in Calls /\ call[c].user = u /\ call[c].pc \in AfterPassword
    /\ call[c].kind = "reset" =>
          Opened(call[c], "FORGOT_PASSWORD") /\ mails[call[c].ref].user = u

OwnerInv ==
    \A u \in Users :
        /\ users[u].verified => \E c \in Calls : VerifiedBy(u, c)
        /\ users[u].password # NULL => SetBy(u, users[u].password)

\* A request that has opened a link has opened it still.
LEMMA OpenedStays ==
    ASSUME TypeInv, MailInv, [Next]_identityVars, NEW r \in Call, NEW type, Opened(r, type)
    PROVE  /\ r.ref \in Calls /\ Out(r.ref)' /\ mails'[r.ref].type = type
           /\ mails'[r.ref].user = mails[r.ref].user
BY OutStays DEF Opened

\* Who may write a user: the owner of an opened registration link, or a request
\* that has come to its password.
UserMove(u) ==
    /\ users'[u].verified =>
          \/ users[u].verified
          \/ \E c \in Calls : /\ call[c].pc = "verify" /\ call'[c].pc = "done"
                              /\ Keeps(call[c], call'[c]) /\ mails[call[c].ref].user = u
    /\ \/ users'[u].password = users[u].password
       \/ \E c \in Calls : /\ users'[u].password = c /\ call[c].user = u
                           /\ call[c].pc \in {"user", "password"}
                           /\ Keeps(call[c], call'[c]) /\ call'[c].pc \in AfterPassword

\* Users change in these ways only.
LEMMA UserMoves ==
    ASSUME TypeInv, [Next]_identityVars
    PROVE  \A u \in Users : UserMove(u)
<1>t. call \in [Calls -> Call] /\ users \in [Users -> UserRow]
  BY DEF TypeInv, TypeOK, AccountsTypeOK
<1>1. CASE UNCHANGED users
  BY <1>1 DEF UserMove
<1>2. CASE ~UNCHANGED users
  <2>1. PICK c \in Calls : LaterStep(c)
    BY <1>2, Split DEF userTables
  <2>g. ASSUME NEW pc, Goto(c, pc)
        PROVE  call'[c].pc = pc /\ Keeps(call[c], call'[c])
    BY <1>t, <2>g DEF Goto, Call, Keeps
  <2>2. CASE CreateUser(c)
    <3>1. call[c].pc = "user" /\ call'[c].pc = "session" /\ Keeps(call[c], call'[c])
      BY <1>2, <2>2, <2>g DEF CreateUser
    <3>2. users' = [users EXCEPT ![call[c].user] =
                       [exists |-> TRUE, verified |-> FALSE, password |-> c]]
      BY <1>2, <2>2 DEF CreateUser
    <3>3. \A u \in Users :
             IF u = call[c].user THEN users'[u].verified = FALSE /\ users'[u].password = c
             ELSE users'[u] = users[u]
      BY <1>t, <3>2
    <3> QED BY <3>1, <3>3 DEF UserMove, AfterPassword
  <2>3. CASE MarkEmailVerified(c)
    <3>1. call[c].pc = "verify" /\ call'[c].pc = "done" /\ Keeps(call[c], call'[c])
      BY <2>3, <2>g DEF MarkEmailVerified
    <3>2. \A u \in Users : /\ users'[u].password = users[u].password
                           /\ u # mails[call[c].ref].user => users'[u] = users[u]
      BY <1>t, <2>3 DEF MarkEmailVerified, UserRow
    <3> QED BY <3>1, <3>2 DEF UserMove
  <2>4. CASE UpdatePassword(c)
    <3>1. /\ call[c].pc = "password" /\ call'[c].pc \in {"use", "done"}
          /\ Keeps(call[c], call'[c])
      BY <2>4, <2>g DEF UpdatePassword
    <3>2. \A u \in Users :
             /\ users'[u].verified = users[u].verified
             /\ users'[u].password = IF u = call[c].user THEN c ELSE users[u].password
      BY <1>t, <2>4 DEF UpdatePassword, UserRow
    <3> QED BY <3>1, <3>2 DEF UserMove, AfterPassword
  <2> QED BY <1>2, <2>1, <2>2, <2>3, <2>4, Writes
<1> QED BY <1>1, <1>2

\* A request that leaves "use" other than by a failure has marked its code.
LEMMA UseMarks ==
    ASSUME TypeInv, KindInv, [Next]_identityVars, NEW c \in Calls,
           call[c].pc = "use", call'[c].pc \in {"verify", "done"}, call[c].ref \in Calls
    PROVE  mails'[call[c].ref].used
<1>t. /\ call \in [Calls -> Call] /\ mails \in [Calls -> MailRow]
      /\ TypeOK /\ KindOK(call[c]) /\ call[c].todo = {}
  BY DEF TypeInv, TypeOK, AccountsTypeOK, KindInv, KindOK
<1>1. PICK d \in Calls : LaterStep(d)
  <2>1. ASSUME NEW d \in Calls, FirstStep(d)
        PROVE  FALSE
    <3>1. Arrives(d)
      BY <1>t, <2>1, Starts DEF FirstStep
    <3> QED BY <3>1 DEF Arrives, Same
  <2> QED BY <2>1, Split
<1>2. d = c
  BY <1>t, <1>1, StepMoves
<1>3. CASE UseCode(c)
  BY <1>t, <1>3 DEF UseCode, MailRow
<1>4. CASE ~UseCode(c)
  <2>1. AbortCall(c)
    BY ZenonT(30), <1>t, <1>1, <1>2, <1>4
    DEF LaterStep, CountDevices, FindOldestDevice, RevokeOldestDevice, SaveDevice, LoginSession,
        ExpireSession, RotateSession, Rotated, RevokeToken, FindForLogout, RevokeSession, EndLogout,
        CreateUser, RegisterSession, CheckQuota, InvalidateCodes, CancelMails, EndInvalidate,
        InsertCode, InsertOutbox, EnqueueMail, ExpireCode, MarkEmailVerified, UpdatePassword, At
  <2> QED BY SMTT(30), <1>t, <2>1 DEF AbortCall, Goto, Call
<1> QED BY <1>3, <1>4

\* A request keeps what it has opened.
LEMMA OpenStep ==
    ASSUME TypeInv, KindInv, MailInv, OpenInv, [Next]_identityVars
    PROVE  OpenInv'
<1> SUFFICES ASSUME NEW c \in Calls
             PROVE  /\ call'[c].kind = "verify" /\ call'[c].pc \in {"use", "verify"} =>
                          Opened(call[c], "REGISTER")'
                    /\ call'[c].kind = "reset" /\ call'[c].pc \in {"password", "use"} =>
                          /\ Opened(call[c], "FORGOT_PASSWORD")'
                          /\ mails'[call'[c].ref].user = call'[c].user
                    /\ \/ call'[c].pc = "verify"
                       \/ call'[c].pc = "done" /\ call'[c].kind \in {"verify", "reset"}
                       => call'[c].ref \in Calls /\ Out(call[c].ref)' /\ mails'[call'[c].ref].used
  BY DEF OpenInv
<1> DEFINE r == call[c]
           s == call'[c]
           Opens(q, type) == q.ref \in Calls /\ Out(q.ref) /\ mails[q.ref].type = type
<1>m. CallMove(c) /\ KindOK(r)
  BY Moves DEF KindInv
<1>o. ASSUME NEW m \in Calls, Out(m)
      PROVE  /\ Out(m)' /\ mails'[m].type = mails[m].type /\ mails'[m].user = mails[m].user
             /\ mails[m].used => mails'[m].used
  BY <1>o, OutStays
<1>i. /\ r.kind = "verify" /\ r.pc \in {"use", "verify"} => Opens(r, "REGISTER")
      /\ r.kind = "reset" /\ r.pc \in {"password", "use"} =>
            Opens(r, "FORGOT_PASSWORD") /\ mails[r.ref].user = r.user
      /\ r.pc = "verify" \/ (r.pc = "done" /\ r.kind \in {"verify", "reset"}) =>
            r.ref \in Calls /\ Out(r.ref) /\ mails[r.ref].used
  BY DEF OpenInv, Opened
<1>p. ASSUME NEW m \in Calls, call'[c].ref = m
      PROVE  /\ Out(call[c].ref)' <=> Out(m)'
             /\ \A type : Opened(call[c], type)' <=> Out(m)' /\ mails'[m].type = type
  BY <1>p DEF Opened, Out
<1>n. \/ Same(r, s) \/ s = Answered
      \/ Started(s)
      \/ StepMove(r, s)
  BY <1>m DEF CallMove
<1>1. s.kind = "verify" /\ s.pc \in {"use", "verify"} => Opens(s, "REGISTER")
  BY <1>n, <1>m, <1>i, EmptyRows
  DEF Same, Started, Opened, StepMove, PcMoves, Keeps, KindOK
<1>2. s.kind = "reset" /\ s.pc \in {"password", "use"} =>
         Opens(s, "FORGOT_PASSWORD") /\ mails[s.ref].user = s.user
  BY SMTT(30), <1>n, <1>m, <1>i, EmptyRows
  DEF Same, Started, Opened, StepMove, PcMoves, Keeps, KindOK
<1>3. s.pc = "verify" \/ (s.pc = "done" /\ s.kind \in {"verify", "reset"}) =>
         /\ s.ref \in Calls /\ Out(s.ref)
         /\ mails[s.ref].used \/ (r.pc = "use" /\ s.ref = r.ref)
  BY <1>n, <1>m, <1>i, EmptyRows
  DEF Same, Started, Opened, StepMove, PcMoves, Keeps, KindOK
<1>4. r.pc = "use" /\ s.pc \in {"verify", "done"} /\ r.ref \in Calls => mails'[r.ref].used
  BY UseMarks
<1> QED BY <1>1, <1>2, <1>3, <1>4, <1>o, <1>p

\* Past its password, a request keeps its endpoint, its user and, unless it is
\* a logout, its link for good.
LEMMA PastPassword ==
    ASSUME NEW c \in Calls, CallMove(c), KindOK(call[c]), call[c].pc \in AfterPassword
    PROVE  /\ call'[c].kind = call[c].kind /\ call'[c].user = call[c].user
           /\ call[c].kind # "logout" => call'[c].ref = call[c].ref
           /\ call'[c].pc \in AfterPassword
           /\ call[c].pc = "done" => call'[c].pc = "done"
<1>1. CASE Same(call[c], call'[c])
  BY <1>1 DEF Same
<1>2. CASE StepMove(call[c], call'[c])
  BY <1>2 DEF StepMove, PcMoves, Keeps, KindOK, AfterPassword, Steps
<1> QED BY <1>1, <1>2 DEF CallMove, AfterPassword

\* The owner of an address is behind everything that is set for it.
LEMMA OwnerStep ==
    ASSUME TypeInv, KindInv, MailInv, OpenInv, OwnerInv, [Next]_identityVars
    PROVE  OwnerInv'
<1>m. /\ \A c \in Calls : CallMove(c) /\ KindOK(call[c])
      /\ \A u \in Users : UserMove(u)
  BY Moves, UserMoves DEF KindInv
<1> SUFFICES ASSUME NEW u \in Users
             PROVE  /\ users'[u].verified => \E c \in Calls : VerifiedBy(u, c)'
                    /\ users'[u].password # NULL => SetBy(u, users[u].password)'
  BY DEF OwnerInv
<1>p. ASSUME NEW c \in Calls, NEW m \in Calls, call'[c].ref = m
      PROVE  \A type : Opened(call[c], type)' <=> Out(m)' /\ mails'[m].type = type
  BY <1>p DEF Opened, Out
<1>k. ASSUME NEW c \in Calls, NEW type, Opened(call[c], type), call'[c].ref = call[c].ref
      PROVE  Opened(call[c], type)' /\ mails'[call'[c].ref].user = mails[call[c].ref].user
  <2>1. PICK m \in Calls : m = call[c].ref /\ Out(m) /\ mails[m].type = type
    BY <1>k DEF Opened
  <2>2. Out(m)' /\ mails'[m].type = mails[m].type /\ mails'[m].user = mails[m].user
    BY <2>1, OutStays
  <2> QED BY <1>k, <1>p, <2>1, <2>2
<1>1. ASSUME users'[u].verified
      PROVE  \E c \in Calls : VerifiedBy(u, c)'
  <2>1. CASE users[u].verified
    <3>1. PICK c \in Calls : VerifiedBy(u, c)
      BY <2>1 DEF OwnerInv
    <3>2. /\ call'[c].kind = "verify" /\ call'[c].pc = "done" /\ call'[c].ref = call[c].ref
      BY <1>m, <3>1, PastPassword DEF VerifiedBy, AfterPassword
    <3> QED BY <1>k, <3>1, <3>2 DEF VerifiedBy
  <2>2. CASE ~users[u].verified
    <3>1. PICK c \in Calls : /\ call[c].pc = "verify" /\ call'[c].pc = "done"
                             /\ Keeps(call[c], call'[c]) /\ mails[call[c].ref].user = u
      BY <1>1, <1>m, <2>2 DEF UserMove
    <3>2. call[c].kind = "verify" /\ Opened(call[c], "REGISTER")
      BY <1>m, <3>1 DEF KindOK, OpenInv
    <3> QED BY <1>k, <3>1, <3>2 DEF VerifiedBy, Keeps
  <2> QED BY <2>1, <2>2
<1>2. ASSUME users'[u].password # NULL
      PROVE  SetBy(u, users[u].password)'
  <2>s. ASSUME NEW c \in Calls, users'[u].password = c, call'[c].user = u,
               call'[c].pc \in AfterPassword,
               call'[c].kind = "reset" =>
                  Opened(call[c], "FORGOT_PASSWORD")' /\ mails'[call'[c].ref].user = u
        PROVE  SetBy(u, users[u].password)'
    BY <2>s DEF SetBy, Opened, Out
  <2>1. CASE users'[u].password = users[u].password
    <3>1. PICK c \in Calls : c = users[u].password /\ SetBy(u, c)
      BY <1>2, <2>1 DEF OwnerInv, SetBy
    <3>2. /\ call'[c].kind = call[c].kind /\ call'[c].user = u
          /\ call[c].kind = "reset" => call'[c].ref = call[c].ref
          /\ call'[c].pc \in AfterPassword
      BY <1>m, <3>1, PastPassword DEF SetBy
    <3>3. call[c].kind = "reset" => Opened(call[c], "FORGOT_PASSWORD") /\ mails[call[c].ref].user = u
      BY <3>1 DEF SetBy
    <3>4. call'[c].kind = "reset" =>
             Opened(call[c], "FORGOT_PASSWORD")' /\ mails'[call'[c].ref].user = u
      BY <1>k, <3>2, <3>3
    <3> QED BY <2>1, <2>s, <3>1, <3>2, <3>4
  <2>2. CASE users'[u].password # users[u].password
    <3>1. PICK c \in Calls : /\ users'[u].password = c /\ call[c].user = u
                             /\ call[c].pc \in {"user", "password"}
                             /\ Keeps(call[c], call'[c]) /\ call'[c].pc \in AfterPassword
      BY <1>m, <2>2 DEF UserMove
    <3>2. call[c].kind = "reset" => Opened(call[c], "FORGOT_PASSWORD") /\ mails[call[c].ref].user = u
      BY <1>m, <3>1 DEF KindOK, OpenInv
    <3>3. call'[c].kind = "reset" =>
             Opened(call[c], "FORGOT_PASSWORD")' /\ mails'[call'[c].ref].user = u
      BY <1>k, <3>1, <3>2 DEF Keeps
    <3> QED BY <2>s, <3>1, <3>3 DEF Keeps
  <2> QED BY <2>1, <2>2
<1> QED BY <1>1, <1>2

\* Nobody is verified and no password is set initially.
LEMMA InitOwners == Init => OpenInv /\ OwnerInv
<1> SUFFICES ASSUME Init PROVE OpenInv /\ OwnerInv
  OBVIOUS
<1>1. \A c \in Calls : call[c] = IdleCall
  BY DEF Init, AccountsInit
<1>2. \A u \in Users : users[u].verified = FALSE /\ users[u].password = NULL
  BY DEF Init, AccountsInit
<1>3. OpenInv
  BY <1>1 DEF OpenInv, IdleCall
<1>4. OwnerInv
  BY <1>2 DEF OwnerInv
<1> QED BY <1>3, <1>4

IdentityInv == TypeInv /\ KindInv /\ MailInv /\ OpenInv /\ OwnerInv

\* The invariant of accounts, codes and mails holds in every reachable state.
THEOREM IdentityReachable == Spec => []IdentityInv
<1>1. Init => IdentityInv
  BY InitTyped, InitRequests, InitMails, InitOwners DEF IdentityInv
<1>2. IdentityInv /\ [Next]_identityVars => IdentityInv'
  BY TypeStep, KindStep, MailStep, OpenStep, OwnerStep DEF IdentityInv
<1> QED BY <1>1, <1>2, PTL DEF Spec

\* An address is verified only by someone who opened a registration link sent
\* to it, and a password is reset only by someone who opened a reset link that
\* was sent to the address of this very user.
THEOREM OnlyOwnersUseLinks == Spec => []LinksOfOwner
<1>1. IdentityInv => LinksOfOwner
  <2> SUFFICES ASSUME IdentityInv, NEW u \in Users
               PROVE  /\ users[u].verified =>
                            \E c \in Calls, link \in mailbox :
                                /\ call[c].kind = "verify" /\ call[c].ref = link.mail
                                /\ mails[link.mail].type = "REGISTER"
                                /\ mails[link.mail].user = u
                      /\ LET c == users[u].password IN c # NULL =>
                            /\ call[c].user = u
                            /\ call[c].kind = "reset" =>
                                  \E link \in mailbox :
                                      /\ call[c].ref = link.mail
                                      /\ mails[link.mail].type = "FORGOT_PASSWORD"
                                      /\ mails[link.mail].user = u
    BY DEF LinksOfOwner
  <2>1. /\ users[u].verified => \E c \in Calls : VerifiedBy(u, c)
        /\ users[u].password # NULL => SetBy(u, users[u].password)
    BY DEF IdentityInv, OwnerInv
  <2> QED BY <2>1 DEF VerifiedBy, SetBy, Opened, Out
<1> QED BY <1>1, IdentityReachable, PTL

\* No request gets in with a link that another request has finished its work
\* with, although resetPassword marks the code only after the password.
THEOREM SpentLinksStaySpent == Spec => SpentLinks
<1> DEFINE Fresh == \A c, d \in Calls :
          /\ call[c].pc = "idle" /\ call'[c].kind \in {"verify", "reset"}
          /\ call'[c].pc \in {"use", "password"}
          /\ call[d].pc = "done" /\ call[d].kind \in {"verify", "reset"}
          => call'[c].ref # call[d].ref
<1>1. IdentityInv /\ [Next]_identityVars => Fresh
  <2> SUFFICES ASSUME IdentityInv, [Next]_identityVars, NEW c \in Calls, NEW d \in Calls,
                      call[c].pc = "idle", call'[c].kind \in {"verify", "reset"},
                      call'[c].pc \in {"use", "password"},
                      call[d].pc = "done", call[d].kind \in {"verify", "reset"}
               PROVE  call'[c].ref # call[d].ref
    OBVIOUS
  <2>1. CallMove(c) /\ KindOK(call[c])
    BY Moves DEF IdentityInv, KindInv
  <2>2. Started(call'[c])
    BY <2>1, EmptyRows DEF CallMove, Same, StepMove, PcMoves, KindOK, Steps
  <2>3. ~mails[call'[c].ref].used
    BY <2>2 DEF Started
  <2>4. mails[call[d].ref].used
    BY DEF IdentityInv, OpenInv
  <2> QED BY <2>3, <2>4
<1>2. IdentityInv /\ [Next]_identityVars => [Fresh]_identityVars
  BY <1>1
<1> QED BY <1>2, IdentityReachable, PTL DEF Spec, SpentLinks

(* --------------------- What overlapping requests cost -------------------- *)

\* Two requests that are under way together for one user and could disturb
\* each other.
Rivals(c, d) ==
    /\ c # d /\ UnderWay(c) /\ UnderWay(d) /\ call[c].user = call[d].user
    /\ \E family \in Families : {call[c].kind, call[d].kind} \subseteq family

\* Rivals know of each other.
PeersInv == \A c, d \in Calls : Rivals(c, d) => call[c].overlapped

BeforeDevice == {"count", "oldest", "revoke", "device"}

BeforeCode == {"user", "session", "quota", "invalidate", "code"}

BeforeOutbox == BeforeCode \union {"outbox"}

\* Overlapping requests that have got past these steps: they may have written
\* one row more than the limit allows.
Past(kinds, pcs, u) ==
    {c \in Calls : /\ call[c].kind \in kinds /\ call[c].user = u
                   /\ call[c].overlapped /\ call[c].pc \notin pcs}

PastDevice(u) == Past({"login"}, BeforeDevice, u)

PastCode(u) == Past({"register", "resend"}, BeforeCode, u)

PastOutbox(u) == Past({"register", "resend"}, BeforeOutbox, u)

\* A login that has room for its device, or is about to make it.
DeviceInv ==
    /\ \A c \in Calls : call[c].pc \in BeforeDevice =>
          /\ call[c].user \in Users /\ call[c].device \in Fingerprints
          /\ call[c].pc = "revoke" => call[c].oldest \in Fingerprints
    /\ \A u \in Users :
          /\ Cardinality(ActiveDevices(u)) <= MaxDevices + Cardinality(PastDevice(u))
          /\ \A c \in Calls : call[c].user = u /\ ~call[c].overlapped =>
                /\ call[c].pc = "device" /\ call[c].seen # "active" =>
                      Cardinality(ActiveDevices(u)) + 1 <= MaxDevices + Cardinality(PastDevice(u))
                /\ call[c].pc = "revoke" => call[c].oldest \in ActiveDevices(u)

Mailing == {"register", "resend"}

\* What the rows of codes and mails say of the requests that write them.
RowInv ==
    /\ \A m \in Calls :
          /\ job[m].pc # "none" \/ call[m].pc = "enqueue" => mails[m].status # "NONE"
          /\ mails[m].type = "REGISTER" => mails[m].user \in Users /\ users[mails[m].user].exists
          /\ call[m].pc = "outbox" =>
                mails[m].type = MailType(call[m].kind) /\ mails[m].user = call[m].user
    /\ \A c \in Calls : call[c].kind \in Mailing /\ call[c].pc \in BeforeOutbox =>
          /\ call[c].user \in Users
          /\ call[c].pc # "user" => users[call[c].user].exists

\* A request that is about to insert the only code.
ClearedCodes(c) ==
    \/ call[c].kind = "register" /\ call[c].pc \in {"session", "code"}
    \/ call[c].kind = "resend" /\ call[c].pc \in {"invalidate", "code"} /\ "codes" \notin call[c].todo

CodeInv ==
    \A u \in Users :
        /\ Cardinality(LiveCodes(u)) <= 1 + Cardinality(PastCode(u))
        /\ \A c \in Calls : call[c].user = u /\ ~call[c].overlapped /\ ClearedCodes(c) =>
              LiveCodes(u) = {}

RecentMails(u) == {m \in RegisterMails(u) : mails[m].createdAt + BlockWindow > now}

\* A request that has found room for its mail.
Admitted(c) ==
    \/ call[c].kind = "register" /\ call[c].pc \in {"session", "code", "outbox"}
    \/ call[c].kind = "resend" /\ call[c].pc \in {"invalidate", "code", "outbox"}

QuotaInv ==
    \A u \in Users :
        /\ Cardinality(RecentMails(u)) <= MaxPerDay + Cardinality(PastOutbox(u))
        /\ \A c \in Calls : call[c].user = u /\ ~call[c].overlapped /\ Admitted(c) =>
              Cardinality(RecentMails(u)) + 1 <= MaxPerDay + Cardinality(PastOutbox(u))

(* ------------------------ Counting with a credit ------------------------- *)

\* The sets that are counted are finite.
LEMMA FiniteCounts ==
    /\ \A u : IsFiniteSet(ActiveDevices(u)) /\ IsFiniteSet(LiveCodes(u))
              /\ IsFiniteSet(RecentMails(u)) /\ IsFiniteSet(RegisterMails(u))
    /\ \A kinds, pcs, u : IsFiniteSet(Past(kinds, pcs, u)) /\ IsFiniteSet(Past(kinds, pcs, u)')
<1>1. \A S \in SUBSET Calls : IsFiniteSet(S)
  BY AccountConstants, FS_Subset
<1>2. \A S \in SUBSET Fingerprints : IsFiniteSet(S)
  BY AccountConstants, FS_Subset
<1>3. \A u : ActiveDevices(u) \in SUBSET Fingerprints
  BY DEF ActiveDevices
<1>4. \A u : LiveCodes(u) \in SUBSET Calls /\ RegisterMails(u) \in SUBSET Calls
             /\ RecentMails(u) \in SUBSET Calls
  BY DEF LiveCodes, RecentMails, RegisterMails
<1>5. \A kinds, pcs, u : Past(kinds, pcs, u) \in SUBSET Calls
                         /\ Past(kinds, pcs, u)' \in SUBSET Calls
  BY DEF Past
<1> QED BY <1>1, <1>2, <1>3, <1>4, <1>5

(* --------------------------- Overlapping requests ------------------------ *)

\* Two requests become rivals only by the arrival of one of them.
LEMMA PeersStep ==
    ASSUME TypeInv, KindInv, PeersInv, [Next]_identityVars
    PROVE  PeersInv'
<1>t. TypeOK /\ call \in [Calls -> Call]
  BY DEF TypeInv, TypeOK, AccountsTypeOK
<1> SUFFICES ASSUME NEW c \in Calls, NEW d \in Calls, Rivals(c, d)'
             PROVE  call'[c].overlapped
  BY DEF PeersInv
<1>r. /\ c # d /\ call'[c].pc \in Steps /\ call'[d].pc \in Steps /\ call'[c].user = call'[d].user
      /\ \E family \in Families : {call'[c].kind, call'[d].kind} \subseteq family
  BY DEF Rivals, UnderWay
<1>i. ASSUME call[c].pc \in Steps, call[d].pc \in Steps, call[c].user = call[d].user,
             \E family \in Families : {call[c].kind, call[d].kind} \subseteq family
      PROVE  call[c].overlapped
  BY <1>i, <1>r DEF PeersInv, Rivals, UnderWay
<1>1. CASE UNCHANGED call
  BY <1>1, <1>i, <1>r
<1>2. CASE \E e \in Calls : FirstStep(e)
  <2>1. PICK e \in Calls : FirstStep(e)
    BY <1>2
  <2>2. Arrives(e)
    BY <1>t, <2>1, Starts DEF FirstStep
  <2>3. \A x \in Calls : x # e => /\ call'[x].pc = call[x].pc /\ call'[x].kind = call[x].kind
                                  /\ call'[x].user = call[x].user
                                  /\ call[x].overlapped => call'[x].overlapped
    BY <2>2 DEF Arrives, Same, Meets
  <2>4. CASE c # e /\ d # e
    BY <1>i, <1>r, <2>3, <2>4
  <2>5. ASSUME NEW x \in Calls, x # e, x \in Peers(call'[e].kind, call'[e].user)
        PROVE  call'[x].overlapped /\ call'[e].overlapped
    BY <2>2, <2>5 DEF Arrives, Meets
  <2>6. CASE d = e
    <3>1. c \in Peers(call'[e].kind, call'[e].user)
      BY <1>r, <2>3, <2>6 DEF Peers, UnderWay
    <3> QED BY <1>r, <2>5, <2>6, <3>1
  <2>7. CASE c = e
    <3>1. d \in Peers(call'[e].kind, call'[e].user)
      BY <1>r, <2>3, <2>7 DEF Peers, UnderWay
    <3> QED BY <1>r, <2>5, <2>7, <3>1
  <2> QED BY <2>4, <2>6, <2>7
<1>3. CASE \E e \in Calls : LaterStep(e)
  <2>1. PICK e \in Calls : LaterStep(e)
    BY <1>3
  <2>2. (\A x \in Calls : x # e => call'[x] = call[x]) /\ StepMove(call[e], call'[e])
    BY <1>t, <2>1, StepMoves
  <2>3. call'[e].pc \in Steps =>
           /\ call[e].pc \in Steps /\ call'[e].kind = call[e].kind
           /\ call'[e].user = call[e].user /\ call'[e].overlapped = call[e].overlapped
    <3>1. KindOK(call[e])
      BY DEF KindInv
    <3>2. call'[e] = Answered => call'[e].pc \notin Steps
      BY EmptyRows DEF Steps
    <3>3. <<call[e].pc, call'[e].pc>> \in PcMoves => call[e].pc \in Steps
      BY DEF PcMoves, Steps
    <3> QED BY <2>2, <3>1, <3>2, <3>3 DEF StepMove, Keeps, KindOK, Steps
  <2>4. \A x \in {c, d} :
           /\ call[x].pc \in Steps /\ call'[x].kind = call[x].kind
           /\ call'[x].user = call[x].user /\ call'[x].overlapped = call[x].overlapped
    BY <1>r, <2>2, <2>3
  <2> QED BY <1>i, <1>r, <2>4
<1> QED BY <1>1, <1>2, <1>3, Split DEF Tick

\* The credit only grows: no request forgets what it has overlapped, or goes
\* back.
LEMMA PastGrows ==
    ASSUME TypeInv, KindInv, [Next]_identityVars,
           NEW kinds \in SUBSET {"login", "register", "resend"}, NEW pcs \in SUBSET Steps,
           "resend" \in kinds => "quota" \in pcs,
           \A c \in Calls : StepMove(call[c], call'[c]) =>
              (call[c].kind \in kinds /\ call'[c].pc \in pcs => call[c].pc \in pcs)
    PROVE  \A u : Past(kinds, pcs, u) \subseteq Past(kinds, pcs, u)'
<1>t. TypeOK /\ call \in [Calls -> Call]
  BY DEF TypeInv, TypeOK, AccountsTypeOK
<1> SUFFICES ASSUME NEW u, NEW c \in Calls, call[c].kind \in kinds, call[c].user = u,
                    call[c].overlapped, call[c].pc \notin pcs
             PROVE  /\ call'[c].kind \in kinds /\ call'[c].user = u
                    /\ call'[c].overlapped /\ call'[c].pc \notin pcs
  BY DEF Past
<1>k. KindOK(call[c])
  BY DEF KindInv
<1>1. CASE UNCHANGED call
  BY <1>1
<1>2. CASE \E e \in Calls : FirstStep(e)
  <2>1. PICK e \in Calls : FirstStep(e)
    BY <1>2
  <2>2. Arrives(e)
    BY <1>t, <2>1, Starts DEF FirstStep
  <2>3. c # e
    BY <1>k, <2>2 DEF Arrives, KindOK
  <2> QED BY <2>2, <2>3 DEF Arrives, Same, Meets
<1>3. CASE \E e \in Calls : LaterStep(e)
  <2>1. PICK e \in Calls : LaterStep(e)
    BY <1>3
  <2>2. (\A x \in Calls : x # e => call'[x] = call[x]) /\ StepMove(call[e], call'[e])
    BY <1>t, <2>1, StepMoves
  <2>3. CASE c # e
    BY <2>2, <2>3
  <2>4. CASE c = e
    <3>1. StepMove(call[c], call'[c])
      BY <2>2, <2>4
    <3>2. call'[c].pc \notin pcs
      BY <3>1
    <3>3. /\ call'[c].kind = call[c].kind /\ call'[c].user = call[c].user
          /\ call'[c].overlapped = call[c].overlapped
      BY <1>k, <3>1 DEF StepMove, Keeps, KindOK
    <3> QED BY <3>2, <3>3
  <2> QED BY <2>3, <2>4
<1> QED BY <1>1, <1>2, <1>3, Split DEF Tick

\* All three credits grow.
LEMMA CreditsGrow ==
    ASSUME TypeInv, KindInv, [Next]_identityVars
    PROVE  \A u : /\ PastDevice(u) \subseteq PastDevice(u)'
                  /\ PastCode(u) \subseteq PastCode(u)'
                  /\ PastOutbox(u) \subseteq PastOutbox(u)'
<1>k. \A c \in Calls : KindOK(call[c])
  BY DEF KindInv
<1>s. /\ BeforeDevice \in SUBSET Steps /\ BeforeCode \in SUBSET Steps
      /\ BeforeOutbox \in SUBSET Steps /\ "quota" \in BeforeCode /\ "quota" \in BeforeOutbox
  BY DEF BeforeDevice, BeforeCode, BeforeOutbox, Steps
<1>1. ASSUME NEW c \in Calls, StepMove(call[c], call'[c])
      PROVE  /\ call[c].kind = "login" /\ call'[c].pc \in BeforeDevice => call[c].pc \in BeforeDevice
             /\ call[c].kind \in {"register", "resend"} /\ call'[c].pc \in BeforeCode =>
                   call[c].pc \in BeforeCode
             /\ call[c].kind \in {"register", "resend"} /\ call'[c].pc \in BeforeOutbox =>
                   call[c].pc \in BeforeOutbox
  BY <1>1, <1>k, EmptyRows
  DEF StepMove, PcMoves, KindOK, BeforeDevice, BeforeCode, BeforeOutbox
<1>2. \A u : PastDevice(u) \subseteq PastDevice(u)'
  <2>1. PICK kinds \in SUBSET {"login", "register", "resend"} : kinds = {"login"}
    OBVIOUS
  <2>2. \A c \in Calls : StepMove(call[c], call'[c]) =>
           (call[c].kind \in kinds /\ call'[c].pc \in BeforeDevice => call[c].pc \in BeforeDevice)
    BY <1>1, <2>1
  <2>3. \A u : Past(kinds, BeforeDevice, u) \subseteq Past(kinds, BeforeDevice, u)'
    BY <1>s, <2>1, <2>2, PastGrows
  <2> QED BY <2>1, <2>3 DEF PastDevice
<1>3. \A u : PastCode(u) \subseteq PastCode(u)'
  <2>1. PICK kinds \in SUBSET {"login", "register", "resend"} : kinds = {"register", "resend"}
    OBVIOUS
  <2>2. \A c \in Calls : StepMove(call[c], call'[c]) =>
           (call[c].kind \in kinds /\ call'[c].pc \in BeforeCode => call[c].pc \in BeforeCode)
    BY <1>1, <2>1
  <2>3. \A u : Past(kinds, BeforeCode, u) \subseteq Past(kinds, BeforeCode, u)'
    BY <1>s, <2>1, <2>2, PastGrows
  <2> QED BY <2>1, <2>3 DEF PastCode
<1>4. \A u : PastOutbox(u) \subseteq PastOutbox(u)'
  <2>1. PICK kinds \in SUBSET {"login", "register", "resend"} : kinds = {"register", "resend"}
    OBVIOUS
  <2>2. \A c \in Calls : StepMove(call[c], call'[c]) =>
           (call[c].kind \in kinds /\ call'[c].pc \in BeforeOutbox => call[c].pc \in BeforeOutbox)
    BY <1>1, <2>1
  <2>3. \A u : Past(kinds, BeforeOutbox, u) \subseteq Past(kinds, BeforeOutbox, u)'
    BY <1>s, <2>1, <2>2, PastGrows
  <2> QED BY <2>1, <2>3 DEF PastOutbox
<1> QED BY <1>2, <1>3, <1>4

(* -------------------------------- Devices -------------------------------- *)

\* How the active devices of a user can change.
DeviceMove(u) ==
    \/ ActiveDevices(u)' = ActiveDevices(u)
    \/ \E c \in Calls : /\ RevokeOldestDevice(c) /\ call[c].user = u
                        /\ ActiveDevices(u)' = ActiveDevices(u) \ {call[c].oldest}
    \/ \E c \in Calls : /\ SaveDevice(c) /\ call[c].user = u /\ call[c].seen # "active"
                        /\ call'[c].pc = "session"
                        /\ ActiveDevices(u)' = ActiveDevices(u) \union {call[c].device}

\* Devices change in these ways only.
LEMMA DeviceMoves ==
    ASSUME TypeInv, DeviceInv, NEW c \in Calls, LaterStep(c)
    PROVE  \A u \in Users : DeviceMove(u)
<1>t. /\ devices \in [Users -> [Fingerprints -> DeviceRow]] /\ call \in [Calls -> Call]
      /\ call[c] \in Call
  BY DEF TypeInv, TypeOK, AccountsTypeOK
<1> SUFFICES ASSUME NEW u \in Users PROVE DeviceMove(u)
  OBVIOUS
<1>1. CASE UNCHANGED devices
  BY <1>1 DEF DeviceMove, ActiveDevices
<1>2. CASE RevokeOldestDevice(c)
  <2>1. /\ call[c].user \in Users /\ call[c].oldest \in Fingerprints
        /\ devices' = [devices EXCEPT ![call[c].user][call[c].oldest].status = "revoked"]
    BY <1>2 DEF RevokeOldestDevice, At, DeviceInv, BeforeDevice
  <2>2. PICK w \in Users, g \in Fingerprints : w = call[c].user /\ g = call[c].oldest
    BY <2>1
  <2>3. \A f \in Fingerprints :
           devices'[u][f].status = IF u = w /\ f = g THEN "revoked" ELSE devices[u][f].status
    BY <1>t, <2>1, <2>2 DEF DeviceRow
  <2>4. CASE u = w
    BY <1>2, <2>2, <2>3, <2>4 DEF DeviceMove, ActiveDevices
  <2>5. CASE u # w
    BY <2>3, <2>5 DEF DeviceMove, ActiveDevices
  <2> QED BY <2>4, <2>5
<1>3. CASE SaveDevice(c) /\ ~UNCHANGED devices
  <2>1. /\ call[c].user \in Users /\ call[c].device \in Fingerprints
        /\ devices' = [devices EXCEPT ![call[c].user][call[c].device] =
                     [status |-> IF call[c].seen = "active" THEN @.status ELSE "active",
                      lastSeenAt |-> call[c].at]]
        /\ call' = [call EXCEPT ![c].pc = "session", ![c].device = NULL,
                                ![c].seen = "none", ![c].at = 0]
    BY <1>3 DEF SaveDevice, At, DeviceInv, BeforeDevice
  <2>2. PICK w \in Users, g \in Fingerprints : w = call[c].user /\ g = call[c].device
    BY <2>1
  <2>3. \A f \in Fingerprints : devices'[u][f].status =
           IF u = w /\ f = g /\ call[c].seen # "active" THEN "active" ELSE devices[u][f].status
    BY <1>t, <2>1, <2>2 DEF DeviceRow
  <2>4. call'[c].pc = "session"
    BY <1>t, <2>1 DEF Call
  <2>5. CASE u = w /\ call[c].seen # "active"
    BY <1>3, <2>2, <2>3, <2>4, <2>5 DEF DeviceMove, ActiveDevices
  <2>6. CASE ~(u = w /\ call[c].seen # "active")
    BY SMTT(30), <2>3, <2>6 DEF DeviceMove, ActiveDevices
  <2> QED BY SMTT(30), <2>5, <2>6
<1> QED BY <1>1, <1>2, <1>3, Writes

\* A request that works on devices after a step was there before, or has just
\* come in.
LEMMA LoginMoves ==
    ASSUME TypeInv, KindInv, DeviceInv, NEW c \in Calls, LaterStep(c),
           call'[c].pc \in BeforeDevice
    PROVE  /\ call'[c].user = call[c].user /\ call'[c].device = call[c].device
           /\ call'[c].seen = call[c].seen /\ call'[c].overlapped = call[c].overlapped
           /\ call[c].user \in Users /\ call[c].device \in Fingerprints
           /\ \/ CountDevices(c) /\ (call'[c].pc = "device" => ~TooMany(call[c].user))
                 /\ call'[c].pc # "revoke"
              \/ /\ FindOldestDevice(c)
                 /\ \/ call'[c].pc = "device" /\ ActiveDevices(call[c].user) = {}
                    \/ call'[c].pc = "revoke" /\ call'[c].oldest \in ActiveDevices(call[c].user)
              \/ RevokeOldestDevice(c) /\ call'[c].pc = "device"
<1>t. /\ TypeOK /\ call \in [Calls -> Call] /\ call[c] \in Call /\ KindOK(call[c])
  BY DEF TypeInv, TypeOK, AccountsTypeOK, KindInv
<1>1. call[c].pc \in BeforeDevice
  <2>1. StepMove(call[c], call'[c])
    BY <1>t, StepMoves
  <2> QED BY <1>t, <2>1, EmptyRows DEF StepMove, PcMoves, KindOK, BeforeDevice
<1>2. call[c].user \in Users /\ call[c].device \in Fingerprints
  BY <1>1 DEF DeviceInv
<1>3. CASE CountDevices(c)
  <2>1. PICK pc \in {"oldest", "device"} :
           Goto(c, pc) /\ (pc = "device" => ~TooMany(call[c].user))
    BY <1>3 DEF CountDevices
  <2>2. /\ call'[c].pc = pc /\ call'[c].user = call[c].user /\ call'[c].device = call[c].device
        /\ call'[c].seen = call[c].seen /\ call'[c].overlapped = call[c].overlapped
    BY <1>t, <2>1 DEF Goto, Call
  <2> QED BY <1>2, <1>3, <2>1, <2>2
<1>4. CASE FindOldestDevice(c)
  <2>1. CASE ActiveDevices(call[c].user) = {} /\ Goto(c, "device")
    BY <1>t, <1>2, <1>4, <2>1 DEF Goto, Call
  <2>2. CASE ~(ActiveDevices(call[c].user) = {} /\ Goto(c, "device"))
    <3>1. PICK f \in ActiveDevices(call[c].user) :
             call' = [call EXCEPT ![c].pc = "revoke", ![c].oldest = f]
      BY <1>4, <2>2 DEF FindOldestDevice
    <3>2. /\ call'[c].pc = "revoke" /\ call'[c].oldest = f
          /\ call'[c].user = call[c].user /\ call'[c].device = call[c].device
          /\ call'[c].seen = call[c].seen /\ call'[c].overlapped = call[c].overlapped
      BY <1>t, <3>1 DEF Call
    <3> QED BY <1>2, <1>4, <3>1, <3>2
  <2> QED BY <2>1, <2>2
<1>5. CASE RevokeOldestDevice(c)
  BY <1>t, <1>2, <1>5 DEF RevokeOldestDevice, Call
<1>6. CASE SaveDevice(c)
  BY <1>t, <1>6 DEF SaveDevice, Goto, Call, BeforeDevice
<1>7. CASE AbortCall(c)
  BY <1>t, <1>7 DEF AbortCall, Goto, Call, BeforeDevice
<1> QED BY <1>t, <1>1, <1>3, <1>4, <1>5, <1>6, <1>7
    DEF LaterStep, LoginSession, ExpireSession, RotateSession, Rotated, RevokeToken, FindForLogout,
        RevokeSession, EndLogout, CreateUser, RegisterSession, CheckQuota, InvalidateCodes,
        CancelMails, EndInvalidate, InsertCode, InsertOutbox, EnqueueMail, ExpireCode, UseCode,
        MarkEmailVerified, UpdatePassword, At, KindOK, BeforeDevice

\* A login that does not overlap counts, revokes and makes its device as if it
\* were alone; one that does is in the credit when its device is made.
LEMMA DeviceStep ==
    ASSUME TypeInv, KindInv, PeersInv, DeviceInv, [Next]_identityVars
    PROVE  DeviceInv'
<1>t. /\ TypeOK /\ call \in [Calls -> Call]
      /\ \A c \in Calls : KindOK(call[c])
      /\ MaxDevices \in Nat /\ MaxDevices >= 1
  BY SessionConstants DEF TypeInv, TypeOK, AccountsTypeOK, KindInv
<1>d. /\ \A c \in Calls : call[c].pc \in BeforeDevice =>
            /\ call[c].user \in Users /\ call[c].device \in Fingerprints
            /\ call[c].pc = "revoke" => call[c].oldest \in Fingerprints
      /\ \A u \in Users :
            Cardinality(ActiveDevices(u)) <= MaxDevices + Cardinality(PastDevice(u))
      /\ \A c \in Calls : call[c].user \in Users /\ ~call[c].overlapped =>
                /\ call[c].pc = "device" /\ call[c].seen # "active" =>
                      Cardinality(ActiveDevices(call[c].user)) + 1
                          <= MaxDevices + Cardinality(PastDevice(call[c].user))
                /\ call[c].pc = "revoke" => call[c].oldest \in ActiveDevices(call[c].user)
  BY DEF DeviceInv
<1>b. "device" \in BeforeDevice /\ "revoke" \in BeforeDevice
  BY DEF BeforeDevice
<1>g. \A u : PastDevice(u) \subseteq PastDevice(u)'
  BY CreditsGrow
<1>f. \A u : /\ IsFiniteSet(ActiveDevices(u)) /\ Cardinality(ActiveDevices(u)) \in Nat
             /\ IsFiniteSet(PastDevice(u)) /\ Cardinality(PastDevice(u)) \in Nat
             /\ IsFiniteSet(PastDevice(u)') /\ Cardinality(PastDevice(u)') \in Nat
  BY FiniteCounts, FS_CardinalityType DEF PastDevice
<1>s. ASSUME
        /\ \A c \in Calls : call'[c].pc \in BeforeDevice =>
              /\ call'[c].user \in Users /\ call'[c].device \in Fingerprints
              /\ call'[c].pc = "revoke" => call'[c].oldest \in Fingerprints
        /\ \A u \in Users :
              /\ Cardinality(ActiveDevices(u)') <= MaxDevices + Cardinality(PastDevice(u)')
              /\ \A c \in Calls : call'[c].user = u /\ ~call'[c].overlapped =>
                    /\ call'[c].pc = "device" /\ call'[c].seen # "active" =>
                          Cardinality(ActiveDevices(u)') + 1
                              <= MaxDevices + Cardinality(PastDevice(u)')
                    /\ call'[c].pc = "revoke" => call'[c].oldest \in ActiveDevices(u)'
      PROVE  DeviceInv'
  BY <1>s DEF DeviceInv
\* A request that is not changed by this step, while the devices lose nothing
\* it knows and gain nothing.
<1>k. ASSUME NEW u \in Users, ActiveDevices(u)' \subseteq ActiveDevices(u)
      PROVE  /\ Cardinality(ActiveDevices(u)') <= MaxDevices + Cardinality(PastDevice(u)')
             /\ Cardinality(ActiveDevices(u)) + 1 <= MaxDevices + Cardinality(PastDevice(u)) =>
                   Cardinality(ActiveDevices(u)') + 1 <= MaxDevices + Cardinality(PastDevice(u)')
  <2>1. PICK A, B, P, Q : A = ActiveDevices(u) /\ B = ActiveDevices(u)'
                          /\ P = PastDevice(u) /\ Q = PastDevice(u)'
    OBVIOUS
  <2>2. /\ IsFiniteSet(A) /\ IsFiniteSet(Q) /\ P \subseteq Q /\ B \subseteq A
        /\ Cardinality(A) <= MaxDevices + Cardinality(P)
    BY <1>d, <1>f, <1>g, <1>k, <2>1
  <2>3. /\ Cardinality(B) <= MaxDevices + Cardinality(Q)
        /\ Cardinality(A) + 1 <= MaxDevices + Cardinality(P) =>
              Cardinality(B) + 1 <= MaxDevices + Cardinality(Q)
    BY <1>t, <2>2, Credit
  <2> QED BY <2>1, <2>3
<1>1. CASE UNCHANGED call /\ UNCHANGED devices
  <2>1. \A u : ActiveDevices(u)' = ActiveDevices(u)
    BY <1>1 DEF ActiveDevices
  <2>2. ASSUME NEW u \in Users, NEW c \in Calls, call'[c].user = u, ~call'[c].overlapped
        PROVE  /\ call'[c].pc = "device" /\ call'[c].seen # "active" =>
                      Cardinality(ActiveDevices(u)') + 1
                          <= MaxDevices + Cardinality(PastDevice(u)')
               /\ call'[c].pc = "revoke" => call'[c].oldest \in ActiveDevices(u)'
    BY <1>1, <1>d, <1>k, <2>1, <2>2
  <2> QED BY <1>1, <1>d, <1>k, <1>s, <2>1, <2>2
<1>2. ASSUME NEW e \in Calls, FirstStep(e), UNCHANGED devices
      PROVE  DeviceInv'
  <2>1. \A u : ActiveDevices(u)' = ActiveDevices(u)
    BY <1>2 DEF ActiveDevices
  <2>2. Arrives(e)
    BY <1>t, <1>2, Starts DEF FirstStep
  <2>3. \A c \in Calls : c # e => /\ Same(call[c], call'[c])
                                  /\ call[c].overlapped => call'[c].overlapped
    BY <2>2 DEF Arrives, Meets
  <2>4. call'[e] = Answered \/ Started(call'[e])
    BY <2>2 DEF Arrives
  <2>5. call'[e].pc \in BeforeDevice =>
           /\ call'[e].user \in Users /\ call'[e].device \in Fingerprints
           /\ call'[e].pc # "revoke" /\ (call'[e].pc = "device" => call'[e].seen = "active")
    BY <2>4, EmptyRows DEF Started, BeforeDevice
  <2>6. ASSUME NEW u \in Users, NEW c \in Calls, call'[c].user = u, ~call'[c].overlapped
        PROVE  /\ call'[c].pc = "device" /\ call'[c].seen # "active" =>
                      Cardinality(ActiveDevices(u)') + 1
                          <= MaxDevices + Cardinality(PastDevice(u)')
               /\ call'[c].pc = "revoke" => call'[c].oldest \in ActiveDevices(u)'
    <3>1. CASE c = e
      BY <1>b, <2>5, <3>1
    <3>2. CASE c # e
      <4>1. /\ call[c].user = u /\ ~call[c].overlapped /\ call'[c].pc = call[c].pc
            /\ call'[c].seen = call[c].seen /\ call'[c].oldest = call[c].oldest
        BY <2>3, <2>6, <3>2 DEF Same
      <4> QED BY <1>d, <1>k, <2>1, <4>1
    <3> QED BY <3>1, <3>2
  <2>7. \A c \in Calls : call'[c].pc \in BeforeDevice =>
              /\ call'[c].user \in Users /\ call'[c].device \in Fingerprints
              /\ call'[c].pc = "revoke" => call'[c].oldest \in Fingerprints
    BY <1>d, <2>3, <2>5 DEF Same
  <2>8. \A u \in Users :
              /\ Cardinality(ActiveDevices(u)') <= MaxDevices + Cardinality(PastDevice(u)')
              /\ \A c \in Calls : call'[c].user = u /\ ~call'[c].overlapped =>
                    /\ call'[c].pc = "device" /\ call'[c].seen # "active" =>
                          Cardinality(ActiveDevices(u)') + 1
                              <= MaxDevices + Cardinality(PastDevice(u)')
                    /\ call'[c].pc = "revoke" => call'[c].oldest \in ActiveDevices(u)'
    BY <1>k, <2>1, <2>6
  <2> QED BY <1>s, <2>7, <2>8
<1>3. ASSUME NEW e \in Calls, LaterStep(e)
      PROVE  DeviceInv'
  <2>1. (\A c \in Calls : c # e => call'[c] = call[c]) /\ StepMove(call[e], call'[e])
    BY <1>t, <1>3, StepMoves
  <2>2. \A u \in Users : DeviceMove(u)
    BY <1>3, DeviceMoves
  \* Two requests at work on the devices of one user overlap.
  <2>3. ASSUME NEW c \in Calls, c # e, call[c].user = call[e].user, call[c].pc \in BeforeDevice,
               call[e].pc \in BeforeDevice
        PROVE  call[c].overlapped
    <3>1. call[c].kind = "login" /\ call[e].kind = "login"
      BY <1>t, <2>3 DEF KindOK, BeforeDevice
    <3>2. call[c].pc \in Steps /\ call[e].pc \in Steps
      BY <2>3 DEF BeforeDevice, Steps
    <3>3. {"login"} \in Families
      BY DEF Families
    <3> QED BY <2>3, <3>1, <3>2, <3>3 DEF PeersInv, Rivals, UnderWay
  <2>4. \A c \in Calls : call'[c].pc \in BeforeDevice =>
              /\ call'[c].user \in Users /\ call'[c].device \in Fingerprints
              /\ call'[c].pc = "revoke" => call'[c].oldest \in Fingerprints
    <3>1. \A u : ActiveDevices(u) \subseteq Fingerprints
      BY DEF ActiveDevices
    <3>2. call'[e].pc \in BeforeDevice =>
              /\ call'[e].user \in Users /\ call'[e].device \in Fingerprints
              /\ call'[e].pc = "revoke" => call'[e].oldest \in Fingerprints
      BY <1>3, <1>t, <3>1, LoginMoves
    <3> QED BY <1>d, <2>1, <3>2
  <2>5. ASSUME NEW u \in Users
        PROVE  Cardinality(ActiveDevices(u)') <= MaxDevices + Cardinality(PastDevice(u)')
    <3>1. CASE ActiveDevices(u)' \subseteq ActiveDevices(u)
      BY <1>k, <3>1
    <3>2. CASE ~(ActiveDevices(u)' \subseteq ActiveDevices(u))
      <4>1. PICK c \in Calls :
               /\ SaveDevice(c) /\ call[c].user = u /\ call[c].seen # "active"
               /\ call'[c].pc = "session"
               /\ ActiveDevices(u)' = ActiveDevices(u) \union {call[c].device}
        BY <2>2, <3>2 DEF DeviceMove
      <4>2. call[c].pc = "device" /\ c = e
        <5>1. call[c].pc = "device"
          BY <4>1 DEF SaveDevice, At
        <5> QED BY <2>1, <4>1, <5>1
      <4>3. StepMove(call[c], call'[c])
        BY <2>1, <4>2
      <4>4. call[c].overlapped => c \in PastDevice(u)' /\ c \notin PastDevice(u)
        <5>1. Keeps(call[c], call'[c]) /\ call[c].kind = "login"
          BY <1>t, <4>1, <4>2, <4>3 DEF StepMove, KindOK, Keeps
        <5> QED BY <4>1, <4>2, <5>1 DEF PastDevice, Past, Keeps, BeforeDevice
      <4>5. ~call[c].overlapped =>
               Cardinality(ActiveDevices(u)) + 1 <= MaxDevices + Cardinality(PastDevice(u))
        BY <1>d, <4>1, <4>2
      <4>6. PICK A, B, P, Q, x : A = ActiveDevices(u) /\ B = ActiveDevices(u)' /\ x = call[c].device
                          /\ P = PastDevice(u) /\ Q = PastDevice(u)'
        OBVIOUS
      <4>7. /\ IsFiniteSet(A) /\ IsFiniteSet(Q) /\ P \subseteq Q /\ B \subseteq A \union {x}
            /\ Cardinality(A) <= MaxDevices + Cardinality(P)
            /\ \/ c \in Q /\ c \notin P
               \/ Cardinality(A) + 1 <= MaxDevices + Cardinality(P)
        BY <1>d, <1>f, <1>g, <4>1, <4>4, <4>5, <4>6
      <4>8. Cardinality(B) <= MaxDevices + Cardinality(Q)
        BY <1>t, <4>7, Credit
      <4> QED BY <4>6, <4>8
    <3> QED BY <3>1, <3>2
  <2>6. ASSUME NEW u \in Users, NEW c \in Calls, call'[c].user = u, ~call'[c].overlapped,
               call'[c].pc = "device", call'[c].seen # "active"
        PROVE  Cardinality(ActiveDevices(u)') + 1 <= MaxDevices + Cardinality(PastDevice(u)')
    <3>1. CASE c = e
      <4>1. /\ call[c].user = u /\ call[c].seen # "active" /\ ~call[c].overlapped
            /\ \/ CountDevices(c) /\ ~TooMany(u)
               \/ FindOldestDevice(c) /\ ActiveDevices(u) = {}
               \/ RevokeOldestDevice(c)
        BY <1>3, <1>b, <2>6, <3>1, LoginMoves
      <4>2. CASE CountDevices(c) /\ ~TooMany(u)
        <5>1. ActiveDevices(u)' = ActiveDevices(u)
          BY <4>2 DEF CountDevices, userTables, ActiveDevices
        <5>2. Cardinality(ActiveDevices(u)) < MaxDevices
          BY <1>f, <1>t, <4>2 DEF TooMany
        <5> QED BY <1>f, <1>t, <5>1, <5>2
      <4>3. CASE FindOldestDevice(c) /\ ActiveDevices(u) = {}
        <5>1. ActiveDevices(u)' = ActiveDevices(u)
          BY <4>3 DEF FindOldestDevice, userTables, ActiveDevices
        <5>2. Cardinality(ActiveDevices(u)') = 0
          BY <4>3, <5>1, FS_EmptySet
        <5> QED BY <1>f, <1>t, <5>2
      <4>4. CASE RevokeOldestDevice(c)
        <5>1. call[c].pc = "revoke"
          BY <4>4 DEF RevokeOldestDevice, At
        <5>2. call[c].oldest \in ActiveDevices(u)
          BY <1>d, <4>1, <5>1
        <5>3. ActiveDevices(u)' = ActiveDevices(u) \ {call[c].oldest}
          <6>1. call[c].oldest \in Fingerprints /\ call[c].user = u
            BY <1>b, <1>d, <4>1, <5>1
          <6>2. devices' = [devices EXCEPT ![call[c].user][call[c].oldest].status = "revoked"]
            BY <4>4 DEF RevokeOldestDevice
          <6>3. devices \in [Users -> [Fingerprints -> DeviceRow]]
            BY <1>t DEF TypeOK, AccountsTypeOK
          <6>4. \A f \in Fingerprints : devices'[u][f].status =
                   IF f = call[c].oldest THEN "revoked" ELSE devices[u][f].status
            BY <6>1, <6>2, <6>3 DEF DeviceRow
          <6> QED BY <6>4 DEF ActiveDevices
        <5>4. Cardinality(ActiveDevices(u)') = Cardinality(ActiveDevices(u)) - 1
          BY ZenonT(30), <1>f, <5>2, <5>3, FS_RemoveElement
        <5>5. Cardinality(PastDevice(u)) <= Cardinality(PastDevice(u)')
          BY <1>f, <1>g, FS_Subset
        <5>6. Cardinality(ActiveDevices(u)) <= MaxDevices + Cardinality(PastDevice(u))
          BY <1>d
        <5> QED BY <1>f, <1>t, <5>4, <5>5, <5>6
      <4> QED BY <4>1, <4>2, <4>3, <4>4
    <3>2. CASE c # e
      <4>1. call[c] = call'[c] /\ call[c].pc \in BeforeDevice
        BY <1>b, <2>1, <2>6, <3>2
      <4>2. Cardinality(ActiveDevices(u)) + 1 <= MaxDevices + Cardinality(PastDevice(u))
        BY <1>d, <2>6, <4>1
      <4>3. ActiveDevices(u)' \subseteq ActiveDevices(u)
        <5>1. ASSUME NEW d \in Calls, SaveDevice(d), call[d].user = u, call'[d].pc = "session"
              PROVE  FALSE
          <6>1. call[d].pc = "device"
            BY <5>1 DEF SaveDevice, At
          <6>2. d = e
            BY <2>1, <5>1, <6>1
          <6> QED BY <1>b, <2>3, <2>6, <3>2, <4>1, <5>1, <6>1, <6>2
        <5> QED BY <2>2, <5>1 DEF DeviceMove
      <4> QED BY <1>k, <4>2, <4>3
    <3> QED BY <3>1, <3>2
  <2>7. ASSUME NEW u \in Users, NEW c \in Calls, call'[c].user = u, ~call'[c].overlapped,
               call'[c].pc = "revoke"
        PROVE  call'[c].oldest \in ActiveDevices(u)'
    <3>1. CASE c = e
      <4>1. call[c].user = u /\ FindOldestDevice(c) /\ call'[c].oldest \in ActiveDevices(u)
        BY <1>3, <1>b, <2>7, <3>1, LoginMoves
      <4> QED BY <4>1 DEF FindOldestDevice, userTables, ActiveDevices
    <3>2. CASE c # e
      <4>1. call[c] = call'[c] /\ call[c].pc \in BeforeDevice
        BY <1>b, <2>1, <2>7, <3>2
      <4>2. call[c].oldest \in ActiveDevices(u)
        BY <1>d, <2>7, <4>1
      <4>3. ActiveDevices(u) \subseteq ActiveDevices(u)'
        <5>1. ASSUME NEW d \in Calls, RevokeOldestDevice(d), call[d].user = u
              PROVE  FALSE
          <6>1. call[d].pc = "revoke" /\ call'[d].pc = "device"
            BY <1>t, <5>1 DEF RevokeOldestDevice, At, Call
          <6>2. d = e
            BY <2>1, <6>1
          <6> QED BY <1>b, <2>3, <2>7, <3>2, <4>1, <5>1, <6>1, <6>2
        <5> QED BY <2>2, <5>1 DEF DeviceMove
      <4> QED BY <4>1, <4>2, <4>3
    <3> QED BY <3>1, <3>2
  <2>8. \A u \in Users :
              /\ Cardinality(ActiveDevices(u)') <= MaxDevices + Cardinality(PastDevice(u)')
              /\ \A c \in Calls : call'[c].user = u /\ ~call'[c].overlapped =>
                    /\ call'[c].pc = "device" /\ call'[c].seen # "active" =>
                          Cardinality(ActiveDevices(u)') + 1
                              <= MaxDevices + Cardinality(PastDevice(u)')
                    /\ call'[c].pc = "revoke" => call'[c].oldest \in ActiveDevices(u)'
    BY <2>5, <2>6, <2>7
  <2> QED BY <1>s, <2>4, <2>8
<1> QED BY <1>1, <1>2, <1>3, Split DEF Tick, userTables

(* ---------------------------- Codes and mails ---------------------------- *)

\* A mail that no request is inserting in this step.
Kept(m) ==
    /\ mails'[m].type = mails[m].type /\ mails'[m].user = mails[m].user
    /\ mails'[m].createdAt = mails[m].createdAt
    /\ mails[m].used => mails'[m].used
    /\ mails[m].status # "NONE" => mails'[m].status # "NONE"
    /\ mails'[m].status # "NONE" => mails[m].status # "NONE" \/ job[m].pc \in JobSteps

\* Rows of codes and mails appear by the two inserts only.
LEMMA MailWrites ==
    ASSUME TypeInv, [Next]_identityVars
    PROVE  \A m \in Calls : Kept(m) \/ InsertCode(m) \/ InsertOutbox(m)
<1>t. mails \in [Calls -> MailRow] /\ call \in [Calls -> Call]
  BY DEF TypeInv, TypeOK, AccountsTypeOK
<1>1. CASE UNCHANGED mails
  BY <1>1 DEF Kept
<1>2. ASSUME NEW c \in Calls, LaterStep(c)
      PROVE  \A m \in Calls : Kept(m) \/ InsertCode(m) \/ InsertOutbox(m)
  <2>1. CASE InsertCode(c) \/ InsertOutbox(c)
    BY <1>t, <2>1 DEF InsertCode, InsertOutbox, Kept
  <2>2. CASE InvalidateCodes(c)
    BY <1>t, <2>2 DEF InvalidateCodes, MarkAllRegisterUsed, Kept, MailRow
  <2>3. CASE CancelMails(c)
    <3>1. \A m \in Calls : mails'[m] = IF m \in RegisterMails(call[c].user)
                                         /\ mails[m].status \in {"PENDING", "SENDING"}
                                       THEN [mails[m] EXCEPT !.status = "CANCELLED"] ELSE mails[m]
      BY <2>3 DEF CancelMails, CancelInProgress
    <3> QED BY <1>t, <3>1 DEF Kept, MailRow, RegisterMails
  <2>4. CASE ExpireCode(c) \/ UseCode(c)
    <3>1. mails' = [mails EXCEPT ![call[c].ref].used = TRUE]
      BY <2>4 DEF ExpireCode, UseCode
    <3> QED BY <1>t, <3>1 DEF Kept, MailRow
  <2> QED BY <1>1, <1>2, <2>1, <2>2, <2>3, <2>4, Writes
<1>3. ASSUME NEW m \in Calls, MailJobStep(m) \/ StallMailJob(m), ~UNCHANGED mails
      PROVE  \A x \in Calls : Kept(x)
  <2>1. job[m].pc \in JobSteps
    BY <1>3
    DEF MailJobStep, StartMailJob, FindMail, UpdateCodeHash, MarkSending, SendMail, MarkSent,
        MarkFailed, StallMailJob, JobSteps
  <2>2. \/ mails' = [mails EXCEPT ![m].codeHash = @ + 1]
        \/ \E status \in {"SENDING", "SENT", "FAILED"} : mails' = [mails EXCEPT ![m].status = status]
    BY <1>3
    DEF MailJobStep, StartMailJob, FindMail, UpdateCodeHash, MarkSending, SendMail, MarkSent,
        MarkFailed, StallMailJob, SetStatus
  <2> QED BY <1>t, <2>1, <2>2 DEF Kept, MailRow
<1> QED BY <1>1, <1>2, <1>3, Split

\* No user is ever deleted.
LEMMA UsersStay ==
    ASSUME TypeInv, [Next]_identityVars, NEW u \in Users, users[u].exists
    PROVE  users'[u].exists
<1>t. users \in [Users -> UserRow]
  BY DEF TypeInv, TypeOK, AccountsTypeOK
<1>1. ASSUME NEW c \in Calls, LaterStep(c)
      PROVE  users'[u].exists
  <2>1. CASE CreateUser(c)
    BY <1>t, <2>1 DEF CreateUser, UserRow
  <2>2. CASE MarkEmailVerified(c) \/ UpdatePassword(c)
    BY <1>t, <2>2 DEF MarkEmailVerified, UpdatePassword, UserRow
  <2> QED BY <1>1, <2>1, <2>2, Writes
<1> QED BY <1>1, Split DEF userTables

\* How a request that makes codes for an address comes to its steps.
LEMMA MailingMoves ==
    ASSUME TypeInv, KindInv, NEW c \in Calls, LaterStep(c),
           call'[c].kind \in Mailing, call'[c].pc \in BeforeOutbox
    PROVE  /\ call'[c].kind = call[c].kind /\ call'[c].user = call[c].user
           /\ call'[c].overlapped = call[c].overlapped /\ call[c].pc \in BeforeOutbox
           /\ \/ CreateUser(c) /\ call'[c].pc = "session" /\ ~users[call[c].user].exists
              \/ RegisterSession(c) /\ call'[c].pc = "code" /\ call[c].kind = "register"
              \/ CheckQuota(c) /\ call'[c].pc = "invalidate" /\ ~QuotaUsedUp(call[c].user)
                    /\ "codes" \in call'[c].todo
              \/ InvalidateCodes(c) /\ call'[c].pc = "invalidate"
              \/ CancelMails(c) /\ call'[c].pc = "invalidate"
                    /\ call'[c].todo = call[c].todo \ {"outbox"}
              \/ EndInvalidate(c) /\ call'[c].pc = "code" /\ call[c].todo = {}
              \/ InsertCode(c) /\ call'[c].pc = "outbox"
<1>t. /\ TypeOK /\ call \in [Calls -> Call] /\ call[c] \in Call /\ KindOK(call[c])
  BY DEF TypeInv, TypeOK, AccountsTypeOK, KindInv
<1>m. StepMove(call[c], call'[c])
  BY <1>t, StepMoves
<1>1. /\ call'[c].kind = call[c].kind /\ call'[c].user = call[c].user
      /\ call'[c].overlapped = call[c].overlapped
  BY <1>m, EmptyRows DEF StepMove, Keeps, Mailing
<1>2. call[c].pc \in BeforeOutbox
  BY <1>t, <1>m, <1>1, EmptyRows
  DEF StepMove, PcMoves, KindOK, BeforeOutbox, BeforeCode, Mailing
<1>k. \A k : call' = [call EXCEPT ![c].todo = @ \ {k}] =>
                call'[c].pc = call[c].pc /\ call'[c].todo = call[c].todo \ {k}
  BY <1>t DEF Call
<1>g. \A pc : Goto(c, pc) => call'[c].pc = pc
  BY <1>t DEF Goto, Call
<1>3. CASE CreateUser(c)
  BY <1>1, <1>2, <1>3, <1>g DEF CreateUser, BeforeOutbox, BeforeCode
<1>4. CASE RegisterSession(c)
  BY <1>1, <1>2, <1>4, <1>g DEF RegisterSession, At
<1>5. CASE InvalidateCodes(c) \/ CancelMails(c)
  <2>1. call[c].pc = "invalidate"
    BY <1>t, <1>2, <1>5 DEF InvalidateCodes, CancelMails, KindOK, BeforeOutbox, BeforeCode
  <2> QED BY <1>1, <1>2, <1>5, <1>k, <2>1 DEF InvalidateCodes, CancelMails
<1>6. CASE EndInvalidate(c) \/ InsertCode(c)
  BY <1>1, <1>2, <1>6, <1>g DEF EndInvalidate, InsertCode
<1>7. CASE AbortCall(c)
  BY <1>7, <1>g DEF AbortCall, BeforeOutbox, BeforeCode
<1>8. CASE InsertOutbox(c) \/ EnqueueMail(c) \/ LoginSession(c)
  BY <1>8, <1>g DEF InsertOutbox, EnqueueMail, LoginSession, BeforeOutbox, BeforeCode
<1>9. CASE RevokeToken(c) \/ FindForLogout(c) \/ RevokeSession(c)
  BY SMTT(30), <1>t, <1>2, <1>9
  DEF RevokeToken, FindForLogout, RevokeSession, KindOK, BeforeOutbox, BeforeCode
<1>11. CASE CheckQuota(c)
  <2>1. call' # [call EXCEPT ![c] = Answered]
    BY <1>t, EmptyRows DEF Mailing
  <2>2. ~QuotaUsedUp(call[c].user)
        /\ call' = [call EXCEPT ![c].pc = "invalidate", ![c].todo = {"codes", "outbox"}]
    BY <1>11, <2>1 DEF CheckQuota
  <2>3. call'[c].pc = "invalidate" /\ "codes" \in call'[c].todo
    BY <1>t, <2>2 DEF Call
  <2> QED BY <1>1, <1>2, <1>11, <2>2, <2>3
<1>10. CASE ~(\/ CreateUser(c) \/ RegisterSession(c) \/ CheckQuota(c)
              \/ InvalidateCodes(c) \/ CancelMails(c)
              \/ EndInvalidate(c) \/ InsertCode(c) \/ AbortCall(c) \/ InsertOutbox(c)
              \/ EnqueueMail(c) \/ LoginSession(c) \/ RevokeToken(c) \/ FindForLogout(c)
              \/ RevokeSession(c))
  BY ZenonT(30), <1>t, <1>2, <1>10
  DEF LaterStep, CountDevices, FindOldestDevice, RevokeOldestDevice, SaveDevice,
      ExpireSession, RotateSession, Rotated, EndLogout, ExpireCode, UseCode, MarkEmailVerified,
      UpdatePassword, At, BeforeOutbox, BeforeCode
<1> QED BY <1>3, <1>4, <1>5, <1>6, <1>7, <1>8, <1>9, <1>10, <1>11

\* The inserts are the only way to the steps that follow them.
LEMMA InsertMoves ==
    ASSUME TypeInv, KindInv, NEW c \in Calls, LaterStep(c)
    PROVE  /\ call'[c].pc = "outbox" => InsertCode(c)
           /\ call'[c].pc = "enqueue" => InsertOutbox(c)
           /\ call'[c].pc \in {"outbox", "enqueue"} =>
                 call'[c].kind = call[c].kind /\ call'[c].user = call[c].user
<1>t. /\ TypeOK /\ call \in [Calls -> Call] /\ call[c] \in Call /\ KindOK(call[c])
  BY DEF TypeInv, TypeOK, AccountsTypeOK, KindInv
<1>m. StepMove(call[c], call'[c])
  BY <1>t, StepMoves
<1>1. ASSUME call'[c].pc \in {"outbox", "enqueue"}
      PROVE  /\ call[c].pc = IF call'[c].pc = "outbox" THEN "code" ELSE "outbox"
             /\ call'[c].kind = call[c].kind /\ call'[c].user = call[c].user
  BY SMTT(30), <1>t, <1>m, <1>1, EmptyRows DEF StepMove, PcMoves, KindOK, Keeps
<1>2. ASSUME call[c].pc \in {"code", "outbox"}, call'[c].pc # "error"
      PROVE  InsertCode(c) \/ InsertOutbox(c)
  <2>1. ~AbortCall(c)
    BY <1>t, <1>2 DEF AbortCall, Goto, Call
  <2> QED BY ZenonT(30), <1>t, <1>2, <2>1
      DEF LaterStep, CountDevices, FindOldestDevice, RevokeOldestDevice, SaveDevice, LoginSession,
          ExpireSession, RotateSession, Rotated, RevokeToken, FindForLogout, RevokeSession, EndLogout,
          CreateUser, RegisterSession, CheckQuota, InvalidateCodes, CancelMails, EndInvalidate,
          EnqueueMail, ExpireCode, UseCode, MarkEmailVerified, UpdatePassword, At, KindOK
<1> QED BY <1>1, <1>2 DEF InsertCode, InsertOutbox

\* A request that comes in leaves the mails alone, and the others where they
\* are.
LEMMA FirstSteps ==
    ASSUME TypeInv, [Next]_identityVars, NEW e \in Calls, FirstStep(e)
    PROVE  /\ \A c \in Calls : c # e => /\ Same(call[c], call'[c])
                                        /\ call[c].overlapped => call'[c].overlapped
           /\ call'[e] = Answered \/ Started(call'[e])
           /\ UNCHANGED <<users, mails, now>>
<1>1. TypeOK
  BY DEF TypeInv
<1>2. Arrives(e)
  BY SMTT(30), <1>1, Starts DEF FirstStep
<1>3. UNCHANGED <<users, mails, now>>
  BY ZenonT(30) DEF FirstStep, StartRegister, StartResend, StartForgot, StartVerify, StartValidate,
         StartReset, StartLogin, StartRefresh, StartLogout, StartChange, userTables
<1> QED BY <1>2, <1>3 DEF Arrives, Meets

\* The rows keep saying what the requests are about.
LEMMA RowStep ==
    ASSUME TypeInv, KindInv, MailInv, RowInv, [Next]_identityVars
    PROVE  RowInv'
<1>t. /\ TypeOK /\ call \in [Calls -> Call] /\ mails \in [Calls -> MailRow]
      /\ users \in [Users -> UserRow] /\ \A c \in Calls : KindOK(call[c])
  BY DEF TypeInv, TypeOK, AccountsTypeOK, KindInv
<1>m. \A m \in Calls : /\ JobMove(m) /\ CallMove(m)
                       /\ Kept(m) \/ InsertCode(m) \/ InsertOutbox(m)
  BY Moves, MailWrites
<1>i. \A m \in Calls :
          /\ job[m].pc # "none" \/ call[m].pc = "enqueue" => mails[m].status # "NONE"
          /\ mails[m].type = "REGISTER" => mails[m].user \in Users /\ users[mails[m].user].exists
          /\ call[m].pc = "outbox" =>
                mails[m].type = MailType(call[m].kind) /\ mails[m].user = call[m].user
          /\ call[m].kind \in Mailing /\ call[m].pc \in BeforeOutbox =>
                /\ call[m].user \in Users
                /\ call[m].pc # "user" => users[call[m].user].exists
  BY DEF RowInv
<1>c. ASSUME NEW m \in Calls, InsertCode(m)
      PROVE  /\ call[m].pc = "code" /\ call'[m].pc = "outbox" /\ job'[m].pc = "none"
             /\ mails'[m].type = MailType(call[m].kind) /\ mails'[m].user = call[m].user
  <2>1. call[m].pc = "code" /\ call'[m].pc = "outbox"
    BY <1>t, <1>c DEF InsertCode, Goto, Call
  <2>2. job'[m].pc = "none"
    BY <1>c, <2>1 DEF InsertCode, MailInv, Steps, verificationVars
  <2>3. mails'[m] = [NoMail EXCEPT !.type = MailType(call[m].kind), !.user = call[m].user,
                          !.expiresAt = ExpiresAt(CodeTTL)]
    BY <1>t, <1>c DEF InsertCode
  <2> QED BY <2>1, <2>2, <2>3 DEF NoMail
<1>o. ASSUME NEW m \in Calls, InsertOutbox(m)
      PROVE  /\ call[m].pc = "outbox" /\ call'[m].pc = "enqueue"
             /\ mails'[m].status = "PENDING" /\ mails'[m].type = mails[m].type
             /\ mails'[m].user = mails[m].user
  BY <1>t, <1>o DEF InsertOutbox, Goto, Call, MailRow
\* Where every request is after the step.
<1>w. ASSUME NEW m \in Calls
      PROVE  \/ /\ call'[m].pc = call[m].pc /\ call'[m].kind = call[m].kind
                /\ call'[m].user = call[m].user
             \/ call'[m] = Answered \/ Started(call'[m])
             \/ LaterStep(m)
  <2>1. CASE UNCHANGED call
    BY <2>1
  <2>2. CASE \E e \in Calls : FirstStep(e)
    BY <2>2, FirstSteps DEF Same
  <2>3. CASE \E e \in Calls : LaterStep(e)
    BY <1>t, <2>3, StepMoves
  <2> QED BY <2>1, <2>2, <2>3, Split DEF Tick
<1>1. ASSUME NEW m \in Calls, job'[m].pc # "none" \/ call'[m].pc = "enqueue"
      PROVE  mails'[m].status # "NONE"
  <2>1. CASE InsertCode(m)
    BY <1>1, <1>c, <2>1
  <2>2. CASE InsertOutbox(m)
    BY <1>o, <2>2
  <2>3. CASE Kept(m) /\ mails[m].status # "NONE"
    BY <2>3 DEF Kept
  <2>4. CASE mails[m].status = "NONE" /\ ~InsertOutbox(m)
    <3>1. job[m].pc = "none" /\ call[m].pc # "enqueue"
      BY <1>i, <2>4
    <3>2. job'[m].pc = "none"
      BY <1>m, <3>1 DEF JobMove
    <3>3. call'[m].pc # "enqueue"
      BY <1>w, <2>4, <3>1, InsertMoves, EmptyRows DEF Started
    <3> QED BY <1>1, <3>2, <3>3
  <2> QED BY <1>m, <2>1, <2>2, <2>3, <2>4
<1>2. ASSUME NEW m \in Calls, mails'[m].type = "REGISTER"
      PROVE  mails'[m].user \in Users /\ users'[mails'[m].user].exists
  <2>1. CASE InsertCode(m)
    <3>1. call[m].kind \in Mailing
      BY <1>2, <1>c, <1>t, <2>1 DEF MailType, KindOK, Mailing
    <3>2. call[m].user \in Users /\ users[call[m].user].exists
      BY <1>c, <1>i, <2>1, <3>1 DEF BeforeOutbox, BeforeCode
    <3> QED BY <1>c, <2>1, <3>2, UsersStay
  <2>2. CASE InsertOutbox(m) \/ Kept(m)
    <3>1. mails'[m].type = mails[m].type /\ mails'[m].user = mails[m].user
      BY <1>o, <2>2 DEF Kept
    <3>2. mails[m].user \in Users /\ users[mails[m].user].exists
      BY <1>2, <1>i, <3>1
    <3> QED BY <3>1, <3>2, UsersStay
  <2> QED BY <1>m, <2>1, <2>2
<1>3. ASSUME NEW m \in Calls, call'[m].pc = "outbox"
      PROVE  mails'[m].type = MailType(call'[m].kind) /\ mails'[m].user = call'[m].user
  <2>1. CASE LaterStep(m)
    BY <1>3, <1>c, <2>1, InsertMoves
  <2>2. CASE ~LaterStep(m)
    <3>1. /\ call[m].pc = "outbox" /\ call'[m].kind = call[m].kind
          /\ call'[m].user = call[m].user
      BY <1>3, <1>w, <2>2, EmptyRows DEF Started
    <3>2. Kept(m)
      BY <1>3, <1>c, <1>m, <1>o, <3>1
    <3> QED BY <1>i, <3>1, <3>2 DEF Kept
  <2> QED BY <2>1, <2>2
<1>4. ASSUME NEW c \in Calls, call'[c].kind \in Mailing, call'[c].pc \in BeforeOutbox
      PROVE  /\ call'[c].user \in Users
             /\ call'[c].pc # "user" => users'[call'[c].user].exists
  <2>1. CASE LaterStep(c)
    <3>1. /\ call'[c].kind = call[c].kind /\ call'[c].user = call[c].user
          /\ call[c].pc \in BeforeOutbox
          /\ (CreateUser(c) /\ ~users[call[c].user].exists) \/ call[c].pc # "user"
      BY ZenonT(30), <1>4, <1>t, <2>1, MailingMoves
      DEF RegisterSession, CheckQuota, InvalidateCodes, CancelMails, EndInvalidate, InsertCode, At,
          KindOK
    <3>2. call[c].user \in Users /\ (call[c].pc # "user" => users[call[c].user].exists)
      BY <1>4, <1>i, <3>1
    <3>3. CreateUser(c) /\ ~users[call[c].user].exists => users'[call[c].user].exists
      BY <1>t, <3>2 DEF CreateUser
    <3> QED BY SMTT(30), <3>1, <3>2, <3>3, UsersStay
  <2>2. CASE Started(call'[c])
    <3>1. /\ call'[c].user \in Users
          /\ call'[c].pc # "user" => users[call'[c].user].exists
      BY <1>4, <2>2 DEF Started, Mailing
    <3> QED BY <3>1, UsersStay
  <2>3. CASE /\ call'[c].pc = call[c].pc /\ call'[c].kind = call[c].kind
             /\ call'[c].user = call[c].user
    BY <1>4, <1>i, <2>3, UsersStay
  <2>4. CASE call'[c] = Answered
    BY <1>4, <2>4, EmptyRows DEF Mailing
  <2> QED BY <1>w, <2>1, <2>2, <2>3, <2>4
<1> QED BY <1>1, <1>2, <1>3, <1>4 DEF RowInv

\* A request stands still, comes in or does a step of its own.
LEMMA Where ==
    ASSUME TypeInv, [Next]_identityVars, NEW c \in Calls
    PROVE  \/ Same(call[c], call'[c]) /\ (call[c].overlapped => call'[c].overlapped)
           \/ /\ call'[c] = Answered \/ Started(call'[c])
              /\ UNCHANGED <<users, mails, now>>
           \/ LaterStep(c)
<1>t. TypeOK
  BY DEF TypeInv
<1>1. CASE UNCHANGED call
  BY <1>1 DEF Same
<1>2. CASE \E e \in Calls : FirstStep(e)
  BY <1>2, FirstSteps
<1>3. CASE \E e \in Calls : LaterStep(e)
  <2>1. PICK e \in Calls : LaterStep(e)
    BY <1>3
  <2> QED BY <1>t, <2>1, StepMoves DEF Same
<1> QED BY <1>1, <1>2, <1>3, Split DEF Tick

\* One request steps at a time.
LEMMA OneStep ==
    ASSUME TypeInv, NEW c \in Calls, NEW d \in Calls, LaterStep(c), InsertCode(d) \/ InsertOutbox(d)
    PROVE  c = d
<1>1. TypeOK /\ call \in [Calls -> Call]
  BY DEF TypeInv, TypeOK, AccountsTypeOK
<1>2. call'[d] # call[d]
  BY <1>1 DEF InsertCode, InsertOutbox, Goto, Call
<1> QED BY <1>1, <1>2, StepMoves

\* A request that is inserting, and another that makes codes for the address.
LEMMA InsertingRivals ==
    ASSUME KindInv, PeersInv, NEW c \in Calls, NEW d \in Calls, c # d,
           call[c].user = call[d].user, call[c].kind \in Mailing, call[d].kind \in Mailing,
           call[c].pc \in BeforeOutbox, call[d].pc \in BeforeOutbox
    PROVE  call[c].overlapped
<1>1. call[c].pc \in Steps /\ call[d].pc \in Steps
  BY DEF BeforeOutbox, BeforeCode, Steps
<1>2. Mailing \in Families
  BY DEF Mailing, Families
<1> QED BY <1>1, <1>2 DEF PeersInv, Rivals, UnderWay

\* A code that can be used appears only when it is inserted.
LEMMA LiveMoves ==
    ASSUME TypeInv, KindInv, [Next]_identityVars, NEW u \in Users
    PROVE  \/ LiveCodes(u)' \subseteq LiveCodes(u)
           \/ \E d \in Calls : /\ InsertCode(d) /\ call[d].pc = "code" /\ call'[d].pc = "outbox"
                               /\ call[d].kind \in Mailing /\ call[d].user = u
                               /\ LiveCodes(u)' \subseteq LiveCodes(u) \union {d}
<1>t. /\ call \in [Calls -> Call] /\ mails \in [Calls -> MailRow]
      /\ \A c \in Calls : KindOK(call[c]) /\ mails[c].used \in BOOLEAN
  BY DEF TypeInv, TypeOK, AccountsTypeOK, KindInv, MailRow
<1>1. ASSUME NEW m \in Calls, m \in LiveCodes(u)', m \notin LiveCodes(u)
      PROVE  /\ InsertCode(m) /\ call[m].pc = "code" /\ call'[m].pc = "outbox"
             /\ call[m].kind \in Mailing /\ call[m].user = u
  <2>1. mails'[m].type = "REGISTER" /\ mails'[m].user = u /\ ~mails'[m].used
    BY <1>1 DEF LiveCodes
  <2>2. ~Kept(m)
    BY <1>1, <2>1 DEF Kept, LiveCodes
  <2>3. ~InsertOutbox(m)
    <3>1. InsertOutbox(m) => /\ mails'[m].type = mails[m].type /\ mails'[m].user = mails[m].user
                             /\ mails'[m].used = mails[m].used
      BY <1>t DEF InsertOutbox, MailRow
    <3> QED BY <1>1, <2>1, <3>1 DEF LiveCodes
  <2>4. InsertCode(m)
    BY <2>2, <2>3, MailWrites
  <2>5. mails'[m] = [NoMail EXCEPT !.type = MailType(call[m].kind), !.user = call[m].user,
                          !.expiresAt = ExpiresAt(CodeTTL)]
    BY <1>t, <2>4 DEF InsertCode
  <2>6. mails'[m].type = MailType(call[m].kind) /\ mails'[m].user = call[m].user
    BY <2>5 DEF NoMail
  <2>7. call[m].pc = "code" /\ call'[m].pc = "outbox"
    BY <1>t, <2>4 DEF InsertCode, Goto, Call
  <2> QED BY <1>t, <2>1, <2>4, <2>6, <2>7 DEF MailType, KindOK, Mailing
<1>2. CASE LiveCodes(u)' \subseteq LiveCodes(u)
  BY <1>2
<1>3. CASE ~(LiveCodes(u)' \subseteq LiveCodes(u))
  <2>0. LiveCodes(u)' \subseteq Calls
    BY DEF LiveCodes
  <2>1. PICK d \in Calls : d \in LiveCodes(u)' /\ d \notin LiveCodes(u)
    BY <1>3, <2>0
  <2>2. \A m \in Calls : m \in LiveCodes(u)' /\ m \notin LiveCodes(u) => m = d
    <3>1. LaterStep(d)
      BY <1>1, <2>1 DEF LaterStep
    <3> QED BY <1>1, <3>1, OneStep
  <2> QED BY <1>1, <2>0, <2>1, <2>2
<1> QED BY <1>2, <1>3

\* Two codes of an address can be used only when their requests overlapped.
LEMMA CodeStep ==
    ASSUME TypeInv, KindInv, PeersInv, RowInv, CodeInv, [Next]_identityVars
    PROVE  CodeInv'
<1>t. /\ TypeOK /\ call \in [Calls -> Call] /\ mails \in [Calls -> MailRow]
      /\ \A c \in Calls : KindOK(call[c])
  BY DEF TypeInv, TypeOK, AccountsTypeOK, KindInv
<1>b. \A c \in Calls : ClearedCodes(c) => call[c].kind \in Mailing /\ call[c].pc \in BeforeOutbox
  BY DEF ClearedCodes, Mailing, BeforeOutbox, BeforeCode
<1>i. \A c \in Calls : call[c].kind \in Mailing /\ call[c].pc \in BeforeOutbox => call[c].user \in Users
  BY DEF RowInv
<1>s. ASSUME NEW u \in Users
      PROVE  /\ Cardinality(LiveCodes(u)') <= 1 + Cardinality(PastCode(u)')
             /\ \A c \in Calls : call'[c].user = u /\ ~call'[c].overlapped /\ ClearedCodes(c)' =>
                   LiveCodes(u)' = {}
  <2>i. /\ Cardinality(LiveCodes(u)) <= 1 + Cardinality(PastCode(u))
        /\ \A c \in Calls : call[c].user = u /\ ~call[c].overlapped /\ ClearedCodes(c) =>
              LiveCodes(u) = {}
    BY DEF CodeInv
  <2>f. /\ IsFiniteSet(LiveCodes(u)) /\ IsFiniteSet(PastCode(u)')
        /\ PastCode(u) \subseteq PastCode(u)' /\ Cardinality(PastCode(u)) \in Nat
    <3>1. IsFiniteSet(PastCode(u)) /\ IsFiniteSet(PastCode(u)') /\ IsFiniteSet(LiveCodes(u))
      BY FiniteCounts DEF PastCode
    <3> QED BY <3>1, CreditsGrow, FS_CardinalityType
  <2>p. PICK A, B, P, Q : A = LiveCodes(u) /\ B = LiveCodes(u)'
                          /\ P = PastCode(u) /\ Q = PastCode(u)'
    OBVIOUS
  <2>1. Cardinality(LiveCodes(u)') <= 1 + Cardinality(PastCode(u)')
    <3>1. CASE LiveCodes(u)' \subseteq LiveCodes(u)
      <4>1. /\ IsFiniteSet(A) /\ IsFiniteSet(Q) /\ P \subseteq Q /\ B \subseteq A
            /\ Cardinality(A) <= 1 + Cardinality(P)
        BY <2>f, <2>i, <2>p, <3>1
      <4>2. Cardinality(B) <= 1 + Cardinality(Q)
        BY <4>1, Credit
      <4> QED BY <2>p, <4>2
    <3>2. CASE ~(LiveCodes(u)' \subseteq LiveCodes(u))
      <4>1. PICK d \in Calls : /\ InsertCode(d) /\ call[d].pc = "code" /\ call'[d].pc = "outbox"
                               /\ call[d].kind \in Mailing /\ call[d].user = u
                               /\ LiveCodes(u)' \subseteq LiveCodes(u) \union {d}
        BY <3>2, LiveMoves
      <4>2. call[d].overlapped => d \in PastCode(u)' /\ d \notin PastCode(u)
        <5>1. StepMove(call[d], call'[d])
          BY <1>t, <4>1, StepMoves DEF LaterStep
        <5>2. Keeps(call[d], call'[d])
          BY <1>t, <4>1, <5>1, EmptyRows DEF StepMove, KindOK, Keeps
        <5> QED BY <4>1, <5>2 DEF PastCode, Past, Keeps, Mailing, BeforeCode
      <4>3. ~call[d].overlapped => Cardinality(LiveCodes(u)) + 1 <= 1 + Cardinality(PastCode(u))
        <5>1. ClearedCodes(d)
          BY <1>t, <4>1 DEF ClearedCodes, Mailing, KindOK
        <5>2. ~call[d].overlapped => LiveCodes(u) = {}
          BY <2>i, <4>1, <5>1
        <5> QED BY <2>f, <5>2, FS_EmptySet
      <4>4. /\ IsFiniteSet(A) /\ IsFiniteSet(Q) /\ P \subseteq Q /\ B \subseteq A \union {d}
            /\ Cardinality(A) <= 1 + Cardinality(P)
            /\ \/ d \in Q /\ d \notin P
               \/ Cardinality(A) + 1 <= 1 + Cardinality(P)
        BY <2>f, <2>i, <2>p, <4>1, <4>2, <4>3
      <4>5. Cardinality(B) <= 1 + Cardinality(Q)
        BY <4>4, Credit
      <4> QED BY <2>p, <4>5
    <3> QED BY <3>1, <3>2
  <2>2. ASSUME NEW c \in Calls, call'[c].user = u, ~call'[c].overlapped, ClearedCodes(c)'
        PROVE  LiveCodes(u)' = {}
    <3>0. call'[c].kind \in Mailing /\ call'[c].pc \in BeforeOutbox
      BY <2>2 DEF ClearedCodes, Mailing, BeforeOutbox, BeforeCode
    <3>1. CASE Same(call[c], call'[c]) /\ (call[c].overlapped => call'[c].overlapped)
      <4>1. ClearedCodes(c) /\ ~call[c].overlapped /\ call[c].user = u
        BY <2>2, <3>1 DEF Same, ClearedCodes
      <4>2. LiveCodes(u) = {}
        BY <2>i, <4>1
      <4>3. ASSUME NEW d \in Calls, InsertCode(d), call[d].pc = "code", call'[d].pc = "outbox",
                   call[d].kind \in Mailing, call[d].user = u
            PROVE  FALSE
        <5>1. d # c
          BY <3>1, <4>3 DEF Same
        <5>2. call[d].pc \in BeforeOutbox
          BY <4>3 DEF BeforeOutbox, BeforeCode
        <5> QED BY <1>b, <4>1, <4>3, <5>1, <5>2, InsertingRivals
      <4> QED BY <4>2, <4>3, LiveMoves
    <3>2. CASE call'[c] = Answered \/ Started(call'[c])
      BY <2>2, <3>0, <3>2, EmptyRows DEF Started, ClearedCodes, Mailing
    <3>3. CASE LaterStep(c)
      <4>1. /\ call'[c].kind = call[c].kind /\ call'[c].user = call[c].user
            /\ call'[c].overlapped = call[c].overlapped /\ call[c].pc \in BeforeOutbox
            /\ \/ CreateUser(c) /\ ~users[call[c].user].exists
               \/ RegisterSession(c) /\ call[c].kind = "register"
               \/ CheckQuota(c) /\ call'[c].pc = "invalidate" /\ "codes" \in call'[c].todo
               \/ InvalidateCodes(c)
               \/ CancelMails(c) /\ call'[c].todo = call[c].todo \ {"outbox"}
                  /\ call'[c].pc = "invalidate"
               \/ EndInvalidate(c) /\ call[c].todo = {}
               \/ InsertCode(c) /\ call'[c].pc = "outbox"
        BY <3>0, <3>3, MailingMoves
      <4>2. ~InsertCode(c) => LiveCodes(u)' \subseteq LiveCodes(u)
        BY <3>3, LiveMoves, OneStep
      <4>3. CASE CreateUser(c) /\ ~users[call[c].user].exists
        <5>1. LiveCodes(u) = {}
          BY <2>2, <4>1, <4>3 DEF RowInv, LiveCodes
        <5>2. ~InsertCode(c)
          BY <4>3 DEF CreateUser, InsertCode
        <5> QED BY <4>2, <5>1, <5>2
      <4>4. CASE \/ RegisterSession(c) /\ call[c].kind = "register"
                 \/ CancelMails(c) /\ call'[c].todo = call[c].todo \ {"outbox"}
                    /\ call'[c].pc = "invalidate"
                 \/ EndInvalidate(c) /\ call[c].todo = {}
        <5>1. call[c].pc \in {"session", "invalidate"} /\ ClearedCodes(c)
          BY <1>t, <2>2, <4>1, <4>4
          DEF RegisterSession, CancelMails, EndInvalidate, At, ClearedCodes, KindOK,
              BeforeOutbox, BeforeCode
        <5>2. ~InsertCode(c)
          BY <5>1 DEF InsertCode
        <5>3. LiveCodes(u) = {}
          BY <2>2, <2>i, <4>1, <5>1
        <5> QED BY <4>2, <5>2, <5>3
      <4>5. CASE InvalidateCodes(c)
        <5>1. \A m \in Calls : mails[m].type = "REGISTER" /\ mails[m].user = u =>
                                  mails'[m] = [mails[m] EXCEPT !.used = TRUE]
          BY <2>2, <4>1, <4>5 DEF InvalidateCodes, MarkAllRegisterUsed
        <5>2. \A m \in Calls : ~(mails[m].type = "REGISTER" /\ mails[m].user = u) =>
                                  mails'[m] = mails[m]
          BY <2>2, <4>1, <4>5 DEF InvalidateCodes, MarkAllRegisterUsed
        <5> QED BY <1>t, <5>1, <5>2 DEF LiveCodes, MailRow
      <4>6. CASE InsertCode(c) /\ call'[c].pc = "outbox"
        BY <2>2, <4>6 DEF ClearedCodes
      <4>7. CASE CheckQuota(c) /\ call'[c].pc = "invalidate" /\ "codes" \in call'[c].todo
        BY <2>2, <4>7 DEF ClearedCodes
      <4> QED BY <4>1, <4>3, <4>4, <4>5, <4>6, <4>7
    <3> QED BY <3>1, <3>2, <3>3, Where
  <2> QED BY <2>1, <2>2
<1> QED BY <1>s DEF CodeInv

\* A recent mail appears only when its outbox row is inserted.
LEMMA RecentMoves ==
    ASSUME TypeInv, KindInv, RowInv, [Next]_identityVars, NEW u \in Users
    PROVE  \/ RecentMails(u)' \subseteq RecentMails(u)
           \/ \E d \in Calls : /\ InsertOutbox(d) /\ call[d].pc = "outbox" /\ call'[d].pc = "enqueue"
                               /\ call[d].kind \in Mailing /\ call[d].user = u
                               /\ RecentMails(u)' \subseteq RecentMails(u) \union {d}
<1>t. /\ call \in [Calls -> Call] /\ mails \in [Calls -> MailRow]
      /\ \A c \in Calls : KindOK(call[c])
      /\ now \in Nat /\ BlockWindow \in Nat
      /\ \A m \in Calls : mails[m].createdAt \in Nat
  BY VerificationConstants DEF TypeInv, TypeOK, AccountsTypeOK, KindInv, MailRow
<1>n. now' \in Nat /\ now <= now'
  <2>1. UNCHANGED now \/ Tick
    BY Split, Writes
  <2> QED BY <1>t, <2>1 DEF Tick
<1>1. ASSUME NEW m \in Calls, m \in RecentMails(u)', m \notin RecentMails(u)
      PROVE  /\ InsertOutbox(m) /\ call[m].pc = "outbox" /\ call'[m].pc = "enqueue"
             /\ call[m].kind \in Mailing /\ call[m].user = u
  <2>1. /\ mails'[m].type = "REGISTER" /\ mails'[m].user = u /\ mails'[m].status # "NONE"
        /\ mails'[m].createdAt + BlockWindow > now'
    BY <1>1 DEF RecentMails, RegisterMails
  <2>2. ~Kept(m)
    <3>1. SUFFICES ASSUME Kept(m) PROVE FALSE
      OBVIOUS
    <3>2. mails[m].status # "NONE"
      <4>1. job[m].pc \in JobSteps => job[m].pc # "none"
        BY DEF JobSteps
      <4> QED BY <2>1, <3>1, <4>1 DEF Kept, RowInv
    <3>3. mails[m].createdAt + BlockWindow > now
      BY <1>n, <1>t, <2>1, <3>1 DEF Kept
    <3> QED BY <1>1, <2>1, <3>1, <3>2, <3>3 DEF Kept, RecentMails, RegisterMails
  <2>3. ~InsertCode(m)
    <3>1. InsertCode(m) => mails'[m] = [NoMail EXCEPT !.type = MailType(call[m].kind),
                              !.user = call[m].user, !.expiresAt = ExpiresAt(CodeTTL)]
      BY <1>t DEF InsertCode
    <3>2. InsertCode(m) => mails'[m].status = "NONE"
      BY <3>1 DEF NoMail
    <3> QED BY <2>1, <3>2
  <2>4. InsertOutbox(m)
    BY <2>2, <2>3, MailWrites
  <2>5. call[m].pc = "outbox" /\ call'[m].pc = "enqueue"
    BY <1>t, <2>4 DEF InsertOutbox, Goto, Call
  <2>6. mails'[m].type = mails[m].type /\ mails'[m].user = mails[m].user
    BY <1>t, <2>4 DEF InsertOutbox, MailRow
  <2>7. mails[m].type = MailType(call[m].kind) /\ mails[m].user = call[m].user
    BY <2>5 DEF RowInv
  <2> QED BY <1>t, <2>1, <2>4, <2>5, <2>6, <2>7 DEF MailType, KindOK, Mailing
<1>2. CASE RecentMails(u)' \subseteq RecentMails(u)
  BY <1>2
<1>3. CASE ~(RecentMails(u)' \subseteq RecentMails(u))
  <2>0. RecentMails(u)' \subseteq Calls
    BY DEF RecentMails, RegisterMails
  <2>1. PICK d \in Calls : d \in RecentMails(u)' /\ d \notin RecentMails(u)
    BY <1>3, <2>0
  <2>2. \A m \in Calls : m \in RecentMails(u)' /\ m \notin RecentMails(u) => m = d
    <3>1. LaterStep(d)
      BY <1>1, <2>1 DEF LaterStep
    <3> QED BY <1>1, <3>1, OneStep
  <2> QED BY <1>1, <2>0, <2>1, <2>2
<1> QED BY <1>2, <1>3

\* A resend that passes the quota leaves room for one mail.
LEMMA RoomForOne ==
    ASSUME NEW u \in Users, ~QuotaUsedUp(u)
    PROVE  Cardinality(RecentMails(u)) + 1 <= MaxPerDay
<1>1. /\ IsFiniteSet(RegisterMails(u)) /\ IsFiniteSet(RecentMails(u))
      /\ Cardinality(RegisterMails(u)) \in Nat /\ Cardinality(RecentMails(u)) \in Nat
  BY FiniteCounts, FS_CardinalityType
<1>2. RecentMails(u) \in SUBSET RegisterMails(u)
  BY DEF RecentMails
<1>3. Cardinality(RecentMails(u)) <= Cardinality(RegisterMails(u))
  BY <1>1, <1>2, FS_Subset
<1>4. MaxPerDay \in Nat /\ MaxPerDay >= 1
  BY VerificationConstants
<1>5. CASE ~(Cardinality(RegisterMails(u)) >= MaxPerDay)
  BY <1>1, <1>3, <1>4, <1>5
<1>6. CASE \A m \in RegisterMails(u) : ~(mails[m].createdAt + BlockWindow > now)
  <2>1. RecentMails(u) = {}
    BY <1>6 DEF RecentMails
  <2> QED BY <1>4, <2>1, FS_EmptySet
<1> QED BY <1>5, <1>6 DEF QuotaUsedUp

\* More mails than the quota within the window need requests that overlapped.
LEMMA QuotaStep ==
    ASSUME TypeInv, KindInv, PeersInv, RowInv, QuotaInv, [Next]_identityVars
    PROVE  QuotaInv'
<1>t. /\ TypeOK /\ call \in [Calls -> Call] /\ mails \in [Calls -> MailRow]
      /\ \A c \in Calls : KindOK(call[c])
      /\ MaxPerDay \in Nat /\ MaxPerDay >= 1
  BY VerificationConstants DEF TypeInv, TypeOK, AccountsTypeOK, KindInv
<1>b. \A c \in Calls : Admitted(c) => call[c].kind \in Mailing /\ call[c].pc \in BeforeOutbox
  BY DEF Admitted, Mailing, BeforeOutbox, BeforeCode
<1>s. ASSUME NEW u \in Users
      PROVE  /\ Cardinality(RecentMails(u)') <= MaxPerDay + Cardinality(PastOutbox(u)')
             /\ \A c \in Calls : call'[c].user = u /\ ~call'[c].overlapped /\ Admitted(c)' =>
                   Cardinality(RecentMails(u)') + 1 <= MaxPerDay + Cardinality(PastOutbox(u)')
  <2>i. /\ Cardinality(RecentMails(u)) <= MaxPerDay + Cardinality(PastOutbox(u))
        /\ \A c \in Calls : call[c].user = u /\ ~call[c].overlapped /\ Admitted(c) =>
              Cardinality(RecentMails(u)) + 1 <= MaxPerDay + Cardinality(PastOutbox(u))
    BY DEF QuotaInv
  <2>f. /\ IsFiniteSet(RecentMails(u)) /\ IsFiniteSet(PastOutbox(u)')
        /\ PastOutbox(u) \subseteq PastOutbox(u)' /\ Cardinality(PastOutbox(u)) \in Nat
        /\ Cardinality(RecentMails(u)) \in Nat
    <3>1. IsFiniteSet(PastOutbox(u)) /\ IsFiniteSet(PastOutbox(u)') /\ IsFiniteSet(RecentMails(u))
      BY FiniteCounts DEF PastOutbox
    <3> QED BY <3>1, CreditsGrow, FS_CardinalityType
  <2>p. PICK A, B, P, Q : A = RecentMails(u) /\ B = RecentMails(u)'
                          /\ P = PastOutbox(u) /\ Q = PastOutbox(u)'
    OBVIOUS
  <2>c. /\ IsFiniteSet(A) /\ IsFiniteSet(Q) /\ P \subseteq Q
        /\ Cardinality(A) <= MaxPerDay + Cardinality(P)
    BY <2>f, <2>i, <2>p
  <2>1. Cardinality(RecentMails(u)') <= MaxPerDay + Cardinality(PastOutbox(u)')
    <3>1. CASE RecentMails(u)' \subseteq RecentMails(u)
      <4>1. B \subseteq A
        BY <2>p, <3>1
      <4>2. Cardinality(B) <= MaxPerDay + Cardinality(Q)
        BY <1>t, <2>c, <4>1, Credit
      <4> QED BY <2>p, <4>2
    <3>2. CASE ~(RecentMails(u)' \subseteq RecentMails(u))
      <4>1. PICK d \in Calls : /\ InsertOutbox(d) /\ call[d].pc = "outbox" /\ call'[d].pc = "enqueue"
                               /\ call[d].kind \in Mailing /\ call[d].user = u
                               /\ RecentMails(u)' \subseteq RecentMails(u) \union {d}
        BY <3>2, RecentMoves
      <4>2. call[d].overlapped => d \in PastOutbox(u)' /\ d \notin PastOutbox(u)
        <5>1. StepMove(call[d], call'[d])
          BY <1>t, <4>1, StepMoves DEF LaterStep
        <5>2. Keeps(call[d], call'[d])
          BY <1>t, <4>1, <5>1, EmptyRows DEF StepMove, KindOK, Keeps
        <5> QED BY <4>1, <5>2 DEF PastOutbox, Past, Keeps, Mailing, BeforeCode, BeforeOutbox
      <4>3. ~call[d].overlapped =>
               Cardinality(RecentMails(u)) + 1 <= MaxPerDay + Cardinality(PastOutbox(u))
        <5>1. Admitted(d)
          BY <4>1 DEF Admitted, Mailing
        <5> QED BY <2>i, <4>1, <5>1
      <4>4. /\ B \subseteq A \union {d}
            /\ \/ d \in Q /\ d \notin P
               \/ Cardinality(A) + 1 <= MaxPerDay + Cardinality(P)
        BY <2>p, <4>1, <4>2, <4>3
      <4>5. Cardinality(B) <= MaxPerDay + Cardinality(Q)
        BY <1>t, <2>c, <4>4, Credit
      <4> QED BY <2>p, <4>5
    <3> QED BY <3>1, <3>2
  <2>2. ASSUME Cardinality(RecentMails(u)) + 1 <= MaxPerDay + Cardinality(PastOutbox(u)),
               RecentMails(u)' \subseteq RecentMails(u)
        PROVE  Cardinality(RecentMails(u)') + 1 <= MaxPerDay + Cardinality(PastOutbox(u)')
    <3>1. B \subseteq A /\ Cardinality(A) + 1 <= MaxPerDay + Cardinality(P)
      BY <2>p, <2>2
    <3>2. Cardinality(B) + 1 <= MaxPerDay + Cardinality(Q)
      BY <1>t, <2>c, <3>1, Credit
    <3> QED BY <2>p, <3>2
  <2>3. ASSUME NEW c \in Calls, call'[c].user = u, ~call'[c].overlapped, Admitted(c)'
        PROVE  Cardinality(RecentMails(u)') + 1 <= MaxPerDay + Cardinality(PastOutbox(u)')
    <3>0. call'[c].kind \in Mailing /\ call'[c].pc \in BeforeOutbox
      BY <2>3 DEF Admitted, Mailing, BeforeOutbox, BeforeCode
    <3>1. CASE Same(call[c], call'[c]) /\ (call[c].overlapped => call'[c].overlapped)
      <4>1. Admitted(c) /\ ~call[c].overlapped /\ call[c].user = u
        BY <2>3, <3>1 DEF Same, Admitted
      <4>2. ASSUME NEW d \in Calls, InsertOutbox(d), call[d].pc = "outbox",
                   call'[d].pc = "enqueue", call[d].kind \in Mailing, call[d].user = u
            PROVE  FALSE
        <5>1. d # c
          BY <3>1, <4>2 DEF Same
        <5>2. call[d].pc \in BeforeOutbox
          BY <4>2 DEF BeforeOutbox
        <5> QED BY <1>b, <4>1, <4>2, <5>1, <5>2, InsertingRivals
      <4> QED BY <2>2, <2>i, <4>1, <4>2, RecentMoves
    <3>2. CASE /\ call'[c] = Answered \/ Started(call'[c])
               /\ UNCHANGED <<users, mails, now>>
      BY <2>3, <3>0, <3>2, EmptyRows DEF Started, Admitted, Mailing
    <3>3. CASE LaterStep(c)
      <4>1. /\ call'[c].kind = call[c].kind /\ call'[c].user = call[c].user
            /\ call'[c].overlapped = call[c].overlapped /\ call[c].pc \in BeforeOutbox
            /\ \/ CreateUser(c) /\ ~users[call[c].user].exists
               \/ RegisterSession(c) /\ call[c].kind = "register"
               \/ CheckQuota(c) /\ ~QuotaUsedUp(u)
               \/ InvalidateCodes(c) \/ CancelMails(c) \/ EndInvalidate(c) \/ InsertCode(c)
        BY <2>3, <3>0, <3>3, MailingMoves
      <4>2. call[c].pc # "outbox"
        BY <1>t, <2>3, <4>1
        DEF CreateUser, RegisterSession, CheckQuota, InvalidateCodes, CancelMails, EndInvalidate,
            InsertCode, At, KindOK
      <4>3. RecentMails(u)' \subseteq RecentMails(u)
        BY <3>3, <4>2, OneStep, RecentMoves
      <4>4. CASE CreateUser(c) /\ ~users[call[c].user].exists
        <5>1. RecentMails(u) = {}
          BY <2>3, <4>1, <4>4 DEF RowInv, RecentMails, RegisterMails
        <5>2. Cardinality(RecentMails(u)) = 0
          BY <5>1, FS_EmptySet
        <5> QED BY <1>t, <2>2, <2>f, <4>3, <5>2
      <4>5. CASE \/ RegisterSession(c) /\ call[c].kind = "register"
                 \/ InvalidateCodes(c) \/ CancelMails(c) \/ EndInvalidate(c) \/ InsertCode(c)
        <5>1. Admitted(c)
          BY <1>t, <3>0, <4>1, <4>5
          DEF RegisterSession, InvalidateCodes, CancelMails, EndInvalidate, InsertCode, At,
              Admitted, KindOK, Mailing, BeforeOutbox, BeforeCode
        <5> QED BY <2>2, <2>3, <2>i, <4>1, <4>3, <5>1
      <4>6. CASE CheckQuota(c) /\ ~QuotaUsedUp(u)
        <5>1. Cardinality(RecentMails(u)) + 1 <= MaxPerDay + Cardinality(PastOutbox(u))
          BY <1>t, <2>f, <4>6, RoomForOne
        <5> QED BY <2>2, <4>3, <5>1
      <4> QED BY <4>1, <4>4, <4>5, <4>6
    <3> QED BY <3>1, <3>2, <3>3, Where
  <2> QED BY <2>1, <2>3
<1> QED BY <1>s DEF QuotaInv

\* Nobody is under way initially and nothing is counted.
LEMMA InitLimits == Init => PeersInv /\ DeviceInv /\ RowInv /\ CodeInv /\ QuotaInv
<1> SUFFICES ASSUME Init PROVE PeersInv /\ DeviceInv /\ RowInv /\ CodeInv /\ QuotaInv
  OBVIOUS
<1>1. \A c \in Calls : /\ call[c].pc = "idle" /\ call[c].kind = "none"
                       /\ mails[c].type = "NONE" /\ job[c].pc = "none"
  BY DEF Init, AccountsInit, VerificationInit, IdleCall, NoMail, NoJob
<1>2. \A u \in Users : ActiveDevices(u) = {} /\ LiveCodes(u) = {} /\ RecentMails(u) = {}
  BY <1>1 DEF Init, AccountsInit, ActiveDevices, LiveCodes, RecentMails, RegisterMails
<1>3. \A kinds, pcs, u : Cardinality(Past(kinds, pcs, u)) \in Nat
  BY FiniteCounts, FS_CardinalityType
<1>c. /\ \A u \in Users : Cardinality(ActiveDevices(u)) = 0 /\ Cardinality(LiveCodes(u)) = 0
      /\ \A u : Cardinality(PastDevice(u)) \in Nat /\ Cardinality(PastCode(u)) \in Nat
      /\ MaxDevices \in Nat
  BY <1>2, <1>3, FS_EmptySet, SessionConstants DEF PastDevice, PastCode
<1>4. PeersInv
  BY <1>1 DEF PeersInv, Rivals, UnderWay, Steps
<1>5. DeviceInv
  <2>1. \A u \in Users : Cardinality(ActiveDevices(u)) <= MaxDevices + Cardinality(PastDevice(u))
    BY <1>c
  <2>2. \A c \in Calls : call[c].pc \notin {"device", "revoke"} /\ call[c].pc \notin BeforeDevice
    BY <1>1 DEF BeforeDevice
  <2> QED BY <2>1, <2>2 DEF DeviceInv
<1>6. RowInv
  BY <1>1 DEF RowInv, BeforeOutbox, BeforeCode
<1>7. CodeInv
  <2>1. \A u \in Users : Cardinality(LiveCodes(u)) <= 1 + Cardinality(PastCode(u))
    BY <1>c
  <2>2. \A c \in Calls : ~ClearedCodes(c)
    BY <1>1 DEF ClearedCodes
  <2> QED BY <2>1, <2>2 DEF CodeInv
<1>8. QuotaInv
  BY <1>1, <1>2, <1>3, FS_EmptySet, VerificationConstants DEF QuotaInv, PastOutbox, Admitted
<1> QED BY <1>4, <1>5, <1>6, <1>7, <1>8

LimitInv == TypeInv /\ KindInv /\ MailInv /\ PeersInv /\ DeviceInv /\ RowInv /\ CodeInv /\ QuotaInv

\* Whatever the number of users, devices and requests: the device limit, the
\* one code that can be used and the mail quota are exceeded only by requests
\* that ran at the same time, and by no more than one each, although each
\* request counts in one statement and writes in another.
THEOREM LimitsAreKept == Spec => []LimitsHold
<1>1. Init => LimitInv
  BY InitTyped, InitRequests, InitMails, InitLimits DEF LimitInv
<1>2. LimitInv /\ [Next]_identityVars => LimitInv'
  BY TypeStep, KindStep, MailStep, PeersStep, DeviceStep, RowStep, CodeStep, QuotaStep DEF LimitInv
<1>3. LimitInv => LimitsHold
  <2> SUFFICES ASSUME LimitInv, NEW u \in Users
               PROVE  /\ Cardinality(ActiveDevices(u)) <= MaxDevices + Cardinality(Overlapped({"login"}, u))
                      /\ Cardinality(LiveCodes(u)) <= 1 + Cardinality(Overlapped({"register", "resend"}, u))
                      /\ Cardinality(RecentMails(u))
                             <= MaxPerDay + Cardinality(Overlapped({"register", "resend"}, u))
    BY DEF LimitsHold, RecentMails
  <2>1. ASSUME NEW kinds, NEW pcs
        PROVE  /\ Cardinality(Past(kinds, pcs, u)) <= Cardinality(Overlapped(kinds, u))
               /\ Cardinality(Past(kinds, pcs, u)) \in Nat
               /\ Cardinality(Overlapped(kinds, u)) \in Nat
    <3>1. Overlapped(kinds, u) \in SUBSET Calls
      BY DEF Overlapped
    <3>2. IsFiniteSet(Overlapped(kinds, u))
      BY <3>1, AccountConstants, FS_Subset
    <3>3. Past(kinds, pcs, u) \in SUBSET Overlapped(kinds, u)
      BY DEF Past, Overlapped
    <3>4. /\ IsFiniteSet(Past(kinds, pcs, u))
          /\ Cardinality(Past(kinds, pcs, u)) <= Cardinality(Overlapped(kinds, u))
      BY <3>2, <3>3, FS_Subset
    <3> QED BY <3>2, <3>4, FS_CardinalityType
  <2>2. /\ Cardinality(ActiveDevices(u)) \in Nat /\ Cardinality(LiveCodes(u)) \in Nat
        /\ Cardinality(RecentMails(u)) \in Nat
    BY FiniteCounts, FS_CardinalityType
  <2>3. MaxDevices \in Nat /\ MaxPerDay \in Nat
    BY SessionConstants, VerificationConstants
  <2>4. Cardinality(ActiveDevices(u)) <= MaxDevices + Cardinality(PastDevice(u))
    BY DEF LimitInv, DeviceInv
  <2>5. Cardinality(LiveCodes(u)) <= 1 + Cardinality(PastCode(u))
    BY DEF LimitInv, CodeInv
  <2>6. Cardinality(RecentMails(u)) <= MaxPerDay + Cardinality(PastOutbox(u))
    BY DEF LimitInv, QuotaInv
  <2>7. Cardinality(PastDevice(u)) <= Cardinality(Overlapped({"login"}, u))
        /\ Cardinality(PastDevice(u)) \in Nat /\ Cardinality(Overlapped({"login"}, u)) \in Nat
    BY <2>1 DEF PastDevice
  <2>8. /\ Cardinality(PastCode(u)) <= Cardinality(Overlapped({"register", "resend"}, u))
        /\ Cardinality(PastOutbox(u)) <= Cardinality(Overlapped({"register", "resend"}, u))
        /\ Cardinality(PastCode(u)) \in Nat /\ Cardinality(PastOutbox(u)) \in Nat
        /\ Cardinality(Overlapped({"register", "resend"}, u)) \in Nat
    BY <2>1 DEF PastCode, PastOutbox
  <2> QED BY <2>2, <2>3, <2>4, <2>5, <2>6, <2>7, <2>8
<1> QED BY <1>1, <1>2, <1>3, PTL DEF Spec
=============================================================================
