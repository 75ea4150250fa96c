------------------------------ MODULE Sessions ------------------------------
(***************************************************************************)
(* Login with its device bookkeeping, refresh behind RefreshGuard, logout, *)
(* and the change of a password behind AuthGuard.                          *)
(***************************************************************************)
EXTENDS Accounts

CONSTANT MaxDevices    \* MAX_DEVICES

ASSUME SessionConstants == MaxDevices \in Nat \ {0}

(* ------------------------------- Login --------------------------------- *)

ActiveDevices(u) == {f \in Fingerprints : devices[u][f].status = "active"}

\* The password matches and findByUserIdAndFingerprint is back.
StartLogin(c) ==
    /\ \E u \in Users, f \in Fingerprints :
          /\ users[u].exists
          /\ LET seen == devices[u][f].status
             IN  Receive(c, "login", [IdleCall EXCEPT
                     !.user = u, !.device = f, !.seen = seen, !.at = now,
                     !.pc = IF seen = "active" THEN "device" ELSE "count"])
    /\ UNCHANGED <<userTables, mails, now, faults>>

\* Mutant of the next one: one device too many.
TooManyByOne(u) == Cardinality(ActiveDevices(u)) > MaxDevices

TooMany(u) == Cardinality(ActiveDevices(u)) >= MaxDevices

CountDevices(c) ==
    /\ At(c, "login", "count")
    /\ Goto(c, IF TooMany(call[c].user) THEN "oldest" ELSE "device")
    /\ UNCHANGED <<userTables, mails, now, faults>>

\* revokeOldestActiveDevice reads the device ...
FindOldestDevice(c) ==
    LET u == call[c].user IN
    /\ At(c, "login", "oldest")
    /\ \/ /\ ActiveDevices(u) = {}
          /\ Goto(c, "device")
       \/ \E f \in ActiveDevices(u) :
             /\ \A g \in ActiveDevices(u) : devices[u][f].lastSeenAt <= devices[u][g].lastSeenAt
             /\ call' = [call EXCEPT ![c].pc = "revoke", ![c].oldest = f]
    /\ UNCHANGED <<userTables, mails, now, faults>>

\* ... and revokes it in a second statement.
RevokeOldestDevice(c) ==
    /\ At(c, "login", "revoke")
    /\ devices' = [devices EXCEPT ![call[c].user][call[c].oldest].status = "revoked"]
    /\ call' = [call EXCEPT ![c].pc = "device", ![c].oldest = NULL]
    /\ UNCHANGED <<users, sessions, revokedTokens, mails, now, faults>>

\* The device is updated, reactivated or created, as it was when it was read;
\* creating one that has appeared meanwhile violates the unique key.
SaveDevice(c) ==
    LET u == call[c].user
        f == call[c].device
    IN  /\ At(c, "login", "device")
        /\ \/ /\ call[c].seen = "none" => devices[u][f].status = "none"
              /\ devices' = [devices EXCEPT ![u][f] =
                     [status |-> IF call[c].seen = "active" THEN @.status ELSE "active",
                      lastSeenAt |-> call[c].at]]
              /\ call' = [call EXCEPT ![c].pc = "session", ![c].device = NULL,
                                           ![c].seen = "none", ![c].at = 0]
           \/ /\ call[c].seen = "none" /\ devices[u][f].status # "none"
              /\ Goto(c, "error")
              /\ UNCHANGED devices
        /\ UNCHANGED <<users, sessions, revokedTokens, mails, now, faults>>

LoginSession(c) ==
    /\ At(c, "login", "session")
    /\ CreateSession(c, call[c].user)
    /\ Goto(c, "done")
    /\ UNCHANGED <<users, devices, revokedTokens, mails, now, faults>>

(* ------------------------------- Refresh ------------------------------- *)

SessionsOf(token) == {s \in Calls : sessions[s].status # "NONE" /\ sessions[s].token = token}

\* Mutant of the next one: RefreshGuard does not look at the status.
Refreshable(s) == TRUE

\* status ACTIVE and revokedAt null
MayRefresh(s) == sessions[s].status = "ACTIVE"

\* RefreshGuard: the session of the presented token, as it is now.
StartRefresh(c) ==
    /\ \E t \in Tokens :
          \/ /\ \A s \in SessionsOf(t) : ~MayRefresh(s)
             /\ Receive(c, "refresh", Answered)
          \/ \E s \in SessionsOf(t) :
                /\ MayRefresh(s)
                /\ Receive(c, "refresh", [IdleCall EXCEPT !.user = call[t].user, !.ref = s,
                       !.pc = IF sessions[s].expiresAt < now THEN "expireSession" ELSE "rotate"])
    /\ UNCHANGED <<userTables, mails, now, faults>>

\* markSessionExpired, by id
ExpireSession(c) ==
    /\ At(c, "refresh", "expireSession")
    /\ sessions' = [sessions EXCEPT ![call[c].ref].status = "EXPIRED"]
    /\ call' = [call EXCEPT ![c] = Answered]
    /\ UNCHANGED <<users, devices, revokedTokens, mails, now, faults>>

\* The row of a session with a new token.
Rotated(session, c) ==
    [status |-> "ACTIVE", user |-> session.user, token |-> c, expiresAt |-> ExpiresAt(SessionTTL)]

\* rotateSession, by id: whatever has become of the session since the guard.
RotateSession(c) ==
    /\ At(c, "refresh", "rotate")
    /\ sessions' = [sessions EXCEPT ![call[c].ref] = Rotated(@, c)]
    /\ Goto(c, "done")
    /\ UNCHANGED <<users, devices, revokedTokens, mails, now, faults>>

(* -------------------------------- Logout ------------------------------- *)

\* The token pair is verified; the two calls of the Promise.all follow.
StartLogout(c) ==
    /\ \E t \in Tokens :
          Receive(c, "logout", [IdleCall EXCEPT !.user = call[t].user,
              !.token = t, !.pc = "logout", !.todo = {"token", "find"}])
    /\ UNCHANGED <<userTables, mails, now, faults>>

RevokeToken(c) ==
    /\ "token" \in call[c].todo
    /\ revokedTokens' = revokedTokens \union {call[c].token}
    /\ call' = [call EXCEPT ![c].todo = @ \ {"token"}]
    /\ UNCHANGED <<users, sessions, devices, mails, now, faults>>

\* revokeSessionByRefreshToken reads the session of the token ...
FindForLogout(c) ==
    /\ "find" \in call[c].todo
    /\ \/ /\ SessionsOf(call[c].token) = {}
          /\ call' = [call EXCEPT ![c].todo = @ \ {"find"}]
       \/ \E s \in SessionsOf(call[c].token) :
             call' = [call EXCEPT ![c].todo = (@ \ {"find"}) \union {"session"}, ![c].ref = s]
    /\ UNCHANGED <<userTables, mails, now, faults>>

\* ... and revokes it by id.
RevokeSession(c) ==
    /\ "session" \in call[c].todo
    /\ sessions' = [sessions EXCEPT ![call[c].ref].status = "REVOKED"]
    /\ call' = [call EXCEPT ![c].todo = @ \ {"session"}]
    /\ UNCHANGED <<users, devices, revokedTokens, mails, now, faults>>

EndLogout(c) ==
    /\ At(c, "logout", "logout") /\ call[c].todo = {}
    /\ call' = [call EXCEPT ![c] = Answered]
    /\ UNCHANGED <<userTables, mails, now, faults>>

(* ---------------------------- changePassword --------------------------- *)

\* AuthGuard accepts an access token that is not revoked; the old password
\* matches.
StartChange(c) ==
    /\ \E t \in Tokens :
          /\ t \notin revokedTokens
          /\ Receive(c, "change", [IdleCall EXCEPT !.user = call[t].user, !.pc = "password"])
    /\ UNCHANGED <<userTables, mails, now, faults>>

SessionStep(c) ==
    \/ StartLogin(c) \/ CountDevices(c) \/ FindOldestDevice(c)
    \/ RevokeOldestDevice(c) \/ SaveDevice(c) \/ LoginSession(c)
    \/ StartRefresh(c) \/ ExpireSession(c) \/ RotateSession(c)
    \/ StartLogout(c) \/ RevokeToken(c) \/ FindForLogout(c)
    \/ RevokeSession(c) \/ EndLogout(c) \/ StartChange(c)
=============================================================================
