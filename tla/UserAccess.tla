----------------------------- MODULE UserAccess -----------------------------
(***************************************************************************)
(* What one user gets in with: the account, the login limiter and the      *)
(* sessions (internal/auth, auth_handlers.go, session_middleware.go), the  *)
(* SSH key (internal/sshkeys), and the SSH ticket for the user's instance: *)
(* issued by main-api (internal_ssh_ticket.go, sshticket), checked by      *)
(* ssh-proxy (tunnelhandler) and again by the agent (muxclient) before it  *)
(* dials the VM.                                                           *)
(*                                                                         *)
(* Every database call is a step.  Time is a counter; what happens within  *)
(* one unit of time is ordered by the steps only.                          *)
(***************************************************************************)
EXTENDS Integers

CONSTANTS
    Clients,      \* browsers of the user; each holds at most one session
    IPs,          \* where the clients come from (clientIP)
    Limit, Window,\* LoginRateLimit and LoginRateWindow
    SessionTTL,
    Conns,        \* SSH connections to the user's instance
    TicketTTL,
    Margin,       \* taken off the expiry by both relays (1 s)
    Patience,     \* timeout of the ticket client (3 s)
    MaxTime       \* bound on time

ASSUME UserAccessAssumption ==
    /\ Limit \in Nat /\ Window \in Nat \ {0} /\ SessionTTL \in Nat \ {0}
    /\ TicketTTL \in Nat \ {0} /\ Margin \in 0..TicketTTL
    /\ Patience \in Nat /\ MaxTime \in Nat

VARIABLES
    now,
    hits,      \* RateLimiter.hits: how often a key was let in at each time
    lastSwep,
    let,       \* history: how often a key was ever let in at each time
    account,   \* the user's row exists
    client,    \* the login or request a client is in
    session,   \* the sessions row of the client's cookie
    key,       \* the user's ssh_keys row exists
    keyGone,   \* history: when it was last deleted
    inst,      \* the instance is running
    instGone,  \* history: when it ended
    ticket,    \* ticket call or ticket of each connection
    dialled    \* history: when the agent dialled for this connection

limitVars == <<hits, lastSwep, let>>
userVars  == <<account, client, session>>
factVars  == <<key, keyGone, inst, instGone>>
sshVars   == <<ticket, dialled>>
vars == <<now, limitVars, userVars, factVars, sshVars>>

Never == -1
Times == 0..MaxTime

-----------------------------------------------------------------------------
(* State *)

Client == [at: {"out", "checked", "issue", "in", "loaded"}, began: Times,
           used: Times \cup {Never},  \* history: when the last request served had begun
           late: Nat]                 \* history: requests served once the session was over

Session == [live: BOOLEAN, expires: 0..(MaxTime + SessionTTL), ended: Times \cup {Never}]

Ticket == [at: {"none", "key", "inst", "issue", "have", "stream", "done"},
           began: Times, expires: 0..(MaxTime + TicketTTL)]

NoTicket == [at |-> "none", began |-> 0, expires |-> 0]

NoHits == [t \in Times |-> 0]

TypeOK ==
    /\ now \in Times
    /\ hits \in [IPs -> [Times -> Nat]] /\ let \in [IPs -> [Times -> Nat]]
    /\ lastSwep \in (-Window)..MaxTime
    /\ account \in BOOLEAN
    /\ client \in [Clients -> Client]
    /\ session \in [Clients -> Session]
    /\ key \in BOOLEAN /\ inst \in BOOLEAN
    /\ keyGone \in Times \cup {Never} /\ instGone \in Times \cup {Never}
    /\ ticket \in [Conns -> Ticket]
    /\ dialled \in [Conns -> Times \cup {Never}]

Init ==
    /\ now = 0
    /\ hits = [ip \in IPs |-> NoHits] /\ let = [ip \in IPs |-> NoHits]
    /\ lastSwep = -Window
    /\ account = FALSE
    /\ client = [c \in Clients |-> [at |-> "out", began |-> 0, used |-> Never, late |-> 0]]
    /\ session = [c \in Clients |-> [live |-> FALSE, expires |-> 0, ended |-> Never]]
    /\ key = FALSE /\ keyGone = Never
    /\ inst = TRUE /\ instGone = Never
    /\ ticket = [c \in Conns |-> NoTicket]
    /\ dialled = [c \in Conns |-> Never]

-----------------------------------------------------------------------------
(* RateLimiter *)

\* How many hits there are up to each time.
Totals(h) ==
    LET sum[t \in Times] == IF t = 0 THEN h[0] ELSE sum[t - 1] + h[t]
    IN  sum

\* How many there are.
Total(h) == Totals(h)[MaxTime]

\* The hits that are strictly after the cutoff.
Fresh(h) == [t \in Times |-> IF t > now - Window THEN h[t] ELSE 0]

\* Dropping only the keys that Allow left without hits.
sweepLocked_EmptyOnly(h) == h

\* sweepLocked: a key without a fresh hit is dropped.
sweepLocked(h) == IF Fresh(h) = NoHits THEN NoHits ELSE h

\* Counting the hits before this one.
Allows_Inclusive(ip) == Total(Fresh(hits[ip])) <= Limit

\* Whether Allow lets the key in now.
Allows(ip) == Total(Fresh(hits[ip])) < Limit

\* Allow: prune the key, record the hit if it is let in, and once per window
\* sweep the whole map.
Allow(ip) ==
    LET add(h) == IF Allows(ip) THEN [h EXCEPT ![now] = @ + 1] ELSE h
        h1 == [hits EXCEPT ![ip] = add(Fresh(@))]
        due == now - lastSwep >= Window
    IN  /\ hits' = IF due THEN [k \in IPs |-> sweepLocked(h1[k])] ELSE h1
        /\ lastSwep' = IF due THEN now ELSE lastSwep
        /\ let' = [let EXCEPT ![ip] = add(@)]

-----------------------------------------------------------------------------
(* Accounts and sessions *)

Goto(c, place) == client' = [client EXCEPT ![c].at = place]

\* The address is unique: a second registration fails.
CreateUser == ~account /\ account' = TRUE

\* Register: CreateUser, else 409.
Register(c) ==
    /\ client[c].at = "out"
    /\ CreateUser /\ Goto(c, "issue")
    /\ UNCHANGED <<now, limitVars, session, factVars, sshVars>>

\* Login: the limiter comes first.
Login(c, ip) ==
    /\ client[c].at = "out"
    /\ Allow(ip)
    /\ Goto(c, IF Allows(ip) THEN "checked" ELSE "out")
    /\ UNCHANGED <<now, account, session, factVars, sshVars>>

\* Authenticate: unknown user, wrong password and errors are all 401.
Authenticate(c) ==
    /\ client[c].at = "checked"
    /\ \/ account /\ Goto(c, "issue")
       \/ Goto(c, "out")
    /\ UNCHANGED <<now, limitVars, account, session, factVars, sshVars>>

\* issueSessionCookie: CreateSession, or 500 and no cookie.
CreateSession(c) ==
    /\ client[c].at = "issue"
    /\ \/ /\ session' = [session EXCEPT ![c] = [live |-> TRUE, expires |-> now + SessionTTL,
                                                ended |-> Never]]
          /\ client' = [client EXCEPT ![c] = [at |-> "in", began |-> 0, used |-> Never, late |-> 0]]
       \/ Goto(c, "out") /\ UNCHANGED session
    /\ UNCHANGED <<now, limitVars, account, factVars, sshVars>>

\* where token_hash = $1 and expires_at > now()
GetSessionByTokenHash(c) == session[c].live /\ session[c].expires > now

\* Finding the row by its hash only.
LoadSession_NoExpiry(c) ==
    /\ client[c].at = "in" /\ session[c].live
    /\ client' = [client EXCEPT ![c].at = "loaded", ![c].began = now]
    /\ UNCHANGED <<now, limitVars, account, session, factVars, sshVars>>

\* LoadSession and RequireUser: the request goes on as the user, or is 401 and
\* the client has to log in again.
LoadSession(c) ==
    /\ client[c].at = "in"
    /\ client' = IF GetSessionByTokenHash(c)
                 THEN [client EXCEPT ![c].at = "loaded", ![c].began = now]
                 ELSE [client EXCEPT ![c].at = "out"]
    /\ UNCHANGED <<now, limitVars, account, session, factVars, sshVars>>

\* insert into ssh_keys; a second copy is 409.
AddKey == ~key /\ key' = TRUE /\ keyGone' = Never

\* delete from ssh_keys where id = $1 and user_id = $2; no row is 404.
DeleteKey == key /\ key' = FALSE /\ keyGone' = now

\* What an authenticated request does to the key: add it, delete it, or nothing
\* (another request, or an error).  Nothing bounds how late it comes, and the
\* session is not looked at again.
HandleRequest(c) ==
    /\ client[c].at = "loaded"
    /\ client' = [client EXCEPT ![c] =
                    [at |-> "in", began |-> 0, used |-> @.began,
                     late |-> IF GetSessionByTokenHash(c) THEN @.late ELSE @.late + 1]]
    /\ \/ AddKey
       \/ DeleteKey
       \/ UNCHANGED <<key, keyGone>>
    /\ UNCHANGED <<now, limitVars, account, session, inst, instGone, sshVars>>

\* delete from sessions where token_hash = $1
DeleteSessionByTokenHash(c) ==
    /\ session[c].live
    /\ session' = [session EXCEPT ![c].live = FALSE, ![c].ended = now]

\* Logout: whatever RevokeSession returns, the answer is 204 and the browser
\* drops its cookie; when it failed the row stays.  A request under way goes on,
\* and one already prepared, or a copy of the cookie, still carries the token.
Logout(c) ==
    /\ client[c].at \in {"in", "loaded"}
    /\ DeleteSessionByTokenHash(c) \/ UNCHANGED session
    /\ \/ UNCHANGED client
       \/ client[c].at = "in" /\ Goto(c, "out")
    /\ UNCHANGED <<now, limitVars, account, factVars, sshVars>>

-----------------------------------------------------------------------------
(* SSH tickets *)

TicketAt(c, place) == ticket' = [ticket EXCEPT ![c].at = place]

\* ssh-proxy asks for a ticket with the fingerprint of the client's key.
AskTicket(c) ==
    /\ ticket[c].at = "none"
    /\ ticket' = [ticket EXCEPT ![c].at = "key", ![c].began = now]
    /\ UNCHANGED <<now, limitVars, userVars, factVars, dialled>>

\* select user_id from ssh_keys where fingerprint = $1
LookupSSHKeyByFingerprint == key

\* An unknown fingerprint is 404.
LookupUserByFingerprint(c) ==
    /\ ticket[c].at = "key" /\ LookupSSHKeyByFingerprint
    /\ TicketAt(c, "inst")
    /\ UNCHANGED <<now, limitVars, userVars, factVars, dialled>>

\* where owner_id = $1 and id::text like $2 || '%'; the row has to be running
\* and to have an address.
ListInstancesByOwnerAndIDPrefix == inst

resolveInstanceByPrefix(c) ==
    /\ ticket[c].at = "inst" /\ ListInstancesByOwnerAndIDPrefix
    /\ TicketAt(c, "issue")
    /\ UNCHANGED <<now, limitVars, userVars, factVars, dialled>>

\* The node is online: Signer.Issue, and the answer reaches ssh-proxy.
Issue(c) ==
    /\ ticket[c].at = "issue"
    /\ ticket' = [ticket EXCEPT ![c] = [at |-> "have", began |-> 0, expires |-> now + TicketTTL]]
    /\ UNCHANGED <<now, limitVars, userVars, factVars, dialled>>

\* time.Now().After(p.ExpiresAt.Add(-time.Second))
Expired(c) == now > ticket[c].expires - Margin

\* Relay: the ticket is valid, a stream opens and carries its expiry.
Relay(c) ==
    /\ ticket[c].at = "have" /\ ~Expired(c)
    /\ TicketAt(c, "stream")
    /\ UNCHANGED <<now, limitVars, userVars, factVars, dialled>>

\* Relying on the check ssh-proxy has made.
handleStream_NoExpiry(c) ==
    /\ ticket[c].at = "stream"
    /\ ticket' = [ticket EXCEPT ![c] = [NoTicket EXCEPT !.at = "done"]]
    /\ dialled' = [dialled EXCEPT ![c] = now]
    /\ UNCHANGED <<now, limitVars, userVars, factVars>>

\* handleStream: the agent reads the header, checks the expiry and dials.
handleStream(c) ==
    /\ ticket[c].at = "stream" /\ ~Expired(c)
    /\ ticket' = [ticket EXCEPT ![c] = [NoTicket EXCEPT !.at = "done"]]
    /\ dialled' = [dialled EXCEPT ![c] = now]
    /\ UNCHANGED <<now, limitVars, userVars, factVars>>

\* Any refusal, error or timeout on the way; the client may connect again.
TicketFails(c) ==
    /\ ticket[c].at \notin {"none", "done"}
    /\ ticket' = [ticket EXCEPT ![c] = NoTicket]
    /\ UNCHANGED <<now, limitVars, userVars, factVars, dialled>>

-----------------------------------------------------------------------------
(* The instance and time *)

InstanceEnds ==
    /\ inst
    /\ inst' = FALSE /\ instGone' = now
    /\ UNCHANGED <<now, limitVars, userVars, key, keyGone, sshVars>>

\* Time passes; a ticket call takes no longer than the timeout of its client.
Tick ==
    /\ now < MaxTime
    /\ \A c \in Conns : ticket[c].at \in {"key", "inst", "issue"} => now < ticket[c].began + Patience
    /\ now' = now + 1
    /\ UNCHANGED <<limitVars, userVars, factVars, sshVars>>

-----------------------------------------------------------------------------
(* Specification *)

Next ==
    \/ \E c \in Clients : \/ Register(c) \/ (\E ip \in IPs : Login(c, ip)) \/ Authenticate(c)
                          \/ CreateSession(c)
                          \/ LoadSession(c) \/ HandleRequest(c) \/ Logout(c)
    \/ \E c \in Conns : \/ AskTicket(c) \/ LookupUserByFingerprint(c)
                        \/ resolveInstanceByPrefix(c) \/ Issue(c) \/ Relay(c)
                        \/ handleStream(c) \/ TicketFails(c)
    \/ InstanceEnds
    \/ Tick

Spec == Init /\ [][Next]_vars

-----------------------------------------------------------------------------
(* Properties *)

\* "login IP 5/min" (LoginRateLimit): in no window that starts at any time is
\* a key let in more often than Limit, across pruning and sweeps.
LimitHolds ==
    \A ip \in IPs, s \in Times :
        Total([t \in Times |-> IF t \in s..(s + Window - 1) THEN let[ip][t] ELSE 0]) <= Limit

\* Neither pruning nor a sweep on behalf of another key forgets a hit that
\* still counts, and refused attempts count for nothing: what Allow counts for
\* a key is what it let in during the last window.
LimiterExact ==
    \A ip \in IPs, t \in Times : t > now - Window => hits[ip][t] = let[ip][t]

\* "an attacker rotating source IPs would grow the map unboundedly" (Allow):
\* every key in the map was let in less than a window before the last sweep,
\* or since.
KeysReclaimed ==
    \A ip \in IPs : hits[ip] # NoHits => \E t \in Times : hits[ip][t] > 0 /\ t > lastSwep - Window

\* LookupSession "returns pgx.ErrNoRows when the token is unknown or expired"
\* (auth/repo.go), and it is asked once, before the request does anything.  So
\* once a session is over, its row deleted by a logout or expired, at most the
\* request that was then under way is still served, and it began before the
\* session expired and no later than the logout.  A logout whose RevokeSession
\* failed ends nothing: the session is then over when it expires.
SessionEnds ==
    \A c \in Clients :
        /\ client[c].late <= 1
        /\ client[c].used # Never =>
              /\ client[c].used < session[c].expires
              /\ session[c].ended # Never => client[c].used <= session[c].ended

\* How long after a lookup the agent may still dial: the ticket is issued at
\* most a client timeout later, and both relays stop Margin before it expires.
DialLatency == Patience + TicketTTL - Margin

\* "Expiry is re-checked here as defense in depth so a long-held stream cannot
\* route a stale ticket" (muxclient handler): the agent dials the address of
\* the instance at most that long after the instance ended or the user removed
\* the key, although no service tells another about either.
DialIsFresh ==
    \A c \in Conns : dialled[c] # Never =>
        /\ instGone # Never => dialled[c] <= instGone + DialLatency
        /\ keyGone # Never => dialled[c] <= keyGone + DialLatency
=============================================================================
