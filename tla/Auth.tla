----------------------------- MODULE Auth -----------------------------
(***************************************************************************)
(* internal/auth: pairing codes, delegated sessions, clients and the       *)
(* tokens they present, over the configuration store.                      *)
(*                                                                         *)
(* Every method of auth.Service holds Service.mu from its first line to    *)
(* its return, and changes the configuration through one Store.Update,     *)
(* which saves all of it or none (module Store), so one method is one      *)
(* action.  What does interleave is everything between two methods: the    *)
(* clock, other requests, a restart, a reply that is lost, and the gap     *)
(* between api.requireAuth, which authenticates a request, and the         *)
(* handler that acts later on the claims it was given.                     *)
(*                                                                         *)
(* A method that returns an error has saved nothing (Update drops the      *)
(* configuration when its callback fails), not even the pruning of         *)
(* expired entries it began with; it leaves every variable as it was and   *)
(* is not an action here, except where it ends a request in progress.      *)
(*                                                                         *)
(* The lists of the configuration are sets of records.  Their order is     *)
(* looked at only by EnsureBootstrap, which announces the first pending    *)
(* code; random identifiers are drawn from those not yet in use.           *)
(***************************************************************************)
EXTENDS Integers

CONSTANTS
    Codes, SessionIDs, ClientIDs, JTIs,  \* the random identifiers
    Scopes,          \* the scope names in use
    ScopeRequests,   \* the scope lists a caller may send, cleaned
    TTLs,            \* the ttl arguments of generate_pairing_code
    PairingTTL,      \* a pairing code by default (2 minutes)
    SessionTTL,      \* a session waiting for approval (3 minutes)
    DelegatedTTL,    \* the token of an approved session (24 hours)
    DefaultTTL,      \* the token of a paired client (90 days)
    MaxTime,         \* bound: the clock stops here
    NoToken, NoRequest

(* The three scopes the code itself names; a caller may name others.       *)
DefaultScope == {"read", "send", "attach"}

SessionScope == {"read", "send"}

Token == [jti : JTIs, sub : ClientIDs, scopes : SUBSET Scopes, expiry : Nat]

ASSUME AuthAssumption ==
    /\ NoToken \notin Token
    /\ DefaultScope \subseteq Scopes
    /\ ScopeRequests \subseteq SUBSET Scopes
    /\ NoRequest \notin ScopeRequests
    /\ Codes \intersect SessionIDs = {}
    /\ TTLs \subseteq Int
    /\ PairingTTL \in Nat \ {0}
    /\ SessionTTL \in Nat \ {0}
    /\ DelegatedTTL \in Nat \ {0}
    /\ DefaultTTL \in Nat \ {0}
    /\ MaxTime \in Nat

VARIABLES
    now,       \* the wall clock, in one unit for every duration
    codes,     \* Config.PendingPairingCodes
    sessions,  \* Config.PendingSessions
    clients,   \* Config.Clients
    held,      \* the tokens that reached somebody outside the daemon
    inflight,  \* claims of authenticated approval requests not yet served
    issued     \* history: every entry ever put in codes

vars == <<now, codes, sessions, clients, held, inflight, issued>>

-----------------------------------------------------------------------
(* Records.                                                                *)

PendingCode == [code : Codes, scopes : SUBSET Scopes, expiresAt : Nat]

PendingSession ==
    [id : SessionIDs, status : {"pending", "approved"},
     token : Token \union {NoToken}, expiresAt : Nat]

(* via and root are history: the code or session that created the client,  *)
(* and the code its chain of approvals starts from.                        *)
Client ==
    [id : ClientIDs, jti : JTIs, scopes : SUBSET Scopes,
     createdAt : Nat, lastSeen : Nat, revoked : BOOLEAN,
     via : Codes \union SessionIDs, root : Codes]

TypeOK ==
    /\ now \in 0..MaxTime
    /\ codes \subseteq PendingCode
    /\ sessions \subseteq PendingSession
    /\ clients \subseteq Client
    /\ held \subseteq Token
    /\ inflight \subseteq Token
    /\ issued \subseteq PendingCode

-----------------------------------------------------------------------
(* Helpers.                                                                *)

\* Mutant of Unexpired: the boundary instant still counts.
UnexpiredAtBoundary(entry) == entry.expiresAt >= now

(* ExpiresAt.After(now).                                                   *)
Unexpired(entry) == entry.expiresAt > now

UnexpiredCodes == {p \in codes : Unexpired(p)}

(* An approved session is kept for good, expired or not.                   *)
KeptSessions == {s \in sessions : Unexpired(s) \/ s.status = "approved"}

(* The client a token speaks for: same subject, same token id.             *)
Owns(client, token) == client.id = token.sub /\ client.jti = token.jti

\* Mutant of Accepts: the revoked flag is not looked at.
AcceptsRevoked(client, token) == Owns(client, token)

(* Authenticate's search of the client list.                               *)
Accepts(client, token) == Owns(client, token) /\ ~client.revoked

\* Mutant of MayGrant: some requested scope is the approver's, not all.
MayGrantSome(scopes, claims) == scopes \intersect claims.scopes # {}

(* scopesSubset, against the claims the request was authenticated with.    *)
MayGrant(scopes, claims) == scopes \subseteq claims.scopes

FreshClientIDs == ClientIDs \ {c.id : c \in clients}

FreshJTIs == JTIs \ {c.jti : c \in clients}

(* TokenManager.Mint.                                                      *)
Mint(jti, id, scopes, ttl) ==
    [jti |-> jti, sub |-> id, scopes |-> scopes, expiry |-> now + ttl]

\* Mutant of NewClient: registered with the default scopes, not its own.
NewClientDefaultScope(token, via, root) ==
    [id |-> token.sub, jti |-> token.jti, scopes |-> DefaultScope,
     createdAt |-> now, lastSeen |-> now, revoked |-> FALSE,
     via |-> via, root |-> root]

NewClient(token, via, root) ==
    [id |-> token.sub, jti |-> token.jti, scopes |-> token.scopes,
     createdAt |-> now, lastSeen |-> now, revoked |-> FALSE,
     via |-> via, root |-> root]

NewCode(code, scopes, ttl) ==
    [code |-> code, scopes |-> scopes, expiresAt |-> now + ttl]

\* Mutant of Approved: the three minutes of the pending session stay.
ApprovedKeepsExpiry(s, token) ==
    [s EXCEPT !.status = "approved", !.token = token]

Approved(s, token) ==
    [s EXCEPT !.status = "approved", !.token = token,
              !.expiresAt = token.expiry]

AddCode(entry) ==
    /\ entry.code \notin {g.code : g \in issued}
    /\ codes' = UnexpiredCodes \union {entry}
    /\ issued' = issued \union {entry}

-----------------------------------------------------------------------
(* Actions.                                                                *)

Init ==
    /\ now = 0
    /\ codes = {}
    /\ sessions = {}
    /\ clients = {}
    /\ held = {}
    /\ inflight = {}
    /\ issued = {}

Tick ==
    /\ now < MaxTime
    /\ now' = now + 1
    /\ UNCHANGED <<codes, sessions, clients, held, inflight, issued>>

(* EnsureBootstrap, which main runs once at every start.  A restart drops  *)
(* the requests in progress.  Which pending code it announces is not       *)
(* recorded: announcing changes no state.                                  *)
Restart ==
    /\ inflight' = {}
    /\ \/ /\ \/ \E c \in clients : ~c.revoked
             \/ UnexpiredCodes # {}
          /\ codes' = UnexpiredCodes
          /\ UNCHANGED issued
       \/ /\ \A c \in clients : c.revoked
          /\ UnexpiredCodes = {}
          /\ \E code \in Codes :
                 AddCode(NewCode(code, DefaultScope, PairingTTL))
    /\ UNCHANGED <<now, sessions, clients, held>>

(* The control socket's generate_pairing_code.                             *)
GeneratePairingCode(code, request, ttl) ==
    /\ AddCode(NewCode(code,
                       IF request = NoRequest THEN DefaultScope ELSE request,
                       IF ttl <= 0 THEN PairingTTL ELSE ttl))
    /\ UNCHANGED <<now, sessions, clients, held, inflight>>

\* Mutant of Pair: the code stays on the list.
PairKeepsCode(pending, id, jti, heard) ==
    LET token == Mint(jti, id, pending.scopes, DefaultTTL) IN
    /\ pending \in UnexpiredCodes
    /\ codes' = UnexpiredCodes
    /\ clients' = clients \union {NewClient(token, pending.code, pending.code)}
    /\ held' = IF heard THEN held \union {token} ELSE held
    /\ UNCHANGED <<now, sessions, inflight, issued>>

(* POST /v1/pair.  heard is whether the reply, the only copy of the token, *)
(* reaches the caller.                                                     *)
Pair(pending, id, jti, heard) ==
    LET token == Mint(jti, id, pending.scopes, DefaultTTL) IN
    /\ pending \in UnexpiredCodes
    /\ codes' = UnexpiredCodes \ {pending}
    /\ clients' = clients \union {NewClient(token, pending.code, pending.code)}
    /\ held' = IF heard THEN held \union {token} ELSE held
    /\ UNCHANGED <<now, sessions, inflight, issued>>

(* POST /v1/sessions.                                                      *)
CreateSession(id) ==
    /\ id \notin {s.id : s \in sessions}
    /\ codes' = UnexpiredCodes
    /\ sessions' = KeptSessions \union
                     {[id |-> id, status |-> "pending", token |-> NoToken,
                       expiresAt |-> now + SessionTTL]}
    /\ UNCHANGED <<now, clients, held, inflight, issued>>

(* GET /v1/sessions/{id}: hands the token of an approved session to every  *)
(* poll until the session expires.  Reads only.                            *)
GetSession(s) ==
    /\ s.status = "approved"
    /\ Unexpired(s)
    /\ held' = held \union {s.token}
    /\ UNCHANGED <<now, codes, sessions, clients, inflight, issued>>

(* Authenticate finds the unrevoked client the token speaks for and marks  *)
(* when it was last seen.                                                  *)
Authenticate(token) ==
    /\ now < token.expiry
    /\ \E c \in clients :
           /\ Accepts(c, token)
           /\ clients' = (clients \ {c}) \union {[c EXCEPT !.lastSeen = now]}

HasScope(claims, scope) == scope \in claims.scopes

(* requireAuth("send", ...) before the approval handler.  The client is    *)
(* marked seen even if the scope check then refuses the request; an        *)
(* accepted request keeps the claims.                                      *)
RequireAuth(token) ==
    /\ Authenticate(token)
    /\ inflight' = IF HasScope(token, "send") THEN inflight \union {token}
                                              ELSE inflight
    /\ UNCHANGED <<now, codes, sessions, held, issued>>

(* The approval itself, on claims checked earlier.  It does not look at    *)
(* the status: approving an approved session mints another client and      *)
(* replaces the token the session hands out.                               *)
ApproveSession(s, claims, request, id, jti) ==
    LET scopes == IF request = {} THEN SessionScope ELSE request
        token  == Mint(jti, id, scopes, DelegatedTTL)
    IN
    /\ MayGrant(scopes, claims)
    /\ s \in KeptSessions
    /\ Unexpired(s)
    /\ \E by \in clients :
           /\ by.id = claims.sub  \* only to record the root
           /\ clients' = clients \union {NewClient(token, s.id, by.root)}
    /\ sessions' = (KeptSessions \ {s}) \union {Approved(s, token)}
    /\ inflight' = inflight \ {claims}
    /\ UNCHANGED <<now, codes, held, issued>>

(* An authenticated request that changes nothing: refused by the rate      *)
(* limit, malformed, or answered with an error by ApproveSession.          *)
RequestFails(claims) ==
    /\ inflight' = inflight \ {claims}
    /\ UNCHANGED <<now, codes, sessions, clients, held, issued>>

\* Mutant of RevokeClient: the record is deleted instead of marked.
RevokeClientDeletes(c) ==
    /\ clients' = clients \ {c}
    /\ UNCHANGED <<now, codes, sessions, held, inflight, issued>>

(* The control socket's revoke_client.                                     *)
RevokeClient(c) ==
    /\ clients' = (clients \ {c}) \union {[c EXCEPT !.revoked = TRUE]}
    /\ UNCHANGED <<now, codes, sessions, held, inflight, issued>>

Next ==
    \/ Tick
    \/ Restart
    \/ \E code \in Codes, request \in ScopeRequests \union {NoRequest},
         ttl \in TTLs : GeneratePairingCode(code, request, ttl)
    \/ \E p \in codes, id \in FreshClientIDs, jti \in FreshJTIs,
         heard \in BOOLEAN : Pair(p, id, jti, heard)
    \/ \E id \in SessionIDs : CreateSession(id)
    \/ \E s \in sessions : GetSession(s)
    \/ \E t \in held : RequireAuth(t)
    \/ \E s \in sessions, t \in inflight, request \in ScopeRequests,
         id \in FreshClientIDs, jti \in FreshJTIs :
             ApproveSession(s, t, request, id, jti)
    \/ \E t \in inflight : RequestFails(t)
    \/ \E c \in clients : RevokeClient(c)

Spec == Init /\ [][Next]_vars

-----------------------------------------------------------------------
(* Properties.                                                             *)

(* A pairing code makes at most one client, whatever becomes of the reply, *)
(* of restarts and of retries, and once it has made one it is no longer    *)
(* pending (Pair).                                                         *)
CodeSingleUse ==
    /\ \A c, d \in clients : c.via \in Codes /\ c.via = d.via => c.id = d.id
    /\ \A c \in clients, p \in codes : p.code # c.via

(* However long the chain of approvals, a client has no scope that the     *)
(* operator's code at the root of the chain did not carry (Pair, the       *)
(* subset test of ApproveSession on claims taken earlier).                 *)
ScopesAttenuate ==
    \A c \in clients :
        \E g \in issued : g.code = c.root /\ c.scopes \subseteq g.scopes

(* Every token that left the daemon, or waits in a request or a session,   *)
(* still belongs to a registered client with exactly the token's scopes:   *)
(* no later approval, restart or revocation orphans or re-binds it (Mint   *)
(* against the client list that Authenticate searches).                    *)
Bound(token) ==
    \E c \in clients : Owns(c, token) /\ c.scopes = token.scopes

TokensBound == \A t \in held \union inflight : Bound(t)

(* An approved session hands out a token that works for as long as the     *)
(* session does: they expire together and the client the token names was   *)
(* made for this session (ApproveSession, also when it runs twice).        *)
SessionTokenLive ==
    \A s \in sessions : s.status = "approved" =>
        /\ s.token # NoToken
        /\ s.token.expiry = s.expiresAt
        /\ \E c \in clients : Owns(c, s.token) /\ c.via = s.id

(* A client appears only through a code or session that is on the list     *)
(* and has not yet expired at that very moment (pruneExpiredCodes and      *)
(* ApproveSession's own test: the boundary instant counts as expired).     *)
NoLateRedemption ==
    [][\A c \in clients' : c.id \in FreshClientIDs =>
          \/ \E p \in codes : p.code = c.via /\ now < p.expiresAt
          \/ \E s \in sessions : s.id = c.via /\ now < s.expiresAt]_vars

(* After revoke_client the record is frozen for good, and no request of    *)
(* the client gets past authentication again, restarts and re-approvals    *)
(* included.  A request already past it may still be served.               *)
RevokedStaysOut ==
    [][/\ \A c \in clients : c.revoked => c \in clients'
       /\ \A t \in inflight' \ inflight :
              \A c \in clients : c.id = t.sub => ~c.revoked]_vars

-----------------------------------------------------------------------
(* What the safety properties rest on, checked by TLC and shown inductive   *)
(* in AuthProofs.                                                          *)

(* Identifiers are never shared between clients.                           *)
UniqueClients ==
    \A c, d \in clients : c.id = d.id \/ c.jti = d.jti => c = d

(* The history of codes covers the pending ones and those used up, and no  *)
(* code is drawn twice.                                                    *)
CodesIssued ==
    /\ codes \subseteq issued
    /\ \A g, h \in issued : g.code = h.code => g = h
    /\ \A c \in clients : c.via \in Codes => c.via \in {g.code : g \in issued}

(* A poll can only ever hand out a token that is bound.                    *)
SessionTokensBound ==
    \A s \in sessions : s.status = "approved" => Bound(s.token)

AuthInv ==
    /\ TypeOK
    /\ UniqueClients
    /\ CodesIssued
    /\ SessionTokensBound
    /\ CodeSingleUse
    /\ ScopesAttenuate
    /\ TokensBound
    /\ SessionTokenLive

-----------------------------------------------------------------------
(* The service is a ledger of memberships.                                 *)

Ledger == INSTANCE Grants WITH
    offers  <- {[code |-> p.code, scopes |-> p.scopes] : p \in codes},
    offered <- {g.code : g \in issued},
    members <- {[id |-> c.id, scopes |-> c.scopes, revoked |-> c.revoked] :
                    c \in clients}

(* Every operation of the service, its housekeeping, restarts and stale    *)
(* claims included, is a step of the ledger or invisible in it (all of     *)
(* pairing.go).                                                            *)
ImplementsGrants == Ledger!GSpec

=======================================================================
