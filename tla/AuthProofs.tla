-------------------------- MODULE AuthProofs --------------------------
(***************************************************************************)
(* Proofs about Auth, for any identifiers, scopes, durations and clock.    *)
(*                                                                         *)
(* AuthInv is inductive.  The clients list is the hub of the argument:     *)
(* records are only added, under fresh identifiers, or re-written in the   *)
(* two fields (last seen, revoked) that no property of a token looks at,   *)
(* so whatever is bound to a client stays bound to it.                     *)
(***************************************************************************)
EXTENDS Auth, TLAPS

(* What a step leaves of the clients list, as far as tokens can tell.      *)
ClientsKept ==
    \A c \in clients : \E d \in clients' :
        /\ d.id = c.id /\ d.jti = c.jti /\ d.scopes = c.scopes
        /\ d.via = c.via /\ d.root = c.root

(* A bound token stays bound while client records keep their identity      *)
(* (Authenticate's search finds the same record).                          *)
LEMMA BoundKept ==
    ASSUME NEW t, Bound(t), ClientsKept
    PROVE  Bound(t)'
  BY DEF Bound, Owns, ClientsKept

(* Mint makes a well-formed token from well-formed arguments.              *)
LEMMA MintType ==
    ASSUME TypeOK, AuthAssumption,
           NEW jti \in JTIs, NEW id \in ClientIDs,
           NEW scopes \in SUBSET Scopes, NEW ttl \in Nat
    PROVE  Mint(jti, id, scopes, ttl) \in Token
  BY DEF TypeOK, AuthAssumption, Mint, Token

(* A code entry made now is well-formed.                                   *)
LEMMA NewCodeType ==
    ASSUME TypeOK, AuthAssumption,
           NEW code \in Codes, NEW scopes \in SUBSET Scopes, NEW ttl \in Nat
    PROVE  NewCode(code, scopes, ttl) \in PendingCode
  BY DEF TypeOK, AuthAssumption, NewCode, PendingCode

(* The initial configuration, an empty file, satisfies the invariant.      *)
LEMMA InitInv == Init => AuthInv
  BY AuthAssumption
     DEF AuthAssumption, Init, AuthInv, TypeOK, UniqueClients, CodesIssued,
         SessionTokensBound, CodeSingleUse, ScopesAttenuate, TokensBound,
         SessionTokenLive

(* A step that leaves clients and issued alone, only drops codes and       *)
(* sessions, and moves tokens around keeps the invariant (Tick, GetSession,*)
(* RequestFails).                                                          *)
LEMMA HousekeepingInv ==
    ASSUME AuthInv,
           UNCHANGED <<clients, issued>>,
           now' \in 0..MaxTime,
           codes' \subseteq codes,
           \A s \in sessions' : s \in sessions \/ s.status = "pending",
           sessions' \subseteq PendingSession,
           held' \subseteq held \union {s.token : s \in
                             {r \in sessions : r.status = "approved"}},
           inflight' \subseteq inflight
    PROVE  AuthInv'
<1> USE DEF AuthInv
<1>1. ClientsKept
  BY DEF ClientsKept
<1>2. \A s \in sessions : s.status = "approved" => s.token \in Token
  BY DEF TypeOK, PendingSession, SessionTokenLive
<1>3. TypeOK'
  BY <1>2 DEF TypeOK
<1>4. UniqueClients' /\ CodesIssued' /\ CodeSingleUse' /\ ScopesAttenuate'
  BY DEF UniqueClients, CodesIssued, CodeSingleUse, ScopesAttenuate
<1>5. SessionTokensBound'
  BY <1>1, BoundKept DEF SessionTokensBound
<1>6. TokensBound'
  BY <1>1, BoundKept DEF TokensBound, SessionTokensBound
<1>7. SessionTokenLive'
  BY DEF SessionTokenLive
<1> QED
  BY <1>3, <1>4, <1>5, <1>6, <1>7

(* Re-writing lastSeen or revoked of one record keeps the invariant        *)
(* (Authenticate, RevokeClient).                                           *)
LEMMA MarkInv ==
    ASSUME AuthInv,
           UNCHANGED <<now, codes, sessions, held, issued>>,
           inflight' \subseteq inflight \union held,
           NEW c \in clients,
           NEW d \in Client,
           d.id = c.id, d.jti = c.jti, d.scopes = c.scopes,
           d.via = c.via, d.root = c.root,
           clients' = (clients \ {c}) \union {d}
    PROVE  AuthInv'
<1> USE DEF AuthInv
<1>1. ClientsKept
  BY DEF ClientsKept
<1>2. \A y \in clients' : \E x \in clients :
         /\ y.id = x.id /\ y.jti = x.jti /\ y.scopes = x.scopes
         /\ y.via = x.via /\ y.root = x.root /\ (y = x \/ (x = c /\ y = d))
  OBVIOUS
<1>3. TypeOK'
  BY DEF TypeOK
<1>4. UniqueClients'
  <2> SUFFICES ASSUME NEW x \in clients', NEW y \in clients',
                      x.id = y.id \/ x.jti = y.jti
               PROVE  x = y
    BY DEF UniqueClients
  <2>1. CASE x = d
    BY <2>1 DEF UniqueClients
  <2>2. CASE x # d /\ y = d
    BY <2>2 DEF UniqueClients
  <2>3. CASE x # d /\ y # d
    BY <2>3 DEF UniqueClients
  <2> QED
    BY <2>1, <2>2, <2>3
<1>5. CodesIssued' /\ CodeSingleUse' /\ ScopesAttenuate'
  BY <1>2 DEF CodesIssued, CodeSingleUse, ScopesAttenuate
<1>6. SessionTokensBound' /\ TokensBound'
  BY <1>1, BoundKept DEF SessionTokensBound, TokensBound
<1>7. SessionTokenLive'
  BY <1>1 DEF SessionTokenLive, ClientsKept, Owns
<1> QED
  BY <1>3, <1>4, <1>5, <1>6, <1>7

(* Minting a client under fresh identifiers keeps every client distinct    *)
(* and everything bound that was (Pair, ApproveSession).                   *)
LEMMA AddClient ==
    ASSUME AuthInv, NEW c, c.id \in FreshClientIDs, c.jti \in FreshJTIs,
           clients' = clients \union {c}
    PROVE  UniqueClients' /\ ClientsKept
  BY DEF AuthInv, UniqueClients, ClientsKept, FreshClientIDs, FreshJTIs

(* EnsureBootstrap and GeneratePairingCode: a code never drawn before.     *)
LEMMA AddCodeInv ==
    ASSUME AuthInv, NEW entry \in PendingCode, AddCode(entry),
           UNCHANGED <<now, sessions, clients, held>>,
           inflight' \subseteq inflight
    PROVE  AuthInv'
<1> USE DEF AuthInv
<1>1. TypeOK'
  BY DEF TypeOK, AddCode, UnexpiredCodes
<1>2. UniqueClients' /\ SessionTokensBound' /\ TokensBound' /\ SessionTokenLive'
  BY DEF UniqueClients, SessionTokensBound, TokensBound, SessionTokenLive, Bound
<1>3. CodesIssued'
  BY DEF CodesIssued, AddCode, UnexpiredCodes
<1>4. CodeSingleUse'
  <2> SUFFICES ASSUME NEW c \in clients, NEW p \in codes'
               PROVE  p.code # c.via
    BY DEF CodeSingleUse
  <2>1. CASE p = entry
    <3>1. entry.code \in Codes
      BY DEF PendingCode
    <3>2. entry.code \notin {g.code : g \in issued}
      BY DEF AddCode
    <3>3. c.via \in Codes => c.via \in {g.code : g \in issued}
      BY DEF CodesIssued
    <3> QED
      BY <2>1, <3>1, <3>2, <3>3
  <2>2. CASE p # entry
    BY <2>2 DEF CodeSingleUse, AddCode, UnexpiredCodes
  <2> QED
    BY <2>1, <2>2
<1>5. ScopesAttenuate'
  BY DEF ScopesAttenuate, AddCode
<1> QED
  BY <1>1, <1>2, <1>3, <1>4, <1>5

(* Pair: the code leaves the list in the step that registers its client.   *)
LEMMA PairInv ==
    ASSUME AuthInv, AuthAssumption,
           NEW p \in codes, NEW id \in FreshClientIDs, NEW jti \in FreshJTIs,
           NEW heard \in BOOLEAN, Pair(p, id, jti, heard)
    PROVE  AuthInv'
<1> USE DEF AuthInv
<1>0. PICK token, new :
        /\ token = Mint(jti, id, p.scopes, DefaultTTL)
        /\ new = NewClient(token, p.code, p.code)
  OBVIOUS
<1>1. /\ p \in PendingCode
      /\ p \in issued
  BY DEF TypeOK, CodesIssued
<1>2. token \in Token
  BY <1>0, <1>1, MintType DEF FreshClientIDs, FreshJTIs, PendingCode, AuthAssumption
<1>3. new \in Client
  BY <1>0, <1>1, <1>2 DEF NewClient, Client, Token, PendingCode, TypeOK
<1>4. /\ new.id = id /\ new.jti = jti /\ new.scopes = p.scopes
      /\ new.via = p.code /\ new.root = p.code
      /\ token.sub = id /\ token.jti = jti /\ token.scopes = p.scopes
  BY <1>0 DEF NewClient, Mint
<1>5. /\ clients' = clients \union {new}
      /\ codes' \subseteq codes \ {p}
      /\ held' \subseteq held \union {token}
      /\ UNCHANGED <<now, sessions, inflight, issued>>
  BY <1>0 DEF Pair, UnexpiredCodes
<1>6. UniqueClients' /\ ClientsKept
  BY <1>4, <1>5, AddClient
<1>7. TypeOK'
  BY <1>2, <1>3, <1>5 DEF TypeOK
<1>8. CodesIssued'
  BY <1>1, <1>4, <1>5 DEF CodesIssued
<1>9. CodeSingleUse'
  <2>1. \A c \in clients : c.via # p.code
    BY DEF CodeSingleUse
  <2>2. \A q \in codes' : q.code # p.code
    BY <1>5 DEF CodesIssued
  <2> QED
    BY <1>4, <1>5, <2>1, <2>2 DEF CodeSingleUse
<1>10. ScopesAttenuate'
  BY <1>1, <1>4, <1>5 DEF ScopesAttenuate
<1>11. Bound(token)'
  BY <1>4, <1>5 DEF Bound, Owns
<1>12. SessionTokensBound' /\ TokensBound'
  <2>1. \A t : Bound(t) => Bound(t)'
    BY <1>6, BoundKept
  <2> QED
    BY <1>5, <1>11, <2>1 DEF SessionTokensBound, TokensBound
<1>13. SessionTokenLive'
  BY <1>5, <1>6 DEF SessionTokenLive, ClientsKept, Owns
<1> QED
  BY <1>6, <1>7, <1>8, <1>9, <1>10, <1>12, <1>13

(* ApproveSession: the claims are stale, but what they were taken from is  *)
(* still registered with the same scopes, so the new client's scopes are   *)
(* within those of the code its approver descends from.                    *)
LEMMA ApproveInv ==
    ASSUME AuthInv, AuthAssumption,
           NEW s \in sessions, NEW claims \in inflight,
           NEW request \in ScopeRequests,
           NEW id \in FreshClientIDs, NEW jti \in FreshJTIs,
           ApproveSession(s, claims, request, id, jti)
    PROVE  AuthInv'
<1> DEFINE scopes == IF request = {} THEN SessionScope ELSE request
<1> USE DEF AuthInv
<1>0. PICK token : token = Mint(jti, id, scopes, DelegatedTTL)
  OBVIOUS
<1>1. scopes \in SUBSET Scopes /\ s \in PendingSession
  BY DEF AuthAssumption, TypeOK, SessionScope, DefaultScope
<1>2. token \in Token
  BY <1>0, <1>1, MintType DEF FreshClientIDs, FreshJTIs, AuthAssumption
<1>3. /\ token.sub = id /\ token.jti = jti /\ token.scopes = scopes
  BY <1>0 DEF Mint
<1>4. PICK by \in clients :
        /\ by.id = claims.sub
        /\ clients' = clients \union {NewClient(token, s.id, by.root)}
  BY <1>0 DEF ApproveSession
<1>4a. PICK new : new = NewClient(token, s.id, by.root)
  OBVIOUS
<1>5. /\ new.id = id /\ new.jti = jti /\ new.scopes = scopes
      /\ new.via = s.id /\ new.root = by.root
  BY <1>3, <1>4a DEF NewClient
<1>6. new \in Client
  BY <1>1, <1>2, <1>4a DEF NewClient, Client, Token, PendingSession, TypeOK
<1>7. /\ scopes \subseteq claims.scopes
      /\ sessions' = (KeptSessions \ {s}) \union {Approved(s, token)}
      /\ inflight' = inflight \ {claims}
      /\ UNCHANGED <<now, codes, held, issued>>
  BY <1>0 DEF ApproveSession, MayGrant
<1>8. clients' = clients \union {new}
  BY <1>4, <1>4a
<1> HIDE DEF scopes
<1>9. UniqueClients' /\ ClientsKept
  BY <1>5, <1>8, AddClient
<1>10. /\ Approved(s, token) \in PendingSession
       /\ Approved(s, token).status = "approved"
       /\ Approved(s, token).token = token
       /\ Approved(s, token).expiresAt = token.expiry
       /\ Approved(s, token).id = s.id
  BY <1>1, <1>2 DEF Approved, PendingSession, Token
<1>11. TypeOK'
  BY <1>6, <1>7, <1>8, <1>10 DEF TypeOK, KeptSessions
<1>12. new.via \notin Codes
  BY <1>1, <1>5 DEF PendingSession, AuthAssumption
<1>13. CodesIssued'
  BY <1>7, <1>8, <1>12 DEF CodesIssued
<1>14. CodeSingleUse'
  <2>1. \A p \in codes : p.code \in Codes
    BY DEF TypeOK, PendingCode
  <2> QED
    BY <1>7, <1>8, <1>12, <2>1 DEF CodeSingleUse
<1>15. ScopesAttenuate'
  <2>1. PICK c \in clients : Owns(c, claims) /\ c.scopes = claims.scopes
    BY DEF TokensBound, Bound
  <2>2. c = by
    BY <1>4, <2>1 DEF UniqueClients, Owns
  <2>3. \E g \in issued : g.code = by.root /\ by.scopes \subseteq g.scopes
    BY DEF ScopesAttenuate
  <2> QED
    BY <1>5, <1>7, <1>8, <2>1, <2>2, <2>3 DEF ScopesAttenuate
<1>16. Bound(token)'
  BY <1>3, <1>5, <1>8 DEF Bound, Owns
<1>17. SessionTokensBound'
  <2> SUFFICES ASSUME NEW r \in sessions', r.status = "approved"
               PROVE  Bound(r.token)'
    BY DEF SessionTokensBound
  <2>1. CASE r = Approved(s, token)
    BY <1>10, <1>16, <2>1
  <2>2. CASE r \in sessions
    <3>1. Bound(r.token)
      BY <2>2 DEF SessionTokensBound
    <3> QED
      BY <1>9, <3>1, BoundKept
  <2> QED
    BY <1>7, <2>1, <2>2 DEF KeptSessions
<1>18. TokensBound'
  <2> SUFFICES ASSUME NEW t \in (held \union inflight)'
               PROVE  Bound(t)'
    BY DEF TokensBound
  <2>1. Bound(t)
    BY <1>7 DEF TokensBound
  <2> QED
    BY <1>9, <2>1, BoundKept
<1>19. SessionTokenLive'
  <2>1. token # NoToken
    BY <1>2 DEF AuthAssumption
  <2>2. \E c \in clients' : Owns(c, token) /\ c.via = s.id
    BY <1>3, <1>5, <1>8 DEF Owns
  <2>3. \A r \in sessions : r.status = "approved" =>
           \E c \in clients' : Owns(c, r.token) /\ c.via = r.id
    BY <1>9 DEF SessionTokenLive, ClientsKept, Owns
  <2> QED
    BY <1>7, <1>10, <2>1, <2>2, <2>3 DEF SessionTokenLive, KeptSessions
<1> QED
  BY <1>9, <1>11, <1>13, <1>14, <1>15, <1>17, <1>18, <1>19

(* Authenticate and RevokeClient re-write one record.                      *)
LEMMA RequireAuthInv ==
    ASSUME AuthInv, NEW t \in held, RequireAuth(t)
    PROVE  AuthInv'
<1>1. PICK c \in clients :
        clients' = (clients \ {c}) \union {[c EXCEPT !.lastSeen = now]}
  BY DEF RequireAuth, Authenticate
<1>2. PICK d : d = [c EXCEPT !.lastSeen = now]
  OBVIOUS
<1>3. c \in Client /\ now \in Nat
  BY AuthAssumption DEF AuthInv, TypeOK, AuthAssumption
<1>4. /\ d \in Client
      /\ d.id = c.id /\ d.jti = c.jti /\ d.scopes = c.scopes
      /\ d.via = c.via /\ d.root = c.root
  BY <1>2, <1>3 DEF Client
<1>5. /\ UNCHANGED <<now, codes, sessions, held, issued>>
      /\ inflight' \subseteq inflight \union held
  BY DEF RequireAuth, Authenticate
<1> QED
  BY <1>1, <1>2, <1>4, <1>5, MarkInv

LEMMA RevokeInv ==
    ASSUME AuthInv, NEW c \in clients, RevokeClient(c)
    PROVE  AuthInv'
<1>1. PICK d : d = [c EXCEPT !.revoked = TRUE]
  OBVIOUS
<1>2. c \in Client
  BY DEF AuthInv, TypeOK
<1>3. /\ d \in Client
      /\ d.id = c.id /\ d.jti = c.jti /\ d.scopes = c.scopes
      /\ d.via = c.via /\ d.root = c.root
  BY <1>1, <1>2 DEF Client
<1>4. /\ UNCHANGED <<now, codes, sessions, held, issued>>
      /\ inflight' \subseteq inflight \union held
      /\ clients' = (clients \ {c}) \union {d}
  BY <1>1 DEF RevokeClient
<1> QED
  BY <1>3, <1>4, MarkInv

(* Every step keeps the invariant.                                         *)
LEMMA NextInv == AuthInv /\ [Next]_vars => AuthInv'
<1> SUFFICES ASSUME AuthInv, [Next]_vars
             PROVE  AuthInv'
  OBVIOUS
<1> USE AuthAssumption
<1>0. /\ codes \subseteq PendingCode /\ sessions \subseteq PendingSession
      /\ now \in 0..MaxTime /\ MaxTime \in Nat
  BY DEF AuthInv, TypeOK, AuthAssumption
<1>1. CASE Tick
  BY <1>0, <1>1, HousekeepingInv DEF Tick
<1>2. CASE Restart
  <2>1. CASE codes' = UnexpiredCodes /\ UNCHANGED issued
    BY <1>0, <1>2, <2>1, HousekeepingInv DEF Restart, UnexpiredCodes
  <2>2. ASSUME NEW code \in Codes,
               AddCode(NewCode(code, DefaultScope, PairingTTL))
        PROVE  AuthInv'
    <3>1. PICK e : e = NewCode(code, DefaultScope, PairingTTL)
      OBVIOUS
    <3>2. e \in PendingCode
      BY <3>1, NewCodeType DEF AuthInv, AuthAssumption
    <3> QED
      BY <1>2, <2>2, <3>1, <3>2, AddCodeInv DEF Restart
  <2> QED
    BY <1>2, <2>1, <2>2 DEF Restart
<1>3. ASSUME NEW code \in Codes, NEW request \in ScopeRequests \union {NoRequest},
             NEW ttl \in TTLs, GeneratePairingCode(code, request, ttl)
      PROVE  AuthInv'
  <2>1. PICK e : e = NewCode(code,
                       IF request = NoRequest THEN DefaultScope ELSE request,
                       IF ttl <= 0 THEN PairingTTL ELSE ttl)
    OBVIOUS
  <2>2. /\ (IF request = NoRequest THEN DefaultScope ELSE request)
              \in SUBSET Scopes
        /\ (IF ttl <= 0 THEN PairingTTL ELSE ttl) \in Nat
    BY DEF AuthAssumption
  <2>3. e \in PendingCode
    BY <2>1, <2>2, NewCodeType DEF AuthInv
  <2> QED
    BY <1>3, <2>1, <2>3, AddCodeInv DEF GeneratePairingCode
<1>4. ASSUME NEW p \in codes, NEW id \in FreshClientIDs, NEW jti \in FreshJTIs,
             NEW heard \in BOOLEAN, Pair(p, id, jti, heard)
      PROVE  AuthInv'
  BY <1>4, PairInv
<1>5. ASSUME NEW id \in SessionIDs, CreateSession(id)
      PROVE  AuthInv'
  <2>1. PICK new : new = [id |-> id, status |-> "pending", token |-> NoToken,
                          expiresAt |-> now + SessionTTL]
    OBVIOUS
  <2>2. new \in PendingSession /\ new.status = "pending"
    BY <1>0, <2>1 DEF PendingSession, AuthAssumption
  <2>3. /\ sessions' \subseteq sessions \union {new}
        /\ codes' \subseteq codes
        /\ UNCHANGED <<now, clients, held, inflight, issued>>
    BY <1>5, <2>1 DEF CreateSession, KeptSessions, UnexpiredCodes
  <2> QED
    BY <1>0, <2>2, <2>3, HousekeepingInv
<1>6. ASSUME NEW s \in sessions, GetSession(s)
      PROVE  AuthInv'
  BY <1>0, <1>6, HousekeepingInv DEF GetSession
<1>7. ASSUME NEW t \in held, RequireAuth(t)
      PROVE  AuthInv'
  BY <1>7, RequireAuthInv
<1>8. ASSUME NEW s \in sessions, NEW t \in inflight, NEW request \in ScopeRequests,
             NEW id \in FreshClientIDs, NEW jti \in FreshJTIs,
             ApproveSession(s, t, request, id, jti)
      PROVE  AuthInv'
  BY <1>8, ApproveInv
<1>9. ASSUME NEW t \in inflight, RequestFails(t)
      PROVE  AuthInv'
  BY <1>0, <1>9, HousekeepingInv DEF RequestFails
<1>10. ASSUME NEW c \in clients, RevokeClient(c)
       PROVE  AuthInv'
  BY <1>10, RevokeInv
<1>11. CASE UNCHANGED vars
  BY <1>0, <1>11, HousekeepingInv DEF vars
<1> QED
  BY <1>1, <1>2, <1>3, <1>4, <1>5, <1>6, <1>7, <1>8, <1>9, <1>10, <1>11
     DEF Next

(* The inductive invariant, hence every safety invariant that MCAuth       *)
(* checks on its instance: well-typed configuration, one client per code,  *)
(* scopes bounded by the root code, no orphaned token, live session token. *)
THEOREM AuthInvariant == Spec => []AuthInv
  BY InitInv, NextInv, PTL DEF Spec

(* Types: no operation leaves an ill-formed configuration entry.           *)
THEOREM AuthTypeOK == Spec => []TypeOK
<1>1. AuthInv => TypeOK
  BY DEF AuthInv
<1> QED
  BY <1>1, AuthInvariant, PTL

(* A pairing code is redeemed at most once.                                *)
THEOREM OneClientPerCode == Spec => []CodeSingleUse
<1>1. AuthInv => CodeSingleUse
  BY DEF AuthInv
<1> QED
  BY <1>1, AuthInvariant, PTL

(* No chain of approvals, however long, gains a scope.                     *)
THEOREM NoEscalation == Spec => []ScopesAttenuate
<1>1. AuthInv => ScopesAttenuate
  BY DEF AuthInv
<1> QED
  BY <1>1, AuthInvariant, PTL

(* No token that left the daemon is ever orphaned or re-bound.             *)
THEOREM NoOrphanedToken == Spec => []TokensBound
<1>1. AuthInv => TokensBound
  BY DEF AuthInv
<1> QED
  BY <1>1, AuthInvariant, PTL

(* What an approved session hands out expires with it.                     *)
THEOREM SessionAndTokenAgree == Spec => []SessionTokenLive
<1>1. AuthInv => SessionTokenLive
  BY DEF AuthInv
<1> QED
  BY <1>1, AuthInvariant, PTL

-----------------------------------------------------------------------
(* Action properties.                                                      *)

(* A revoked client's record is frozen and no request of it passes         *)
(* Authenticate again.                                                     *)
LEMMA RevokedStep ==
    ASSUME AuthInv, [Next]_vars
    PROVE  /\ \A c \in clients : c.revoked => c \in clients'
           /\ \A t \in inflight' \ inflight :
                  \A c \in clients : c.id = t.sub => ~c.revoked
<1>1. clients \subseteq Client
  BY DEF AuthInv, TypeOK
<1>2. ASSUME NEW t \in held, RequireAuth(t)
      PROVE  /\ \A c \in clients : c.revoked => c \in clients'
             /\ \A u \in inflight' \ inflight :
                    \A c \in clients : c.id = u.sub => ~c.revoked
  <2>1. PICK c \in clients :
          /\ c.id = t.sub /\ ~c.revoked
          /\ clients' = (clients \ {c}) \union {[c EXCEPT !.lastSeen = now]}
    BY <1>2 DEF RequireAuth, Authenticate, Accepts, Owns
  <2>2. inflight' \ inflight \subseteq {t}
    BY <1>2 DEF RequireAuth, Authenticate
  <2>3. \A d \in clients : d.id = t.sub => d = c
    BY <2>1 DEF AuthInv, UniqueClients
  <2> QED
    BY <2>1, <2>2, <2>3
<1>3. ASSUME NEW c \in clients, RevokeClient(c)
      PROVE  \A d \in clients : d.revoked => d \in clients'
  <2>1. c.revoked => [c EXCEPT !.revoked = TRUE] = c
    BY <1>1 DEF Client
  <2> QED
    BY <1>3, <2>1 DEF RevokeClient
<1>4. CASE /\ clients \subseteq clients'
           /\ inflight' \subseteq inflight
  BY <1>4
<1> QED
  BY <1>2, <1>3, <1>4
     DEF Next, vars, Tick, Restart, GeneratePairingCode, Pair, CreateSession,
         GetSession, ApproveSession, RequestFails, RevokeClient

THEOREM RevocationIsFinal == Spec => RevokedStaysOut
<1>1. AuthInv /\ [Next]_vars =>
        [/\ \A c \in clients : c.revoked => c \in clients'
         /\ \A t \in inflight' \ inflight :
                \A c \in clients : c.id = t.sub => ~c.revoked]_vars
  BY RevokedStep
<1> QED
  BY <1>1, AuthInvariant, PTL DEF Spec, RevokedStaysOut

(* A new client comes from a code or session that has not expired yet.     *)
LEMMA CreationStep ==
    ASSUME AuthInv, [Next]_vars,
           NEW c \in clients', c.id \in FreshClientIDs
    PROVE  \/ \E p \in codes : p.code = c.via /\ now < p.expiresAt
           \/ \E s \in sessions : s.id = c.via /\ now < s.expiresAt
<1>1. c \notin clients
  BY DEF FreshClientIDs
<1>2. clients \subseteq Client /\ codes \subseteq PendingCode
      /\ sessions \subseteq PendingSession /\ now \in Nat
  BY AuthAssumption DEF AuthInv, TypeOK, AuthAssumption
<1>3. ASSUME NEW p \in codes, NEW id, NEW jti, NEW heard, Pair(p, id, jti, heard)
      PROVE  p.code = c.via /\ now < p.expiresAt
  BY <1>1, <1>2, <1>3 DEF Pair, UnexpiredCodes, Unexpired, NewClient, PendingCode
<1>4. ASSUME NEW s \in sessions, NEW t, NEW request, NEW id, NEW jti,
             ApproveSession(s, t, request, id, jti)
      PROVE  s.id = c.via /\ now < s.expiresAt
  BY <1>1, <1>2, <1>4 DEF ApproveSession, Unexpired, NewClient, PendingSession
<1>5. ASSUME NEW t, RequireAuth(t)
      PROVE  FALSE
  <2>1. PICK d \in clients :
          clients' = (clients \ {d}) \union {[d EXCEPT !.lastSeen = now]}
    BY <1>5 DEF RequireAuth, Authenticate
  <2> QED
    BY <1>1, <1>2, <2>1 DEF FreshClientIDs, Client
<1>6. ASSUME NEW d \in clients, RevokeClient(d)
      PROVE  FALSE
  BY <1>1, <1>2, <1>6 DEF RevokeClient, FreshClientIDs, Client
<1>7. CASE UNCHANGED clients
  BY <1>1, <1>7
<1> QED
  BY <1>3, <1>4, <1>5, <1>6, <1>7
     DEF Next, vars, Tick, Restart, GeneratePairingCode, CreateSession,
         GetSession, RequestFails

THEOREM CreatedInTime == Spec => NoLateRedemption
<1>1. AuthInv /\ [Next]_vars =>
        [\A c \in clients' : c.id \in FreshClientIDs =>
            \/ \E p \in codes : p.code = c.via /\ now < p.expiresAt
            \/ \E s \in sessions : s.id = c.via /\ now < s.expiresAt]_vars
  BY CreationStep
<1> QED
  BY <1>1, AuthInvariant, PTL DEF Spec, NoLateRedemption

-----------------------------------------------------------------------
(* Refinement: the service is a ledger of memberships.  A client is mapped *)
(* to its id, scopes and revoked flag, a pending code to its scopes.       *)

OfferOf(p) == [code |-> p.code, scopes |-> p.scopes]

MemberOf(c) == [id |-> c.id, scopes |-> c.scopes, revoked |-> c.revoked]

Offers == {OfferOf(p) : p \in codes}

Members == {MemberOf(c) : c \in clients}

Offered == {g.code : g \in issued}

(* Putting a new code on the list is an offer, and pruning a lapse.        *)
LEMMA AddCodeRefines ==
    ASSUME NEW entry \in PendingCode, AddCode(entry), UNCHANGED clients
    PROVE  Ledger!MakeOffer(entry.code, entry.scopes)
<1>1. Offered' = Offered \union {entry.code}
  BY DEF AddCode, Offered
<1>2. PICK kept : kept = {OfferOf(p) : p \in UnexpiredCodes}
  OBVIOUS
<1>3. kept \in SUBSET Offers
  BY <1>2 DEF Offers, UnexpiredCodes
<1>4. Offers' = kept \union {OfferOf(entry)}
  BY <1>2 DEF Offers, AddCode
<1>5. Members' = Members
  BY DEF Members
<1>6. entry.code \notin Offered
  BY DEF AddCode, Offered
<1> QED
  BY <1>1, <1>3, <1>4, <1>5, <1>6
     DEF Ledger!MakeOffer, Offers, Members, Offered, OfferOf, MemberOf

(* Pruning, and nothing else the ledger sees.                              *)
LEMMA PruneRefines ==
    ASSUME codes' \subseteq codes, UNCHANGED <<clients, issued>>
    PROVE  Ledger!Lapse
  BY DEF Ledger!Lapse

LEMMA PairRefines ==
    ASSUME AuthInv, NEW p \in codes, NEW id \in FreshClientIDs, NEW jti,
           NEW heard, Pair(p, id, jti, heard)
    PROVE  Ledger!Redeem(OfferOf(p), id)
<1>1. OfferOf(p) \in Offers
  BY DEF Offers
<1>2. id \notin {m.id : m \in Members}
  BY DEF FreshClientIDs, Members, MemberOf
<1>3. Offers' \subseteq Offers \ {OfferOf(p)}
  <2>1. codes' \subseteq codes \ {p} /\ codes \subseteq issued
    BY DEF Pair, UnexpiredCodes, AuthInv, CodesIssued
  <2>2. \A q \in codes' : q.code # p.code
    BY <2>1 DEF AuthInv, CodesIssued
  <2> QED
    BY <2>1, <2>2 DEF Offers, OfferOf
<1>4. PICK new : new = NewClient(Mint(jti, id, p.scopes, DefaultTTL),
                                 p.code, p.code)
  OBVIOUS
<1>5. clients' = clients \union {new} /\ UNCHANGED issued
  BY <1>4 DEF Pair
<1>6. MemberOf(new) = [id |-> id, scopes |-> OfferOf(p).scopes,
                       revoked |-> FALSE]
  BY <1>4 DEF MemberOf, NewClient, Mint, OfferOf
<1>7. Members' = Members \union {MemberOf(new)}
  BY <1>5 DEF Members
<1> QED
  BY <1>1, <1>2, <1>3, <1>5, <1>6, <1>7
     DEF Ledger!Redeem, Ledger!IDs, Offers, Members, OfferOf, MemberOf

LEMMA ApproveRefines ==
    ASSUME AuthInv, AuthAssumption,
           NEW s \in sessions, NEW claims \in inflight,
           NEW request \in ScopeRequests,
           NEW id \in FreshClientIDs, NEW jti,
           ApproveSession(s, claims, request, id, jti)
    PROVE  \E m \in Members, scopes \in SUBSET Scopes :
               Ledger!Delegate(m, id, scopes)
<1>1. PICK scopes : scopes = IF request = {} THEN SessionScope ELSE request
  OBVIOUS
<1>2. scopes \in SUBSET Scopes
  BY <1>1 DEF AuthAssumption, SessionScope, DefaultScope
<1>3. PICK c \in clients : c.scopes = claims.scopes
  BY DEF AuthInv, TokensBound, Bound
<1>4. scopes \subseteq MemberOf(c).scopes
  BY <1>1, <1>3 DEF ApproveSession, MayGrant, MemberOf
<1>5. PICK by \in clients :
        clients' = clients \union
            {NewClient(Mint(jti, id, scopes, DelegatedTTL), s.id, by.root)}
  BY <1>1 DEF ApproveSession
<1>6. PICK new : new = NewClient(Mint(jti, id, scopes, DelegatedTTL),
                                 s.id, by.root)
  OBVIOUS
<1>7. MemberOf(new) = [id |-> id, scopes |-> scopes, revoked |-> FALSE]
  BY <1>6 DEF MemberOf, NewClient, Mint
<1>8. Members' = Members \union {MemberOf(new)}
  BY <1>5, <1>6 DEF Members
<1>9. id \notin {m.id : m \in Members}
  BY DEF FreshClientIDs, Members, MemberOf
<1>10. MemberOf(c) \in Members
  BY DEF Members
<1>11. UNCHANGED <<codes, issued>>
  BY DEF ApproveSession
<1>12. Ledger!Delegate(MemberOf(c), id, scopes)
  BY <1>4, <1>7, <1>8, <1>9, <1>10, <1>11
     DEF Ledger!Delegate, Ledger!IDs, Members, MemberOf
<1> QED
  BY <1>2, <1>10, <1>12

(* Marking a client last seen does not show in the ledger.                 *)
LEMMA RequireAuthRefines ==
    ASSUME AuthInv, NEW t, RequireAuth(t)
    PROVE  UNCHANGED <<Offers, Offered, Members>>
<1>1. PICK c \in clients :
        clients' = (clients \ {c}) \union {[c EXCEPT !.lastSeen = now]}
  BY DEF RequireAuth, Authenticate
<1>2. PICK d : d = [c EXCEPT !.lastSeen = now]
  OBVIOUS
<1>3. c \in Client
  BY DEF AuthInv, TypeOK
<1>4. MemberOf(d) = MemberOf(c)
  BY <1>2, <1>3 DEF MemberOf, Client
<1>5. clients' = (clients \ {c}) \union {d}
  BY <1>1, <1>2
<1>6. Members' = Members
  <2>1. \A m : m \in Members' <=> \E x \in (clients \ {c}) \union {d} : m = MemberOf(x)
    BY <1>5 DEF Members
  <2>2. \A m : m \in Members <=> \E x \in clients : m = MemberOf(x)
    BY DEF Members
  <2> QED
    BY <1>4, <2>1, <2>2
<1> QED
  BY <1>6 DEF RequireAuth, Authenticate, Offers, Offered

LEMMA RevokeRefines ==
    ASSUME AuthInv, NEW c \in clients, RevokeClient(c)
    PROVE  Ledger!Revoke(MemberOf(c))
<1>1. PICK d : d = [c EXCEPT !.revoked = TRUE]
  OBVIOUS
<1>2. c \in Client
  BY DEF AuthInv, TypeOK
<1>3. MemberOf(d) = [id |-> MemberOf(c).id, scopes |-> MemberOf(c).scopes,
                     revoked |-> TRUE]
  <2>1. d.id = c.id /\ d.scopes = c.scopes /\ d.revoked = TRUE
    BY <1>1, <1>2 DEF Client
  <2> QED
    BY <2>1 DEF MemberOf
<1>4. clients' = (clients \ {c}) \union {d}
  BY <1>1 DEF RevokeClient
<1>5. \A x \in clients : MemberOf(x) = MemberOf(c) => x = c
  BY DEF AuthInv, UniqueClients, MemberOf
<1>6. Members' = (Members \ {MemberOf(c)}) \union {MemberOf(d)}
  <2>1. Members' = {MemberOf(x) : x \in clients \ {c}} \union {MemberOf(d)}
    BY <1>4 DEF Members
  <2>2. Members \ {MemberOf(c)} = {MemberOf(x) : x \in clients \ {c}}
    BY <1>5 DEF Members
  <2> QED
    BY <2>1, <2>2
<1>7. MemberOf(c) \in Members /\ UNCHANGED <<codes, issued>>
  BY DEF Members, RevokeClient
<1> QED
  BY <1>3, <1>6, <1>7 DEF Ledger!Revoke, Members, MemberOf

(* Every step of the service is a step of the ledger or shows nothing.     *)
LEMMA StepRefines ==
    ASSUME AuthInv, [Next]_vars
    PROVE  [Ledger!GNext]_(Ledger!gvars)
<1> USE AuthAssumption
<1>1. CASE UNCHANGED <<codes, clients, issued>>
  BY <1>1 DEF Ledger!gvars
<1>2. CASE Restart
  <2>1. CASE codes' = UnexpiredCodes /\ UNCHANGED issued
    BY <1>2, <2>1, PruneRefines DEF Restart, UnexpiredCodes, Ledger!GNext
  <2>2. ASSUME NEW code \in Codes,
               AddCode(NewCode(code, DefaultScope, PairingTTL))
        PROVE  Ledger!GNext
    <3>1. PICK e : e = NewCode(code, DefaultScope, PairingTTL)
      OBVIOUS
    <3>2. e \in PendingCode
      BY <3>1, NewCodeType DEF AuthInv, AuthAssumption
    <3>3. Ledger!MakeOffer(e.code, e.scopes)
      BY <1>2, <2>2, <3>1, <3>2, AddCodeRefines DEF Restart
    <3>4. e.code \in Codes /\ e.scopes \in SUBSET Scopes
      BY <3>2 DEF PendingCode
    <3> QED
      BY <3>3, <3>4 DEF Ledger!GNext
  <2> QED
    BY <1>2, <2>1, <2>2 DEF Restart
<1>3. ASSUME NEW code \in Codes, NEW request \in ScopeRequests \union {NoRequest},
             NEW ttl \in TTLs, GeneratePairingCode(code, request, ttl)
      PROVE  Ledger!GNext
  <2>1. PICK e : e = NewCode(code,
                       IF request = NoRequest THEN DefaultScope ELSE request,
                       IF ttl <= 0 THEN PairingTTL ELSE ttl)
    OBVIOUS
  <2>2. /\ (IF request = NoRequest THEN DefaultScope ELSE request)
              \in SUBSET Scopes
        /\ (IF ttl <= 0 THEN PairingTTL ELSE ttl) \in Nat
    BY DEF AuthAssumption
  <2>3. e \in PendingCode
    BY <2>1, <2>2, NewCodeType DEF AuthInv
  <2>4. Ledger!MakeOffer(e.code, e.scopes)
    BY <1>3, <2>1, <2>3, AddCodeRefines DEF GeneratePairingCode
  <2>5. e.code \in Codes /\ e.scopes \in SUBSET Scopes
    BY <2>3 DEF PendingCode
  <2> QED
    BY <2>4, <2>5 DEF Ledger!GNext
<1>4. ASSUME NEW p \in codes, NEW id \in FreshClientIDs, NEW jti \in FreshJTIs,
             NEW heard \in BOOLEAN, Pair(p, id, jti, heard)
      PROVE  Ledger!GNext
  <2>1. Ledger!Redeem(OfferOf(p), id)
    BY <1>4, PairRefines
  <2>2. id \in ClientIDs /\ OfferOf(p) \in Offers
    BY DEF FreshClientIDs, Offers
  <2> QED
    BY <2>1, <2>2 DEF Ledger!GNext, Offers, OfferOf
<1>5. ASSUME NEW id \in SessionIDs, CreateSession(id)
      PROVE  Ledger!GNext
  BY <1>5, PruneRefines DEF CreateSession, UnexpiredCodes, Ledger!GNext
<1>6. ASSUME NEW t \in held, RequireAuth(t)
      PROVE  UNCHANGED Ledger!gvars
  BY <1>6, RequireAuthRefines
     DEF Ledger!gvars, Offers, Offered, Members, OfferOf, MemberOf
<1>7. ASSUME NEW s \in sessions, NEW t \in inflight, NEW request \in ScopeRequests,
             NEW id \in FreshClientIDs, NEW jti \in FreshJTIs,
             ApproveSession(s, t, request, id, jti)
      PROVE  Ledger!GNext
  <2>1. PICK m \in Members, scopes \in SUBSET Scopes :
          Ledger!Delegate(m, id, scopes)
    BY <1>7, ApproveRefines
  <2>2. id \in ClientIDs
    BY DEF FreshClientIDs
  <2> QED
    BY <2>1, <2>2 DEF Ledger!GNext, Members, MemberOf
<1>8. ASSUME NEW c \in clients, RevokeClient(c)
      PROVE  Ledger!GNext
  <2>1. Ledger!Revoke(MemberOf(c)) /\ MemberOf(c) \in Members
    BY <1>8, RevokeRefines DEF Members
  <2> QED
    BY <2>1 DEF Ledger!GNext, Members, MemberOf
<1> QED
  BY <1>1, <1>2, <1>3, <1>4, <1>5, <1>6, <1>7, <1>8
     DEF Next, vars, Tick, GetSession, RequestFails

(* The service implements the ledger of memberships, for any number of     *)
(* codes, clients, requests and restarts.                                  *)
THEOREM AuthImplementsGrants == Spec => ImplementsGrants
<1>1. Init => Ledger!GInit
  BY DEF Init, Ledger!GInit
<1>2. AuthInv /\ [Next]_vars => [Ledger!GNext]_(Ledger!gvars)
  BY StepRefines
<1> QED
  BY <1>1, <1>2, AuthInvariant, PTL DEF Spec, ImplementsGrants, Ledger!GSpec

=======================================================================
