---------------------------- MODULE Grants ----------------------------
(***************************************************************************)
(* What internal/auth promises, without its tokens, sessions, clock,       *)
(* requests or restarts: a ledger of memberships.                          *)
(*                                                                         *)
(* The operator offers memberships under one-time codes.  An offer is      *)
(* redeemed at most once, or lapses.  A member may delegate to a new       *)
(* member no more scopes than it has itself.  A revoked member stays in    *)
(* the ledger, revoked for good.  Nothing else ever creates a member or    *)
(* changes one.                                                            *)
(*                                                                         *)
(* Auth implements this specification: see ImplementsGrants there.         *)
(***************************************************************************)
EXTENDS Naturals

CONSTANTS Codes,      \* the pairing codes that may be drawn
          ClientIDs,  \* the client identities that may be drawn
          Scopes      \* the permissions a member may hold

VARIABLES offers,   \* open offers: [code, scopes]
          offered,  \* every code ever offered
          members   \* [id, scopes, revoked]

gvars == <<offers, offered, members>>

Offer == [code : Codes, scopes : SUBSET Scopes]

Member == [id : ClientIDs, scopes : SUBSET Scopes, revoked : BOOLEAN]

IDs == {m.id : m \in members}

GInit ==
    /\ offers = {}
    /\ offered = {}
    /\ members = {}

(* Any offer may lapse, and may do so while something else happens: the    *)
(* code drops expired offers whenever it rewrites the list for another     *)
(* reason.                                                                 *)
Lapse ==
    /\ offers' \subseteq offers
    /\ UNCHANGED <<offered, members>>

MakeOffer(code, scopes) ==
    /\ code \notin offered
    /\ offered' = offered \union {code}
    /\ \E kept \in SUBSET offers :
           offers' = kept \union {[code |-> code, scopes |-> scopes]}
    /\ UNCHANGED members

Redeem(o, id) ==
    /\ o \in offers
    /\ id \notin IDs
    /\ offers' \subseteq offers \ {o}
    /\ members' = members \union
                    {[id |-> id, scopes |-> o.scopes, revoked |-> FALSE]}
    /\ UNCHANGED offered

Delegate(m, id, scopes) ==
    /\ m \in members
    /\ id \notin IDs
    /\ scopes \subseteq m.scopes
    /\ members' = members \union
                    {[id |-> id, scopes |-> scopes, revoked |-> FALSE]}
    /\ UNCHANGED <<offers, offered>>

Revoke(m) ==
    /\ m \in members
    /\ members' = (members \ {m}) \union
                    {[id |-> m.id, scopes |-> m.scopes, revoked |-> TRUE]}
    /\ UNCHANGED <<offers, offered>>

GNext ==
    \/ Lapse
    \/ \E code \in Codes, scopes \in SUBSET Scopes : MakeOffer(code, scopes)
    \/ \E o \in offers, id \in ClientIDs : Redeem(o, id)
    \/ \E m \in members, id \in ClientIDs, scopes \in SUBSET Scopes :
           Delegate(m, id, scopes)
    \/ \E m \in members : Revoke(m)

GSpec == GInit /\ [][GNext]_gvars

=======================================================================
