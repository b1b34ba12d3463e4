--------------------------- MODULE Webhooks ---------------------------
(***************************************************************************)
(* Webhooks: their registration (internal/webhook/service.go) and the      *)
(* delivery of events (dispatch.go).                                       *)
(*                                                                         *)
(* The list of hooks is in the store, and an Update is one step here (see  *)
(* Store).  Dispatch takes the hooks from the store once for an event and  *)
(* starts a goroutine for each that subscribed to it; what happens to the  *)
(* list afterwards does not reach a delivery that has started.  A delivery *)
(* is tried once.  An event is one call of Dispatch; which messages get    *)
(* one is the subject of Events.                                           *)
(*                                                                         *)
(* A name that a client puts in a hook's list may be written in more than  *)
(* one way; Type says which event type it stands for when case is ignored. *)
(* Nothing depends on the order of a list, nor on a name that comes twice, *)
(* so the lists of names and of hooks are sets.                            *)
(*                                                                         *)
(* No name here is one of Events: EventsProofs extends both.               *)
(***************************************************************************)
EXTENDS Integers, Sequences, Functions

CONSTANTS
    Hooks,      \* ids of hooks
    Types,      \* event types
    Names,      \* the names of types in lists, trimmed
    Blank,      \* a name that is empty when trimmed
    Type,       \* Names -> Types
    Lists,      \* the sets of names that clients send
    MaxEvents   \* bound on events

ASSUME WebhooksAssumption ==
    /\ Blank \notin Names
    /\ Type \in [Names -> Types]
    /\ Lists \subseteq SUBSET (Names \union {Blank})
    /\ MaxEvents \in Nat

VARIABLES
    hooks,      \* the ids in the store
    events,     \* Hooks -> the names stored with the hook
    sends,      \* the goroutines of deliveries
    (* history *)
    dispatched, \* the types of the events dispatched
    received,   \* Hooks -> the events its receiver got
    missed,     \* the deliveries that ended otherwise
    asked,      \* Hooks -> the names its creator sent
    view,       \* Hooks -> what its owner can know of it
    due         \* per event, the views when it was dispatched

webhookVars ==
    <<hooks, events, sends, dispatched, received, missed, asked, view, due>>
listVars == <<hooks, events>>
clientVars == <<asked, view>>

Views == {"none", "sure", "unsure", "deleted"}
Places == {"validate", "post"}
Send == [hook : Hooks, event : 1 .. MaxEvents, copy : {1}, at : Places]

WebhooksTypeOK ==
    /\ hooks \subseteq Hooks
    /\ events \in [Hooks -> SUBSET Names]
    /\ sends \subseteq Send
    /\ dispatched \in Seq(Types) /\ Len(dispatched) = Len(due)
    /\ received \in [Hooks -> Seq(1 .. MaxEvents)]
    /\ missed \subseteq Hooks \X (1 .. MaxEvents)
    /\ asked \in [Hooks -> Lists \union {{}}]
    /\ view \in [Hooks -> Views]
    /\ due \in Seq([Hooks -> Views])

WebhooksInit ==
    /\ hooks = {}
    /\ events = [h \in Hooks |-> {}]
    /\ sends = {}
    /\ dispatched = <<>>
    /\ received = [h \in Hooks |-> <<>>]
    /\ missed = {}
    /\ asked = [h \in Hooks |-> {}]
    /\ view = [h \in Hooks |-> "none"]
    /\ due = <<>>

-----------------------------------------------------------------------
(* Registration.                                                           *)

(* Blank names are dropped; the case is not ignored.                       *)
CleanEvents(list) == list \ {Blank}

(* A url that is not valid and a list without names are refused.  The      *)
(* daemon may end before the answer is sent: then nobody knows the id.     *)
Create(h, list, answered) ==
    /\ asked[h] = {}
    /\ CleanEvents(list) # {}
    /\ hooks' = hooks \union {h}
    /\ events' = [events EXCEPT ![h] = CleanEvents(list)]
    /\ asked' = [asked EXCEPT ![h] = list]
    /\ view' = [view EXCEPT ![h] = IF answered THEN "sure" ELSE "unsure"]
    /\ UNCHANGED <<sends, dispatched, received, missed, due>>

\* Mutant of Without: the test of the loop is turned round.
WithoutOthers(h) == hooks \intersect {h}

Without(h) == hooks \ {h}

(* Deleting what is not there changes nothing.                             *)
Delete(h, answered) ==
    /\ h \in hooks
    /\ hooks' = Without(h)
    /\ view' = [view EXCEPT ![h] = IF answered THEN "deleted" ELSE "unsure"]
    /\ UNCHANGED <<events, sends, dispatched, received, missed, asked, due>>

-----------------------------------------------------------------------
(* Delivery.                                                               *)

SubscribedTo(list, type) == \E name \in list : Type[name] = type

\* Mutant of Copies: a goroutine for each name that matches.
CopiesPerName(list, type) == {name \in list : Type[name] = type}

(* subscribedTo returns at the first name that matches.                    *)
Copies(list, type) == IF SubscribedTo(list, type) THEN {1} ELSE {}

NewEvent(type) ==
    /\ Len(dispatched) < MaxEvents
    /\ dispatched' = Append(dispatched, type)
    /\ due' = Append(due, view)

Dispatch(type) ==
    /\ NewEvent(type)
    /\ sends' = sends \union
           UNION {{[hook |-> h, event |-> Len(dispatched) + 1, copy |-> c,
                    at |-> "validate"] : c \in Copies(events[h], type)}
                  : h \in hooks}
    /\ UNCHANGED <<listVars, received, missed, clientVars>>

LoadFails(type) ==
    /\ NewEvent(type)
    /\ missed' = missed \union (Hooks \X {Len(dispatched) + 1})
    /\ UNCHANGED <<listVars, sends, received, clientVars>>

(* The host is resolved again, and may have become one that is refused.    *)
Validate(s) ==
    /\ s.at = "validate"
    /\ sends' = (sends \ {s}) \union {[s EXCEPT !.at = "post"]}
    /\ UNCHANGED <<listVars, dispatched, received, missed, clientVars, due>>

(* The receiver has the event, whatever it answers: where an answer that   *)
(* redirects leads http.Client is left out.                                *)
Post(s) ==
    /\ s.at = "post"
    /\ sends' = sends \ {s}
    /\ received' = [received EXCEPT ![s.hook] = Append(@, s.event)]
    /\ UNCHANGED <<listVars, dispatched, missed, clientVars, due>>

(* Refused by Validate, or the request failed: there is only a log line.   *)
SendFails(s) ==
    /\ sends' = sends \ {s}
    /\ missed' = missed \union {<<s.hook, s.event>>}
    /\ UNCHANGED <<listVars, dispatched, received, clientVars, due>>

DaemonDies ==
    /\ sends # {}
    /\ sends' = {}
    /\ missed' = missed \union {<<s.hook, s.event>> : s \in sends}
    /\ UNCHANGED <<listVars, dispatched, received, clientVars, due>>

WebhooksNext ==
    \/ \E h \in Hooks, answered \in BOOLEAN :
           \/ \E list \in Lists : Create(h, list, answered)
           \/ Delete(h, answered)
    \/ \E type \in Types : Dispatch(type) \/ LoadFails(type)
    \/ \E s \in sends : Validate(s) \/ Post(s) \/ SendFails(s)
    \/ DaemonDies

WebhooksSpec == WebhooksInit /\ [][WebhooksNext]_webhookVars

-----------------------------------------------------------------------
(* Properties.                                                             *)

(* The list that the creator of h sent names the type of event e.          *)
Wants(h, e) ==
    \E name \in asked[h] : name # Blank /\ Type[name] = dispatched[e]

(* A receiver gets an event at most once, and only if the hook's creator   *)
(* asked for its type and the hook had not been deleted when the event was *)
(* dispatched (subscribedTo, Delete): also when deliveries overlap with    *)
(* deletions, and when a type is listed twice.                             *)
OnlyWhatWasAsked ==
    \A h \in Hooks :
        /\ IsInjective(received[h])
        /\ \A i \in DOMAIN received[h] :
               /\ Wants(h, received[h][i])
               /\ due[received[h][i]][h] \in {"sure", "unsure"}

(* An event that the owner of a hook had to expect when it was dispatched  *)
(* is on its way, was received, or its delivery failed: none is forgotten  *)
(* (Dispatch, cleanEvents, and Delete, which must keep the other hooks).   *)
NoneForgotten ==
    \A h \in Hooks : \A e \in DOMAIN dispatched :
        due[e][h] = "sure" /\ Wants(h, e) =>
            \/ \E s \in sends : s.hook = h /\ s.event = e
            \/ \E i \in DOMAIN received[h] : received[h][i] = e
            \/ <<h, e>> \in missed

=======================================================================
