-------------------------- MODULE WebThread ---------------------------
(***************************************************************************)
(* The message thread of the web client (AppShell in App.tsx), from one    *)
(* mount to its end.                                                       *)
(*                                                                         *)
(* JavaScript runs one handler at a time, and a handler runs up to its     *)
(* next await: each such stretch is one action.  A handler sets the React  *)
(* state (view); what a click handler or a ref sees is the state of the    *)
(* last render (rendered), which lags behind.  IndexedDB answers in the    *)
(* order it is asked, so a save takes effect when it is called and a read  *)
(* returns what was there when it was called.                              *)
(*                                                                         *)
(* Messages are numbered in the order of their dates, over all chats, and  *)
(* a list of messages, which is always sorted, is the set of its numbers.  *)
(* The list of chats, the status texts and the remembered chat are left    *)
(* out: the shell may open with any chat, and once it shows the list the   *)
(* user may pick any.  So are events that only change a message.           *)
(*                                                                         *)
(* No name here is one of WebProfiles: WebProfilesProofs extends both.     *)
(***************************************************************************)
EXTENDS Integers, Sequences, FiniteSets

CONSTANTS
    Chats,
    NoChat,     \* activeChatId is null
    Limit,      \* recentMessageLimit
    Page,       \* olderMessagePageSize
    MaxMessage, \* bound: messages in all chats
    MaxLoads,   \* bound: calls of loadMessagesForChat
    MaxOlder    \* bound: calls of loadOlderMessages

ASSUME WebThreadAssumption ==
    /\ NoChat \notin Chats
    /\ {Limit, Page} \subseteq Nat \ {0}
    /\ {MaxMessage, MaxLoads, MaxOlder} \subseteq Nat

VARIABLES
    log,     \* on the server: the chat of each message
    wire,    \* messages on their way through the websocket
    cache,   \* message_cache in IndexedDB
    shell,   \* where loadShell is
    boot,    \* bootChatId
    request, \* activeThreadRequest
    loads,   \* the calls of loadMessagesForChat, by request number
    older,   \* the calls of loadOlderMessages
    view,    \* the React state
    rendered, \* the state of the last render
    (* history *)
    applied, \* delivered messages of the chat that was open
    aged,    \* of these, the ones the last load's answer was too old to have
    overlapped \* something came between the parts of something else

threadVars == <<log, wire, cache, shell, boot, request, loads, older, view,
                rendered, applied, aged, overlapped>>

Messages == 1..Len(log)
Of(c) == {n \in Messages : log[n] = c}

View == [chat : Chats \union {NoChat},  \* activeChatId
         msgs : SUBSET Messages,        \* messages
         more : BOOLEAN,                \* canLoadOlder
         busy : BOOLEAN]                \* loadingOlder

Load == [pc : {"cache", "server", "answered", "done", "failed"},
         chat : Chats, list : SUBSET Messages]

Older == [pc : {"server", "done"}, chat : Chats, base : SUBSET Messages,
          from : 0..MaxLoads]

ThreadTypeOK ==
    /\ log \in Seq(Chats)
    /\ wire \subseteq Messages
    /\ cache \in [Chats -> SUBSET Messages]
    /\ shell \in {"closed", "asking", "ready", "failed"}
    /\ boot \in Chats \union {NoChat}
    /\ request = Len(loads) /\ request <= MaxLoads
    /\ loads \in Seq(Load)
    /\ older \in Seq(Older) /\ Len(older) <= MaxOlder
    /\ view \in View /\ rendered \in View
    /\ applied \subseteq Messages /\ aged \subseteq Messages
    /\ overlapped \in BOOLEAN

NoThread == [chat |-> NoChat, msgs |-> {}, more |-> FALSE, busy |-> FALSE]

(* The last k of a set of messages, which is what imsg lists with a limit. *)
LastOf(S, k) == {n \in S : Cardinality({m \in S : m > n}) < k}

ThreadInit ==
    /\ log \in UNION {[1..k -> Chats] : k \in 0..MaxMessage}
    /\ wire = {}
    /\ cache \in {[c \in Chats |-> {}], [c \in Chats |-> LastOf(Of(c), Limit)]}
    /\ shell = "closed" /\ boot = NoChat
    /\ request = 0 /\ loads = <<>> /\ older = <<>>
    /\ view = NoThread /\ rendered = NoThread
    /\ applied = {} /\ aged = {} /\ overlapped = FALSE

InLoad == request > 0 /\ loads[request].pc \in {"cache", "server", "answered"}
Fetching == \E j \in 1..Len(older) : older[j].pc = "server"
Lagging == <<view.chat, view.msgs>> # <<rendered.chat, rendered.msgs>>

(* Remembers that something overlapped.                                    *)
Note(when) == overlapped' = (overlapped \/ when)

-----------------------------------------------------------------------
(* The server, and React.                                                  *)

(* There are chats to pick from, and the event stream is open.             *)
Live == shell = "ready" \/ (shell # "closed" /\ boot # NoChat)

(* A message arrives; the event stream may miss it (module Events).        *)
Arrive(c) ==
    /\ Len(log) < MaxMessage
    /\ log' = Append(log, c)
    /\ \/ UNCHANGED wire
       \/ Live /\ wire' = wire \union {Len(log) + 1}
    /\ UNCHANGED <<cache, shell, boot, request, loads, older, view, rendered,
                   applied, aged, overlapped>>

Render ==
    /\ rendered # view
    /\ rendered' = view
    /\ UNCHANGED <<log, wire, cache, shell, boot, request, loads, older, view,
                   applied, aged, overlapped>>

-----------------------------------------------------------------------
(* loadMessagesForChat.                                                    *)

(* Up to the first await, with what the caller has set before.             *)
StartLoad(c, before) ==
    /\ request < MaxLoads
    /\ request' = request + 1
    /\ loads' = Append(loads, [pc |-> "cache", chat |-> c, list |-> cache[c]])
    /\ view' = [before EXCEPT !.chat = c]

Await(i, what, list) ==
    loads' = [loads EXCEPT ![i].pc = what, ![i].list = list]

Showing(S) == [view EXCEPT !.msgs = S, !.more = Cardinality(S) >= Limit]

(* A failed save is only logged.                                           *)
Save(c, S) == cache' \in {cache, [cache EXCEPT ![c] = S]}

(* A call that another has overtaken returns after each of its awaits.     *)
CacheReturns(i) ==
    /\ loads[i].pc = "cache"
    /\ IF i = request
       THEN /\ Await(i, "server", {})
            /\ view' = [Showing(loads[i].list) EXCEPT !.busy = FALSE]
       ELSE /\ Await(i, "done", {})
            /\ UNCHANGED view
    /\ UNCHANGED <<log, wire, cache, shell, boot, request, older, rendered,
                   applied, aged, overlapped>>

(* Reading the cache is outside the try: a failure just ends the call.     *)
CacheFails(i) ==
    /\ loads[i].pc = "cache"
    /\ Await(i, "failed", {})
    /\ Note(i = request)
    /\ UNCHANGED <<log, wire, cache, shell, boot, request, older, view, rendered,
                   applied, aged>>

(* What the server answers for the newest messages of a chat: the list as  *)
(* it was when n messages had arrived.  That is the list of now when it    *)
(* asks imsg; its history cache may still hold any earlier one (module     *)
(* HistoryCache says when).                                                *)
ListAt(c, n) == LastOf({m \in Of(c) : m <= n}, Limit)

(* The server answers some time before the reply arrives.                  *)
Answer(i) ==
    /\ loads[i].pc = "server"
    /\ \E n \in 0..Len(log) :
           /\ Await(i, "answered", ListAt(loads[i].chat, n))
           /\ aged' = IF i = request THEN {m \in applied : m > n} ELSE aged
    /\ UNCHANGED <<log, wire, cache, shell, boot, request, older, view, rendered,
                   applied, overlapped>>

\* Mutant of Loaded: the reply to a call that was overtaken is used.
LoadedAlways(i) ==
    /\ loads[i].pc = "answered"
    /\ Await(i, "done", {})
    /\ view' = Showing(loads[i].list)
    /\ Save(loads[i].chat, loads[i].list)
    /\ UNCHANGED <<log, wire, shell, boot, request, older, rendered, applied,
                   aged, overlapped>>

Loaded(i) ==
    /\ loads[i].pc = "answered"
    /\ Await(i, "done", {})
    /\ IF i = request
       THEN view' = Showing(loads[i].list) /\ Save(loads[i].chat, loads[i].list)
       ELSE UNCHANGED <<view, cache>>
    /\ UNCHANGED <<log, wire, shell, boot, request, older, rendered, applied,
                   aged, overlapped>>

(* The thread keeps the cached messages and says so.                       *)
LoadFails(i) ==
    /\ loads[i].pc \in {"server", "answered"}
    /\ Await(i, "failed", {})
    /\ UNCHANGED <<log, wire, cache, shell, boot, request, older, view, rendered,
                   applied, aged, overlapped>>

-----------------------------------------------------------------------
(* loadShell, and what the user does.                                      *)

(* The token is decrypted and the cached chats are read: if there are any, *)
(* one is opened at once.                                                  *)
OpenShell ==
    /\ shell = "closed"
    /\ shell' = "asking"
    /\ \/ /\ boot' = NoChat
          /\ UNCHANGED <<request, loads, view>>
       \/ \E c \in Chats : boot' = c /\ StartLoad(c, view)
    /\ UNCHANGED <<log, wire, cache, older, rendered, applied, aged, overlapped>>

(* The server's chats: the chat opened before, if it is still there, is    *)
(* made the active one again.                                              *)
ShellAnswers ==
    /\ shell = "asking"
    /\ shell' = "ready"
    /\ \/ /\ view' = [view EXCEPT !.chat = NoChat, !.msgs = {}, !.more = FALSE]
          /\ UNCHANGED <<request, loads, overlapped>>
       \/ /\ boot # NoChat
          /\ view' = [view EXCEPT !.chat = boot]
          /\ Note(view.chat # boot)
          /\ UNCHANGED <<request, loads>>
       \/ \E c \in Chats \ {boot} : StartLoad(c, view) /\ UNCHANGED overlapped
    /\ UNCHANGED <<log, wire, cache, boot, older, rendered, applied, aged>>

(* Decrypting the token, the cache or the server fails.                    *)
ShellFails ==
    /\ shell \in {"closed", "asking"}
    /\ shell' = "failed"
    /\ UNCHANGED <<log, wire, cache, boot, request, loads, older, view, rendered,
                   applied, aged, overlapped>>

SelectChat(c) ==
    /\ Live
    /\ c # rendered.chat
    /\ StartLoad(c, view)
    /\ UNCHANGED <<log, wire, cache, shell, boot, older, rendered, applied,
                   aged, overlapped>>

ReloadChat ==
    /\ rendered.chat # NoChat
    /\ StartLoad(rendered.chat, view)
    /\ UNCHANGED <<log, wire, cache, shell, boot, older, rendered, applied,
                   aged, overlapped>>

-----------------------------------------------------------------------
(* loadOlderMessages.                                                      *)

(* The call keeps the chat and the messages of the render it was clicked   *)
(* in.                                                                     *)
StartOlder ==
    /\ rendered.chat # NoChat /\ rendered.msgs # {}
    /\ rendered.more /\ ~rendered.busy
    /\ Len(older) < MaxOlder
    /\ older' = Append(older, [pc |-> "server", chat |-> rendered.chat,
                               base |-> rendered.msgs, from |-> request])
    /\ view' = [view EXCEPT !.busy = TRUE]
    /\ Note(InLoad \/ Lagging)
    /\ UNCHANGED <<log, wire, cache, shell, boot, request, loads, rendered,
                   applied, aged>>

(* A page before a date stays what it is, cached by the server or not: the *)
(* messages that arrive are newer.                                         *)
OlderPage(o) ==
    LastOf({n \in Of(o.chat) : \A m \in o.base : n < m}, Page)

\* Mutant of OlderLoaded: the page takes the place of the messages.
OlderLoadedAlone(j) ==
    /\ older[j].pc = "server"
    /\ older' = [older EXCEPT ![j].pc = "done", ![j].base = {}]
    /\ LET page == OlderPage(older[j]) IN
       /\ view' = [view EXCEPT !.msgs = page,
                               !.more = Cardinality(page) >= Page,
                               !.busy = FALSE]
       /\ Save(older[j].chat, page)
    /\ Note(older[j].from # request)
    /\ UNCHANGED <<log, wire, shell, boot, request, loads, rendered, applied,
                   aged>>

OlderLoaded(j) ==
    /\ older[j].pc = "server"
    /\ older' = [older EXCEPT ![j].pc = "done", ![j].base = {}]
    /\ LET page == OlderPage(older[j])
           merged == older[j].base \union page
       IN  /\ view' = [view EXCEPT !.msgs = merged,
                                   !.more = Cardinality(page) >= Page,
                                   !.busy = FALSE]
           /\ Save(older[j].chat, merged)
    /\ Note(older[j].from # request)
    /\ UNCHANGED <<log, wire, shell, boot, request, loads, rendered, applied,
                   aged>>

OlderFails(j) ==
    /\ older[j].pc = "server"
    /\ older' = [older EXCEPT ![j].pc = "done", ![j].base = {}]
    /\ view' = [view EXCEPT !.busy = FALSE]
    /\ UNCHANGED <<log, wire, cache, shell, boot, request, loads, rendered,
                   applied, aged, overlapped>>

-----------------------------------------------------------------------
(* applyIncomingMessage: the next event is merged into the messages of the *)
(* last render, if it is of the chat that was active then.                 *)
ApplyIncoming ==
    /\ Live
    /\ \E n \in wire :
           /\ \A m \in wire : n <= m
           /\ wire' = wire \ {n}
           /\ IF log[n] = rendered.chat
              THEN LET merged == rendered.msgs \union {n} IN
                   /\ view' = [view EXCEPT !.msgs = merged]
                   /\ Save(rendered.chat, merged)
                   /\ applied' = applied \union {n}
                   /\ Note(InLoad \/ Fetching \/ Lagging)
              ELSE UNCHANGED <<view, cache, applied, overlapped>>
    /\ UNCHANGED <<log, shell, boot, request, loads, older, rendered, aged>>

ThreadNext ==
    \/ \E c \in Chats : Arrive(c) \/ SelectChat(c)
    \/ Render
    \/ \E i \in 1..request :
           CacheReturns(i) \/ CacheFails(i) \/ Answer(i) \/ Loaded(i) \/ LoadFails(i)
    \/ OpenShell \/ ShellAnswers \/ ShellFails
    \/ ReloadChat
    \/ StartOlder
    \/ \E j \in 1..Len(older) : OlderLoaded(j) \/ OlderFails(j)
    \/ ApplyIncoming

ThreadSpec == ThreadInit /\ [][ThreadNext]_threadVars

-----------------------------------------------------------------------
(* Properties.                                                             *)

(* The cached thread of a chat holds messages of that chat.  Not always:   *)
(* an event for a new chat that comes before its cached messages is merged *)
(* with the previous chat's and saved under the new one, so this is only   *)
(* a part of what follows (saveMessages of AppShell).                      *)
CacheOfOneChat == \A c \in Chats : cache[c] \subseteq Of(c)

(* Only an overlap mixes chats.  However the user changes between chats    *)
(* and in whatever order the server and the cache answer, the thread under *)
(* a chat's title, once its cache has been read, and the list cached for   *)
(* it hold that chat's messages, unless an event or a page of older        *)
(* messages came during a load or before the last change was rendered,     *)
(* loadShell reset the active chat, or the cache could not be read (the    *)
(* request numbers of loadMessagesForChat).                                *)
MixedOnlyByOverlap ==
    ~overlapped =>
        /\ CacheOfOneChat
        /\ view.chat # NoChat /\ loads[request].pc # "cache" =>
               view.msgs \subseteq Of(view.chat)

(* In the thread of a chat whose load succeeded, a message the stream      *)
(* delivered while the chat was open is shown, or there is a whole page of *)
(* newer ones (mergeMessages and the answer of the server), with two       *)
(* exceptions: something overlapped, as above, or the server answered that *)
(* load from its history cache with a list older than the message, so that *)
(* a reload takes away what was shown (setMessages; aged).                 *)
DeliveredShown ==
    ~overlapped /\ request > 0 /\ loads[request].pc = "done" =>
        \A n \in (applied \intersect Of(view.chat)) \ aged :
            n \in view.msgs \/ Cardinality({m \in Of(view.chat) : m > n}) >= Limit

=======================================================================
