# chatbubbles in TLA+

chatbubbles runs on a Mac, reads and sends messages through the `imsg` command,
and serves paired clients over https: pairing and sessions, chats and history,
a websocket event stream, webhooks, and a small web client. This directory
models the parts of it whose correctness depends on the order in which things
happen, checks the models with TLC on small instances, and proves the most
important properties with TLAPS for every value of the constants.

## The system

| part | state | operations | interacts with |
| --- | --- | --- | --- |
| `internal/store` | `config.json`, `config.json.tmp`, a mutex | `Load`, `Update` | called by auth, webhooks and the watcher's callback from many goroutines |
| `internal/auth` | pending codes, pending sessions, clients (all in the store), signed tokens outside | `GeneratePairingCode`, `Pair`, `CreateSession`, `GetSession`, `ApproveSession`, `Authenticate`, `RevokeClient`, `EnsureBootstrap` | http handlers, control socket, start of the daemon |
| `internal/imsg` watcher, callback in `cmd/chatbubbles` | two cursors in memory, one in the store, a subprocess | `Run`, `watch`, the callback | hub, webhooks, store |
| `internal/events`, `internal/api/ws.go` | subscribers and their channels | `Subscribe`, unsubscribe, `Publish`, the handler loop | watcher, websockets, history cache |
| `internal/api/history_cache.go` | entries with a lifetime | `Get`, `Put`, `InvalidateChat` | `handleMessages`, hub, imsg |
| `internal/api/ratelimit.go` | token buckets | `allow`, `requireAuth` | every handler |
| `internal/auth/keypair.go`, `internal/tls` | pairs of files | create or load | start of the daemon |
| `internal/webhook` | hooks in the store | create, delete, dispatch | watcher's callback, store |
| `internal/ctlsock`, `cmd/chatbubbles` | a socket, the shutdown | one command per connection | auth |
| `internal/attachment`, `internal/imsg/runner.go` | copies of uploads in the data directory; none | upload, open; one subprocess per call | http handlers, files that Messages writes |
| `web/src/App.tsx` thread | chats, the thread, a websocket, cached messages | load, load older, apply an event | the http api, IndexedDB |
| `web/src/App.tsx` profiles, `web/src/lib` | a key in localStorage, profiles, the active one and cached lists in IndexedDB | pair, poll a session, use, remove, cache | the http api, other tabs |

What is hard in it: goroutines that share the store and the cache; the window
between checking a token and using it; crashes between two writes or between a
write and what it announces; a subprocess that stops and resumes; slow readers
of a channel that is never waited for; answers that arrive in the wrong order
in the web client; tabs and clicks that share a browser's storage without a
lock; a client that gives up, or a daemon that ends, while a subprocess sends.
`PROJECT.json` lists these hazards at their lines.

What makes each part correct: the store loses and tears nothing; a pairing code
makes one client, scopes only shrink, revocation is final; every message is
published once and in order except where the code says it may be lost; a cached
list is not older than its lifetime allows; the web client shows in a thread
only that chat's messages and none of its events is lost, but for what overlaps
or a reload that is answered from the cache; a bucket never lets more through
than its limit; key material is whole, the same for all starts, or reported
missing; a daemon that serves can be administered; each hook gets what it asked
for, once; imsg gets whole files, nothing is sent after its answer and nothing
is left behind; stored tokens can be read, and what the web client shows of its
profiles is what is stored.

## Modules

| module | models | composes |
| --- | --- | --- |
| `Register` | what the store promises: an atomic durable register | |
| `Store` | `internal/store` | implements `Register` |
| `Grants` | what pairing promises: a ledger of memberships | |
| `Auth` | `internal/auth` with `requireAuth` and the approval handler | implements `Grants` |
| `Events` | watcher, callback, hub, websocket handlers | |
| `HistoryCache` | the history cache and its invalidation | |
| `WebThread` | the message thread of the web client | |
| `RateLimiter` | the token buckets | |
| `KeyMaterial` | the files of the certificate and the identity | |
| `Daemon` | start, control socket, shutdown | extends `KeyMaterial` |
| `Webhooks` | registration and delivery of webhooks | |
| `Attachments` | sending messages and files, downloading attachments | |
| `WebProfiles` | the web client's profiles, sessions and storage | |
| `StoreProofs`, `AuthProofs`, `EventsProofs`, `RateLimiterProofs`, `HistoryCacheProofs`, `DaemonProofs`, `AttachmentsProofs`, `WebProfilesProofs` | theorems | |
| `MC*` | instances for TLC | |

The modules meet at two seams. `Store` shows that an `Update` takes effect at
one moment or not at all; `Auth` and `Events` use that, and take an update of
the configuration as one step. `Events` shows what each subscriber of the hub
gets; `HistoryCache` has the one channel of the invalidating goroutine. `Daemon`
lets every run of the program go through `KeyMaterial` before it serves;
`Webhooks`, like `Auth`, takes an update of the configuration as one step.

### Store

One action per step of a call: `Begin`, `Lock`, then for `Load` `LoadFile`, for
`Update` `LoadLocked`, `Callback`, `OpenTmp`, `WriteTmp`, `RenameTmp`, and
`Return` (the deferred unlock). `FailStep` is any of the error returns, `Crash`
the death of the process. The configuration is abstracted to a counter per
caller: an update adds one to its own, so a lost, doubled or stale update shows
in the counts. A file being written is `Torn`.

### Auth

`codes`, `sessions` and `clients` are the lists in the configuration; `held` is
the set of tokens that somebody outside has, `inflight` the claims of requests
that passed `requireAuth` and have not been answered. Approval is two steps,
because the claims are checked before the handler runs. `issued` remembers what
each code was created with, and a client remembers what created it (`via`) and
the code at the root of the chain of approvals (`root`). Strings are abstracted;
identifiers and codes are drawn fresh, as random ones are taken to be; tokens
cannot be forged. Every action prunes what its code prunes, with the same
comparison at the boundary instant. `GetSession` and `Pair` say whether the
reply arrives.

### Events

`rows` and `head` stand for the message database and the position of `imsg
watch`; that program is modelled from how it is called: with a cursor it prints
the rows after it, without one only what arrives later, and at any time an edit
or reaction for an older row. Its pipe is implicit: what was printed and not
read is what lies between `head` and `rows`. The watching goroutine goes
`backoff` -> `reading` -> (`saving`) -> `publishing` -> `reading`. `Publish` is
the whole of `hub.Publish`, which holds the hub's mutex. A channel holds places
in `feed`, the events published in this life of the daemon. `Crash` is any end
of the process, also a shutdown. `Unreadable` rows have a line that cannot be
decoded, or is too long for the scanner: `Choke` ends every watch that comes to
one, and only `MaxBreaks` of the other failures happen. `skipped` is where the
database stood at the first watch, and never moves again; `unheard` remembers
the later rows that came while the subprocess was down and there was still no
cursor, in memory or saved, to resume from.

### HistoryCache

A request is `Miss` or `Expired` and `Evict`, then `Load`, then `Put`; a hit
changes nothing, so it is the operator `Usable` and no action. A list is
abstracted to the number of changes of its chat that it reflects. `entries` has
every key, `None` where the map has nothing.

### WebThread

JavaScript runs to the next `await`, so each stretch between two of them is an
action. `view` is the React state, `rendered` the state of the last render,
which is what refs and click handlers see; `Render` brings them together. A call of
`loadMessagesForChat` goes `cache` -> `server` -> `answered` -> `done` (or
`failed`); its request number is its place in `loads`. Messages are numbered
over all chats, a sorted list is a set of numbers, and `mergeMessages` is a
union. Saves and reads of IndexedDB take effect in the order they are called.
`overlapped` is set where one thing comes between the parts of another: an
event or a page of older messages during a load or before the last change is
rendered, an event during the fetch of older messages, the shell's answer after
the user has picked a chat, a failed read of the cache. It stands for one mount
of `AppShell`, as a production build makes it. The server answers a load with
the newest messages of any moment up to now (`ListAt`), because its history
cache may still hold an earlier list; `aged` remembers which delivered messages
the answer of the last load was too old to have.

### RateLimiter

A bucket is `tokens` and `lastRefill`; a request that takes the mutex in `allow`
is one of `NewBucket`, `Admit`, `Refuse`. A token is `Per` parts and a tick
brings `Limit` parts, so nothing is rounded but the announced wait, which the
code rounds up to seconds. The code counts in `float64`; with the limits of the
router its sum can be short of a token by the last digit after the announced
wait, so `WaitSuffices` gives the client one second more. The limiter's clock
has no monotonic part (`UTC()` drops it), so `SetBack` lets it go back. The
announced wait is a duration, which the client counts from the moment of the
answer (`promise`); `lag` is how far the clock was then behind the bucket's last
refill, and how far it has been set back since: until it has caught up, the
bucket is not refilled. `forward` is how far it has moved forward in all, by
time or by being set: that, and not the difference of two readings, bounds what
passes.

### KeyMaterial and Daemon

Each start of the program is a run, and runs may overlap and die anywhere. A
run goes through the certificate's pair of files, then the identity's: a look
at each file, then a read of one or both, or a creation and a filling of each.
What a file holds is the run that made it. `mishap` is set when a run dies or
fails to write while it starts, or two starts overlap. In `Daemon` the port, the
socket's path and the goroutine of the control socket are added. A failing
`Accept` ends its loop (`AcceptFails`, then `LeaveSocket`), as the closing of the
listener does; `faulted` remembers the runs whose own `Chmod` or `Accept` failed.
That `Listen` or `MkdirAll` fail for other reasons than the path (no descriptor,
a path that is too long) is left out: the daemon then has no control socket from
the start, and logs it. Go removes the
path of a unix listener when it is closed, whosever it is by then, and so do
the `os.Remove` before `Listen` and the deferred one. `Exit` is every end of the
process: a signal before it is handled, `log.Fatal` when the port is taken, a
kill, and the return of `main`, which waits for nothing.

### Webhooks

`hooks` and `events` are the list in the store, `sends` the goroutines started by
`Dispatch`. A delivery is `Validate`, then `Post`, or ends in `SendFails`, once. A
name in a hook's list can be written in several ways, because `cleanEvents`
compares exactly and `subscribedTo` ignores case; nothing depends on the order of
hooks or names, so lists of them are sets. `asked` is the list that the
client sent, `view` what it can know of its hook when answers may be lost, and
`due` that view at each dispatch: the properties compare deliveries with those
and not with the code's own list. `Post` ends at the receiver that the hook
names: that `http.Client` follows a redirect, and sends the body again for a 307
or 308, is outside the model.

### Attachments

A request to send goes `Receive`, then `Save` if it brings a file, `Start`,
`Answer` and `Leave`; a handler's error returns are the other disjuncts of these
steps. `imsg` is the subprocess, which sends and ends in its own time; `Kill` is
what `exec.CommandContext` does when the context of the request is cancelled,
and `Answer` waits for the subprocess as `cmd.Run` does. `End` stops every
handler where it is, without its deferred calls, as the return of `main` does;
subprocesses go on. A download is `Open`, which fixes what `Content-Length`
says, and one `Copy` per buffer of `io.Copy`, while `Grow` lets Messages write
on. Lengths are counted in buffers. Left out: the sealing of ids (an id is the
length it records), the temporary files of a multipart form, which net/http
removes, children that imsg may start, and a file that is shortened.

### WebProfiles

Each function of `db.ts` is one transaction and one step; between the awaits of
an operation come steps of other tabs and of other operations of the same tab.
An operation goes `key` -> (`generate`) -> `store` -> `activate` -> `read` ->
`done` when it saves a profile, and through a part of that when it uses, removes
or caches one. Which page a tab shows is left out, but for the `SessionPage`
that polls: everything else is a click away. A profile and a key are named after
the operation that made them, and `lock` says which key a token is encrypted
with. `exposed`, `mixed`, `beside` and `late` record the overlaps that the
properties except: a profile saved while a key was being made, operations
beside each other or begun on an old state, a poll answered during a save, a
list answered after its profile was removed.

## Runs

| run | instance | states | question |
| --- | --- | --- | --- |
| `auth` | 2 codes, 1 session, 3 clients and tokens, clock to 2 | 578 thousand | do codes, scopes, tokens, sessions and revocation hold up under every order of operations, restarts and lost replies; is it a ledger of memberships |
| `store` | 2 callers, 3 calls each | 250 thousand | is the store an atomic durable register whose calls return |
| `events` | 2 websockets, channels of 1, 4 rows of which the third cannot be read, 1 update, 1 break, 1 crash | 683 thousand | which messages can be lost or repeated, what a connection gets, and is every message published although peers stall |
| `history` | 2 requests, 2 keys of a chat and a second chat, channel of 1, lifetime 1, clock to 2, 2 changes each | 3.6 million | how and how long a cached list can be behind |
| `history_race` | the same | stops at the violation | is a list always fetched again after an invalidation |
| `web_thread` | 2 chats, 2 messages, 2 loads, 1 older page, pages of 1 | 2.0 million | when can a thread show, or its cache hold, another chat's messages, and when can an event be lost from it |
| `rate_limiter` | 2 keys, 2 tokens in 5 ticks, the clock to 7, set back by 1 | 860 thousand | how many requests pass, and is the announced wait enough |
| `daemon` | 3 runs | 2.0 million | one identity, no start that fails without a cause, a control socket that is there |
| `daemon_second` | the same | stops at the violation | can a daemon that serves always be administered |
| `webhooks` | 2 hooks, 2 types in 3 spellings, 2 events | 158 thousand | does each receiver get what was asked for, once, and is nothing forgotten |
| `attachments` | a request with a file, one without, a download of up to 2 buffers, 1 end of the daemon | 587 thousand | does imsg get whole files, is an answer final, what stays behind, and is a complete download the file |
| `web_profiles` | 2 tabs, 3 operations, 1 session | 2.7 million | which tokens can be read, what is active, shown, stored twice or left behind |

The bounds. Two codes and one session are enough for a code to be redeemed
twice, for a chain of two approvals and for a session approved twice; three
clients for a chain and a bystander; every lifetime is 1 or 2, so each thing
can be used before, at and after the instant it expires; a session and its
token get different ones, so that a mix-up shows. Two callers are enough for
every race at one mutex. A channel of one is full after one event, so the
second is dropped while the handler writes and a third arrives after the gap;
two connections tell a drop for one from a drop for all. Two keys of a chat
tell removing an entry from removing all of them, and the second chat's events
fill the channel. Two messages and pages of one are enough for a thread that
misses one, a page of older messages and a message in each chat; two loads for
one to overtake the other. Seven ticks refill a bucket that takes five and
leave time to empty it again; three runs are one that serves, one beside it and
one after; two events and two hooks are enough for a deletion between them and
a hook that must survive it. Of four rows the third chokes the watch, so there
are rows before it and one behind it. Two requests are one with a file and one
without, independent but for the daemon; with two buffers a download can end
early, late and in between. Two tabs and three operations are enough for two
that overlap and one before or after them, which is all that each exception
needs. `MaxTime`, `MaxCalls`, `MaxRow`,
`MaxUpdates`, `MaxBreaks`, `MaxCrashes`, `MaxChanges`, `MaxMessage`, `MaxLoads`,
`MaxOlder`, `MaxBack`, `MaxEvents`, `MaxSize`, `EndLimit` and `Ops` only bound
the instances.

Clients, codes, tokens, request handlers, the web client's chats, tabs and
operations, keys of the limiter, runs of the daemon and hooks are symmetric and
interchangeable; the runs with a liveness property (`store`, `events`,
`attachments`) use no symmetry. Deadlock is checked
in `events`; in the others the bounds, or an end of everything, let the system
stop. Every type invariant is proved, and no run checks it again.

What they show. Everything holds but `HandledEventReloads` and `AdminReachable`.
A request that has its answer from imsg when the message arrives stores it after
the message's invalidation, and the old list is served until it expires or the
next message comes. `BehindOnlyIf` says that this and an event dropped at a full
channel are the only ways for a list to stay behind, and `BoundedlyStale` that
the lifetime ends it. In the web client, an event for a newly picked chat that
arrives before its cached messages have been read is merged into the previous
chat's messages, and the mixture is cached under the new chat: `CacheOfOneChat`
does not hold alone. `MixedOnlyByOverlap` says that the overlaps named above are
the only causes of mixed threads, and `DeliveredShown` that they and one thing
more are the only causes of lost events: a reload that the server answers from
its history cache, with a list older than the event, takes the message off the
screen again. Leaving any one overlap out of `overlapped` makes TLC find a
counterexample to one of the two. `NoneSkipped` shows where a message can be
lost for the event stream: between saving the cursor and publishing (`burnt`),
and while the subprocess or the daemon is down with no cursor to resume from,
which is so until a message has been heard in this life of the daemon or its
cursor saved in an earlier one (`unheard`). `RepeatsOnlyUnsaved` shows that only
a failed save makes a restarted daemon publish a message again.

A client that was refused passes after the announced wait and a second more,
but not if the clock had been set back: `WaitSuffices` says that it then waits
longer by just that much.

A second start beside a daemon that serves removes its control socket before it
finds the port taken. `SocketKept` says that a daemon loses it in no other way
but by a failure of its own `Chmod` or `Accept`, after which `Run` returns, and
the daemon serves on and is out of reach of the command line. Whatever
starts, overlaps and dies, no daemon ever serves with another's half of a pair
(`ServesWhatItHolds`), all that ever serve are the same to the clients
(`OneIdentity`), and a start fails only after a mishap: after one it may fail
for ever, because half a pair is reported and never repaired.

A line that cannot be decoded stops the event stream at that row for good, as
`EventuallyPublished` says by what it excepts, but skips nothing before it. A
daemon that ends leaves the copy of an upload in its directory when it
interrupted the request, and nothing removes it later (`StrayOnlyOfInterrupted`);
no client that gives up does (`NothingForNobody`), and a client that was refused
can try again without meeting its first attempt (`SettledByAnswer`), though that
may have been sent before it was refused. Two tabs that pair for the first time
at once leave a profile whose token nobody can decrypt, and `TokensReadable`
says that this is the only way to get one. An approved session leaves a
second profile when a poll is answered during a save, or after a save that had
stored the profile and then failed, and in no other way (`OncePerSession`);
removing a profile leaves no list behind but one that the server answers late
(`NothingLeft`).

Fairness. `Store` assumes that a goroutine that can run does, and that a caller
that finds the mutex free again and again gets it (`sync.Mutex` hands itself to
a waiter after a millisecond). `Events` assumes that the watching goroutine
goes on whenever it can; a failing subprocess is bounded by `MaxBreaks`, that
is, imsg does not fail for ever but at an unreadable row. Nothing is assumed
of websocket peers. `Attachments` assumes that a handler that runs goes on and
that the kill of a cancelled request's subprocess succeeds; that imsg ends by
itself is not assumed. The safety properties use no fairness.

## Proofs

The modules named `...Proofs` prove, for every value of the constants, that
`Store` implements `Register` and `Auth` implements `Grants`, and the type
invariants and all safety properties of the passing runs, from the named
assumptions in the modules (distinct model values, lifetimes and pages that are
positive numbers): for any number of callers, codes, clients, scopes,
websockets, rows, keys, runs, requests, tabs and operations, hooks, events,
chats and messages, any capacity of a channel, any limit, any length of a page
and any unit of time.

`EventsProofs` also has the proofs about `Webhooks`, and `WebProfilesProofs`
those about `WebThread`, in a part of their own: each pair has no name in
common, and the one argument uses nothing of the other.

- `StoreInv`: whoever is inside a call holds the mutex (`MutexHeld`), its copy
  is the file plus its own change (`CopyCurrent`), and an update about to be
  acknowledged is in the file (`AckEarned`). `NeverTorn` and `AckedDurable` alone
  are not inductive: they need to know what the rename will put in place.
- `AuthInv`: identifiers are unique (`UniqueClients`), codes on the list were
  issued with the scopes they have (`CodesIssued`), and the tokens of sessions
  are bound to clients like all others (`SessionTokensBound`). Without the first a
  token could match two clients, without the second a code could bring scopes
  from nowhere, without the third a poll could hand out an orphan.

The action properties (`RevokedStaysOut`, `NoLateRedemption`) and the
refinements follow from these invariants step by step.

- `WatchInv`, for the watching goroutine: the two cursors in memory agree and
  are not behind the saved one (`CursorsAgree`); every row up to the position of
  the subprocess is published, lost to a crash, in hand, predates the first
  watch, or was missed before there was a cursor (`Covered`); without a cursor
  nothing has been published in this life (`CursorsAgree`); what is in hand is
  newer than all that was published (`NewestLast`); a published row beyond the
  saved cursor is one whose save failed (`SavedOrNot`). `NoneSkipped` and
  `InOrder` speak of what is behind the cursor and need to know what the next
  line can be.
- `HubInv`, for the hub and the handlers: what a peer got, what its handler is
  writing and what waits in its channel are together a faithful piece of the
  feed (`StreamFaithful`), and a handler that is gone leaves nothing to the next
  (`HandlersTidy`). The proof of each step rests on lemmas about concatenation:
  taking and writing move an event between the three parts and leave the whole
  as it was.

- `RateInv`, for each key of the limiter: from any request that passed on, the
  tokens used since, those in the bucket and those owed for the time since its
  last refill are together no more than a full bucket and the clock's way since
  (`Budgeted`). `AtMostTheLimit` says nothing of what is left in the bucket and is
  not inductive. Setting the clock back only takes away what is owed, time adds
  to both sides, a pass moves a token from one term to another, and an overflow
  loses some. `PromiseBacked` says that the announced time, and what the
  clock has to catch up, cover what was missing.

- `HistoryCacheProofs`: the answer of a request that no publication overtook
  lacks nothing that has been published (`AnswerInv`); what an entry lacks was
  published no earlier than the entry was stored (`AgeInv`). `BoundedlyStale`
  speaks of what can be served now, and without `AgeInv` nothing ties an entry's
  expiry to the publication it lacks.
- `KeyInv`: a second file is made by the run that made the first
  (`HalvesBelong`), and nobody else fills what a run has created (`OwnWork`), so
  what a run holds stays in the files (`HeldIsThere`). `OneIdentity` compares
  runs that may never have met; they meet in the files. `SocketInv` adds that a
  run that is alone is the only one to touch the socket's path, and that it takes
  it away only when told to stop or when its own `Chmod` or `Accept` has failed.
- `AttachmentsProofs`: where a handler is says what its file, its subprocess and
  its answer can be, and for a download, where it is says how much of the file
  has come (`RequestInv`, `GetInv`). Handlers share nothing but the daemon, so a
  step of one keeps what is true of the others.
- `WebProfilesProofs`: a token that is not exposed is locked with the present key
  and nobody is making another (its `KeyInv`); an operation that overlaps no
  other activates a profile that is there (`ActiveInv`). What `refreshState` has
  read so far is what is stored, for nothing that writes runs beside it
  (`ShownInv`). One tab polls a session, none does any more once it has been
  saved, and of the polls of a session that were answered and have not failed one
  at most is beside no other (`PollInv`); `OncePerSession` looks only at profiles
  that have been stored, and does not say who may still poll.
- `ThreadInv`, for the message thread: as long as nothing has overlapped, each
  list is of one chat and the open chat is the one that the last load is for
  (`LoadInv`); whoever waits for older messages of the last load began after it
  ended (`OlderInv`); and what the stream has delivered is in the last load's
  answer, then on the screen, and in the list that an older page is merged into,
  or a page of newer messages exists, or the answer was too old to have it
  (`EnoughInv`). The last of these survives new messages because the log only
  grows (`LogGrows`, a count of a set that gets larger), and holds of an answer
  because of what the page of a moment is (`LastPage`).
- `WebhookInv`: a stored hook has the names that its creator sent, less the
  blank ones, and whoever was told of a hook can rely on it (`HookInv`); a
  dispatch remembers only hooks that had been created, so no later `Create`
  changes what they asked for (`DueInv`); a delivery is under way once, is
  wanted, and has not arrived (`SendInv`). `OnlyWhatWasAsked` says nothing of
  deliveries that are under way, and is not inductive.

Only model-checked: liveness (`EveryCallReturns`, `EventuallyPublished`,
`NothingForNobody`), which this prover cannot do.

## Not modelled

- The command line client sends one command to the control socket and prints the
  answer; it keeps no state.
- The http handlers of pairing and webhooks, and the listings of the imsg
  runner: one call in, one call out. What they call is in `Auth`, `Webhooks`,
  `HistoryCache` and `Attachments`.
- The web client's pages and layout, QR scanner and service worker; in
  `WebThread` the list of chats and events that change an old message.
- Scripts and packaging.
- Power loss: `Store` loses a process, never a write, and the code does not sync
  files. What two daemons beside each other do to `config.json`
  (`cmd/chatbubbles/main.go:75`): the code does not guard against it and promises
  nothing. Processes and pipes that `watch` leaves behind when it returns on a
  line it cannot decode (`watcher.go:128`), as no property counts them.

What could be added, in this order:

1. `Auth` with `Events`: what an open websocket still gets after its client is
   revoked, if that is ever promised; likewise the clients that a revoked client
   approved.
2. `Events` with `Webhooks`, and `Events` as an implementation of an abstract
   feed that loses only what is named.
