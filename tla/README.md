# LittleLaw: verification

TLA+ models of LittleLaw, a chat application without accounts: devices pair
with each other and keep their conversations in step over direct links, with a
rendezvous server as an optional helper. The models follow the code under
`core/lib` (Dart), `server` (Go), the protocol parts of `app/lib`, and the
desktop app's runner in `app/windows` (C++). Paths below are relative to the
repository.

## 1. The system

| Part | Code | State | Operations |
|---|---|---|---|
| SyncEngine | `core/lib/src/sync/sync_engine.dart` | `_sinks` (links to each peer, newest last), `_sessions`, `_appliedOps`, `_pendingAcks`, `_peerLastRecv` | send, delete, clear; handle Hello, op, ack; register and unregister a link; reconnect, revive, idle sweep |
| Store | `core/lib/src/store/store.dart` | SQLite tables `messages`, `deleted_msgs`, `ops`, `peers` (`next_op_seq`, `my_applied_seq`, `peer_applied_seq`), `groups`, `unpair_outbox` | one transaction per call: insert a message unless a tombstone forbids it, append an op, ops since a cursor, compact, move the cursor, delete with tombstones, clear, purge at start |
| PairingManager | `core/lib/src/pairing/pairing.dart` | invitation token, outgoing request, incoming requests awaiting an answer | request, respond, confirm, cancel; invitation and tap pairing; unpair |
| Facade | `core/lib/littlelaw_core.dart` | which parts are started | wires callbacks, flushes the unpair outbox when a link comes up |
| RendezvousClient | `core/lib/src/rendezvous/rendezvous.dart` | web socket, subscriptions, poll timer | presence, signals, push, fetch and acknowledge mail |
| Server mailbox | `server/mailbox.go` | a bbolt bucket per recipient with its sequence; `total_bytes` | push with quota, fetch a page, acknowledge, recount at start |
| Server hub | `server/hub.go`, `server/client.go` | online registry, watchers and their reverse index; per-client send buffer | register, unregister, subscribe, forward |
| Server limits, identities, push | `server/limits.go`, `identity.go`, `auth.go`, `push.go` | rate windows, first fingerprint of a device, push tokens | allow or refuse a frame, register a device, wake a phone |
| TransferManager | `core/lib/src/transfer/transfer.dart` | attempts, generations, cancel set, window and acks of each file | request, serve, acknowledge, retry, cancel |
| Discovery | `core/lib/src/discovery/discovery.dart` | peers seen and when, addresses | announce, expire, address change |
| WebRTC link | `app/lib/webrtc_link.dart` | one peer connection per peer, pending offers | offer, answer, candidates, close |
| Calls | `app/lib/call.dart` | phase of the call, media stream | invite, accept, hang up, time out |
| OOB codes | `core/lib/src/oob/*.dart` | chunks collected | split, collect, encode, decode |
| App window | `app/windows/runner/{main,win32_window,flutter_window}.cpp` | `window_handle_`, `class_registered_`, `g_active_window_count`, `quit_on_close_`, `flutter_controller_`, `share_channel_`, `child_content_` | create, show, resize, follow the theme, destroy (also nested), count windows |
| Clipboard and sharing | `app/windows/runner/share_channel.cpp`, `app/lib/share_out.dart`, `_handlePasteKey` in `app/lib/chat_page.dart` | none of its own: the clipboard of the system | read an image, read files, write one file or several |
| Crypto, identity, transport, UPnP, pages | `core/lib/src/{crypto,identity,transport,net}`, `app/lib` | keys, sockets, widgets | byte transformations, I/O, display |

How they interact. A user's action writes the tables and then calls
`SyncEngine._push`, which adds an envelope to the newest link and, when a
rendezvous server is attached, encrypts a copy into the recipient's mailbox.
Links come from three sources: a gRPC call this device makes
(`_OutgoingSession`), a gRPC call it accepts (`channel()`), and a WebRTC data
channel; all three call `_registerSink`/`_unregisterSink`. Discovery and the
hub's presence events start or end links through callbacks of the facade.
Pairing creates and unpairing removes the `peers` row that the cursors live in.

On Windows the Dart code runs in an engine that the runner hosts in a window.
Method calls of the channel `dev.littlelaw/share` are handled on the thread of
that window, between two of its messages; a handler that waits holds both up.

What is hard in it:

- two links between the same devices at once, each with its own order, and
  links that are broken at one end and still alive at the other;
- every op sent twice, over a link and through a mailbox, and replayed after a
  reconnect: arrival is unordered and repeated;
- tables that outlive the process next to memory that does not
  (`_appliedOps`, `_pendingAcks`, links), and writes of one operation that are
  several transactions;
- no common clock or arbiter: both users may delete, clear, unpair, cancel or
  call at the same moment;
- only the dialing end says Hello;
- a clipboard that belongs to every process, asked in several calls that each
  open it anew and may each fail;
- a window, its class, its engine and COM that must end in one order on every
  way out, with a `Destroy` that runs inside itself.

What makes each part correct:

- SyncEngine and Store: no message and no deletion is lost; what is deleted
  does not come back as long as its tombstone is kept; what is shown as delivered
  is there; both ends become the same; ops are acknowledged and compacted in the
  end.
- Pairing: both ends or neither hold the pairing, with the same token; a
  cancelled request leaves nothing behind; a second pairing starts clean.
- Mailbox: a stored copy leaves the box only after its recipient got it; quotas
  hold, and the byte count is never below what is stored.
- Hub: the registry names the connections that are served; the last presence a
  watcher hears about a device is true unless news crossed.
- Transfer: a received file is the announced one whatever was sent twice, late or
  by another member; every pull ends; no receiver stops another's.
- Links and calls: one link per peer, none that is dead but counted as open; a
  call that was hung up holds no media.
- Window: nothing is used after its end or ends twice; the window is shown,
  filled and coloured as the system is, whatever happened while it was made.
- Clipboard: a paste gives what somebody copied, in the form that comes first; a
  share that fails is told as failed; whoever opens the clipboard closes it.

These are aims. Where the code falls short of one, the property says what is true
instead and section 5 says what is not.

`PROJECT.json` lists every part with its status, and the hazards of the code at
the lines where they bite, with the properties that watch them.

## 2. What is modelled

### OpSync — `OpSync.tla`

The 1:1 protocol of `SyncEngine` over `Store`, for any number of devices.

| Model | Code |
|---|---|
| `inbox`, `tombs` | tables `messages` (per conversation) and `deleted_msgs` |
| `forgotten` | what the properties speak of: ids that were in `deleted_msgs` and were purged by `_migrate` at a start |
| `log`, `compacted`, `expired` | table `ops`: `log` keeps the rows that `compactOps` removed, `compacted` says up to where they are gone; `expired` are delete ops older than `deleteOpTtlMs` |
| `myApplied` | `peers.my_applied_seq` |
| `sent`, `sendState` | ids generated so far; `messages.send_state` of the author's row |
| `applied`, `pending`, `sinks` | `_appliedOps`, `_pendingAcks`, `_sinks`: lost in a restart |
| `conn`, `chan` | the gRPC stream a device dials and its two directions |
| `mail` | envelopes ever left in the peer's mailbox; a copy may arrive at any time and again, because a repeated delivery is possible until the server has handled the acknowledgement |
| `SendText`, `DeleteMessages`, `ClearAll` | `_commitMessage`, `_doDelete` |
| `Bury` | tombstones written by `deleteMessages` and `clearConversation`, and the purge of those older than `deleteOpTtlMs`, which is part of every action that restarts |
| `HandleHello`, `HandleAck`, `HandleOp` | the cases of `_handleIncoming`, with `_applyChat`, `_applyDelete`, `_advanceCursor`, `opsSince`, `compactOps` |
| `Dial`, `Accept`, `DialClosed`, `AcceptClosed` | `_OutgoingSession._connect`, `channel()`, `_onClosed`, the end of `channel()` |
| `Break`, `ForceDisconnect`, `Crash`, `TornSend`, `TornApply`, `TornDelete`, `Expire` | what can go wrong: a link breaks with what is in it, the idle sweep cuts, the process ends between or inside operations, two days pass |

A handler is one step: Dart runs it without interruption up to its first
`await`, and the table calls of these handlers are synchronous. The steps
inside an operation matter only for a crash. Three crashes that leave part of
the writes behind are modelled: `TornSend` (the row is there, its op is not),
`TornApply` (an arriving op has had its effect, the cursor has not moved) and
`TornDelete` (rows are gone, the op that tells the peer is not there). Not
modelled are those inside one effect (a delete op of more than 500 messages is
applied in several transactions), between an op and the copy for an own device,
and between the acknowledgement of a mail and its effect.

The model has no clock. Two days pass for any tombstone at any start, and for
any delete op by `Expire`, where `"expire"` is among the `Faults`; a mailbox
copy may be of any age, as the server sets none a limit. Not in the model:
`peer_applied_seq` (written, never read), the lamport order of messages (a
display order), `repushMessage` (appends a second op for a message that
failed), receipts, reactions, groups and mirrors to own devices.

### Conversation — `Conversation.tla`

What the synchronisation promises to its users, without logs, cursors, links
or mailboxes: write, deliver, delete, tick. What was deleted is not delivered
again until the device forgets that it deleted it, which it may if two days may
pass (`MayForget`). `OpSync!ImplementsConversation` says that `OpSync` implements
it, with `inbox`, `tombs`, `forgotten`, `sent` and the messages with send state
"ok" for its variables.

### Mailbox — `Mailbox.tla`

The offline mailbox of the server with the clients that push to it and poll it.

| Model | Code |
|---|---|
| `box`, `seqNo` | a recipient's bucket and its bbolt sequence (`NextSequence`) |
| `total` | `Mailbox.total`, the counted bytes |
| `conn`, `down`, `up` | the recipient's web socket: mailbox frames on it (at most `SendBuffer`, `Client.send`), its own frames not handled yet |
| `late` | frames of a connection that is over which the server had read or received |
| `pushed`, `got`, `dropped`, `used`, `reused` | what the properties speak of: mails pushed, mails handed to the application, mails acknowledged without that, numbers given out, mails that got a number a second time |
| `Unsure` | mails for which the recipient's key may come and go: any time one arrives it may be one of those that `_handleMailbox` acknowledges without handing it over, for an unknown sender or a failed decryption |
| `Push`, `Refuse` | `case "mailbox_push"` and `Mailbox.Push` |
| `HandleFetch`, `HandleAck`, `HandleLate` | the read loop: `Mailbox.Fetch`, `Mailbox.Ack` |
| `Connect`, `Poll`, `TakeFrame` | `_handleFrame` (`hello_ok`), `_mailPollTimer`, `_handleMailbox` |
| `Break`, `Restart` | a lost connection; `OpenMailbox` with `recountTotal` |

bbolt is not in the repository. `PageBytes` and `Reclaims` leave open what
`Bucket.Stats` reports where that depends on the page layout: whether a small
bucket counts anything, and whether the deletions of the running transaction
are seen. No property rests on one answer; the finding of run `reuse` holds
under either.

### Pairing — `Pairing.tla`

How two devices come to hold a pairing, and how they let go of it.

| Model | Code |
|---|---|
| `peers`, `notice` | tables `peers` (only which pairing's token) and `unpair_outbox`: they survive a restart |
| `via`, `client`, `server` | the way of a request, and how far it is at either end: the call of the requester; `_pending`, `_staged` or done with at the responder |
| `code` | `_tapToken`, `_pendingOfferToken` |
| `outgoing` | `_outgoingRequests` |
| `cancelled`, `cutOff` | what the properties speak of: requests whose user pressed cancel, and those of them whose pairing was stored and not yet taken back when the process ended |
| `net` | calls and answers under way, in any order |
| `Ask`, `Admit`, `Refuse`, `Respond`, `Timeout`, `HandleAccepted`, `HandleConfirm`, `HandleConfirmed`, `HandleRejected` | `requestPairWith`, `requestPair`, `respond`, `confirmPair` |
| `Cancel`, `HandleCancel`, `Finish` | `cancelOutgoingRequest`, `cancelPair`, the end of `startPairFlow` |
| `ShowCode`, `ForgetCode`, `Scan`, `HandleTap`, `Join`, `HandleAnswer` | `generateTapToken`, `pairViaTap`, `pairWithTap`, `beginRemoteOffer`, `acceptRemoteOffer`, `acceptRemoteAnswer` |
| `Unpair`, `HandleUnpair`, `HandleUnpaired`, `Dial`, `HandleNotice` | `unpairWith`, `unpair`, `_wipePeer`, `_flushUnpairOutbox`, `applyRemoteUnpair` |
| `CallFails`, `CancelLost`, `UnpairFails`, `NoticeLost`, `Restart` | calls that break, a notice lost with its link, the process ending |

The flag of the waiting dialog ends with the process, `cancelled` does not: the
user has cancelled all the same. The store steps of `confirmPair` and
`requestPairWith` are separate, with calls between them that may fail; that is
the point of the model. PINs, certificates and signatures are taken as valid
and the rotated token as equal at both ends.

### Transfer — `Transfer.tla`

How one file gets from its sender to the devices that hold the message.

| Model | Code |
|---|---|
| `version` | the file at the path in `_sendSources`, which the user may overwrite or delete; a chunk carries its place and the version it was read from |
| `state`, `file`, `part` | `messages.file_state`, the stored file, the `.part` file: they survive a restart |
| `stage`, `todo` | the running `_receiving` task and the sources it has left |
| `attempt`, `cancelled` | `_attempts`, `_cancelled` |
| `loops` | the calls of `_serveEnvelopeFetch` that run, each between two of its awaits: opening the file, reading a chunk, waiting for an acknowledgement |
| `gen`, `lastAck`, `notifier` | `_serveGen`, `_lastAck`, `_ackNotifiers` |
| `links`, `wire` | live sinks, the newest of which `_push` takes; what is on each |
| `Receive`, `Skip`, `Ask`, `Dial` | `receiveFile`, `_receiveGroupFileMulti`, the beginnings of `_doReceive` and `_doReceiveViaEnvelope` |
| `TakeDirect`, `DirectEnds`, `DirectRefused`, `FallBack` | `fetchFile`, the stream in `_doReceive`, `_fallbackToEnvelope` |
| `TakeFetch`, `Open`, `SendChunk`, `TakeAck`, `GiveUp` | `_serveEnvelopeFetch`, the listener of `start` |
| `TakeData`, `Stall`, `Check`, `Cancel` | `_doReceiveViaEnvelope`, `_finishReceive`, `cancelReceive` |
| `Connect`, `Break`, `NoteAddress`, `Restart`, `ChangeFile` | a further link, a lost one, discovery, the process ending, the user |

A completed notifier resumes its loop in a microtask, before the next event, so
`Wake` is part of the handler. Offsets count chunks. Sending is not in the
model: the announcement is a message of `OpSync`; nor are file names, the vault
and progress events. The handler of a cancel sent by the peer is left out
because nothing calls `sendFileCancel`.

### Hub — `Hub.tla`

Who is online, and what the server tells whom about it. Each connection has a
reader and a writer at the server.

| Model | Code |
|---|---|
| `online`, `watchers`, `watchedBy` | the tables of `Hub` |
| `phase`, `job` | where the goroutine of `readPump` is, and which frames it still has to send outside the lock |
| `send`, `done`, `closed` | `Client.send` (with what is on the wire), `Client.done`, a socket closed at either end |
| `inbox` | frames of the device the reader has not taken |
| `cur`, `isUp`, `wanted`, `view` | `_channel`, `_up`, the paired devices, and what the device heard of each one last |
| `raced` | what `ViewTrue` speaks of: devices about which the latest news need not come last |
| `Register`, `Greet`, `Read`, `End` | `handleHello` with `register`, `handleFrame` with `subscribe` and `forwardTo`, `unregister` |
| `Emit` | one `sendJSON` outside the lock |
| `Deliver`, `WriterEnds`, `Lose` | `writePump`, and a connection that is lost |
| `Connect`, `ClientClosed`, `ChangePeers`, `SendSignal` | `_connect`, `_onClosed`, `subscribePeers`, `sendSignal` |

What a reader does under the lock is one step, and each frame it sends
afterwards is another. The loop in the code runs over a Go map, so `job` is a
set. Signatures are valid; endpoints are left out; mailbox frames are in
`Mailbox`, and the rate limiter may strike at any frame.

### Window — `Window.tla`

`wWinMain` from its first line to its return, with `Win32Window`,
`FlutterWindow` and the window class.

| Model | Code |
|---|---|
| `at` | where `wWinMain` is, in `Create`, in `OnCreate`, in the loop, inside `WM_DESTROY`, or in the destructors |
| `count`, `registered`, `class` | `g_active_window_count`, `class_registered_`, and whether the system knows the class |
| `window`, `handle`, `child`, `quitOnClose` | the system's window, `window_handle_`, `child_content_` (with its size), `quit_on_close_` |
| `controller`, `channel` | `flutter_controller_` (also one that could not start its engine), `share_channel_` |
| `theme`, `dark`, `themeSent`, `size` | the registry value, the frame's colour, a message about it that is under way, the client area |
| `due`, `drawn`, `callback` | frames of the engine, and `SetNextFrameCallback` |
| `StartUp` ... `EnterLoop` | `wWinMain`, `Create`, `OnCreate`, with both ways to fail |
| `Resize`, `ThemeMessage`, `FrameCallback`, `Close`, `Destroyed` | what the loop dispatches |
| `LeaveLoop`, `Destruct`, `DestroyNested`, `DestroyOuter` | the end, with `Destroy` inside `DestroyWindow` inside `Destroy` |
| `DrawFrame`, `Animate`, `ChangeTheme` | the engine and the system |

In the destructor the members of `FlutterWindow` go first, and the virtual
`OnDestroy` is then the one of `Win32Window`. `UnregisterClass` fails while a
window of the class exists.

### Clipboard — `Clipboard.tla`

| Model | Code |
|---|---|
| `clip`, `opened` | the content of the clipboard, form by form, and who has it open |
| `stage`, `answer`, `got`, `toasts` | `_handlePasteKey` between its calls, `shareFiles` with `_shareSelection` |
| `calls`, `step`, `cur`, `result` | the handler of the channel: queued calls, the one that runs and where it is |
| `nested` | `CoInitializeEx` in `SaveHbitmapToPng` |
| `since`, `smooth`, `mine` | what the properties speak of: contents since the key was pressed, whether a call met an open clipboard or a failure, and the copy a share made |
| `HandleCall`, `OpenClipboard`, `ReadImage`, `SaveImage`, `ReadFiles`, `WriteFiles`, `CloseClipboard` | the functions of `share_channel.cpp`, cut where another process can come in between |
| `Joined`, `ManyFiles`, `OneFile`, `Names` | the block of `CF_HDROP`, character by character |
| `OtherOpens`, `OtherPuts`, `OtherCloses` | other processes, which look, empty and fill |

Every system call whose result the code looks at may fail at any time;
`EmptyClipboard`, whose result it does not look at, is taken to succeed, as it
does for who has the clipboard open. `Clipboard.getData` is
the engine's, on the same thread, and throws if it cannot open the clipboard.

### Runner — `Runner.tla`

`Window` and `Clipboard` on one thread: a call is handled only in the loop, by a
window that has its channel, and to its end before the next message; Dart code
goes on as long as the engine runs; users act when the window is shown.

## 3. Runs

Those of `OpSync` with two devices `a` and `b`.

| Run | Shows | Bounds |
|---|---|---|
| `links` | both devices dial: crossing, replaced and dead links, forced disconnects. The send state follows the link; no report is ahead of a cursor | two messages, two faults, logs of 2 |
| `store` | messages and deletions over one link and the mailbox, with a crash, a torn apply or delete, an expired op and purged tombstones. Nothing lost or ticked early; nothing comes back that is not forgotten; both ends converge but for what was forgotten or not told; refines `Conversation` | one message, one fault, logs of 3 plus profile ops, queues of 2 for mailbox arrivals |
| `live` | after any one fault of the seven, what was logged is delivered and compacted, though only `a` can dial | one message, one fault, logs of 2 plus profile ops |
| `mailbox` | a stored mail leaves only when it was handed over (or came when there was no key for it, or had a used number), the quota is not passed, until a restart an empty server has its whole quota, and every other mail is handed over in the end | one recipient, three mails of two sizes, one of them with a key that comes and goes, pages of one, one frame in the send buffer, one fault |
| `reuse` (violation) | a number given out again is deleted by the acknowledgement of the mail that had it before: a stored mail is lost unread | one recipient, two mails, no fault |
| `pairing` | the end that has to be first is first; a refused, kicked or cancelled request never becomes a pairing; one dialog per device; nobody who cancelled is left paired, but for a restart before the pairing was taken back; both ends hold the pairing or neither, or one knows why not | two requests of one device to the other, the second in any of three ways, two faults of different kinds |
| `crossing` (violation) | two requests in opposite directions leave different tokens at the ends | no fault |
| `pull` | the `.part` file is always a beginning of the file and a received file is the announced one, also if tries, links, sources and versions mix; a received file is not pulled again; one loop and one window per receiver; every pull ends, and with the file if nothing went wrong | a sender and two members of a group, two chunks, a window of one, two pulls, one further link, one fault |
| `group` (violation) | two members that pull over their links at once: one of them is stopped | two pulls, no fault |
| `desktop` | the window, its class, its engine and COM end in their order; every message finds the engine; size and colour are right or about to be; every way out of a call closes the clipboard; pastes give what was copied; a share that fails is told as failed and one that succeeds is on the clipboard; the window is shown, the tasks end, the process ends | one size or theme change after another, twice in all; or one paste, one share of one or two files, and one opening of the clipboard by another process |
| `presence` | whoever is connected is registered and whoever is registered is connected, also if connections of one device overlap; the reverse index is exact; a device that has heard everything knows who is online, with two exceptions | two devices, one connects twice and one once, one change of a subscription, a signal, one lost or throttled connection, buffers of two |
| `notice` (violation) | an unpair notice written for an old pairing ends a new one | one unpair call that fails |

Why these bounds are enough to be of use. Two devices are all a 1:1 protocol
has; the per-pair state of different pairs does not meet except in
`deleted_msgs`, which is per device, and the proofs below hold for any number.
A log of three with a profile op per link gives gaps, replays over a gap, and a
delete that overtakes the message it deletes. Two faults in `links` give a
broken link under a live one and a replaced sink that is torn down late. A
fault costs one of `MaxFaults`; every fault the list names does happen in a
run. `MaxQueue` bounds only when mailbox copies arrive, not what a link holds.
A tombstone is purged within the one fault of `store` (a crash), and the mailbox
copy that then brings its message back needs no other.
The devices are alike in `links`, and symmetry is used there only (a run
without liveness).

Fairness (`live` only). The reconnect timer dials again after a close, and the
revive timer where no link is left: `Redial` is weakly fair. An accepted call,
the end of a stream and an arrived envelope are callbacks of the event loop,
which runs every one of them: `Accept`, `DialClosed`, `AcceptClosed`, `Receive`
are weakly fair. Users, faults and the mailbox are not fair: delivery must not
depend on them.

In `mailbox` one mail whose key comes and goes stands for an unreadable one: it
shares pages and the send buffer with two that are always readable, which must
arrive all the same. Boxes meet only in `total`, and three mails are enough for a quota
that refuses the third, a page that hides the second, and a box that was
emptied and used again. A buffer of one makes the server drop a slow client.
The timers that reconnect and poll, and the server's read loop, are weakly
fair; `TakeFrame` is strongly fair, because the client's event loop handles a
frame that arrived long before the next poll, also if connections are cut again
and again. Frames of a dead connection (`HandleLate`) are not fair.

In `pairing` two requests give one that replaces another, a cancel that names
the wrong one, a re-pairing after an unpairing, and a code next to a dialog;
each kind of fault happens at most once. A user unpairs once at a time.

In `pull` one member has an address of the other two devices and the other has
none, or a stale one: gRPC, envelopes and the fall-back between them meet at the
same source. Two chunks and a window of one make a loop wait once. One fault is
a link or process lost, a cancel, a changed file, or a timer that fires though
the answer is still coming; `Stall` and `GiveUp` fire without a fault when
nothing is under way. `OneStream` says what its two halves need. Both are about
the only receiver over links, since generation and acknowledged place are kept
per file. One loop runs as long as at most one thing disturbed the pull: a
request ends the loop of the one before it, but `_serveGen` is removed while that
loop may still read, and then it takes itself for the current one beside that of
a third request. The window holds without a fault only: after a restart of the
receiver, whose attempts start at 1 again, frames of the old pull count as the
new one's.
`Delivered` is limited to pulls during which no link was opened: a second link
takes the frames that follow, these overtake the ones on the first, and the pull
fails though nothing broke. Timers, reads and arrivals are weakly fair; users,
new links and faults are not.

In `presence` the second connection of a device overlaps the first one in every
order: the kick, the late end of the old reader, and a subscription the old
reader takes after it was kicked. The exceptions in `ViewTrue` are the code's.
Presence frames leave after the lock is released, so when two readers have news
of the same device the older may come last. And `subscribe` does not ask whether
its connection is still the registered one, so a late frame of a kicked
connection can take the new subscription away for a moment, or leave one for a
device that is offline. Nothing corrects either before the next subscription.
The properties are safety properties; no fairness is assumed.

In `desktop` a behaviour has one of two kinds (`Limits`): the life of the window
and what the clipboard does meet only where a call needs its window and where
the engine ends, and both kinds have every start that fails and every moment to
close. Two changes are one while the window is made and one after it. Two paths,
one of two characters, make a list whose parts must not run together. One
opening by another process is enough to take the clipboard between any two calls
of a paste, to be met by a share, and to sit on it for ever. Fair are the thread
(what is posted to it is handled), the engine (a frame that is due is drawn) and
the Dart code; users, settings and other processes are not.

In `pairing` a restart is one of the fault kinds, and it may come between the
stored row (`confirmPair` answered) and the `unpair` of `startPairFlow`: the
process that ends then forgets the cancel, and `CancelledIsGone` names exactly
this pairing (`cutOff`). With any other pairing it holds over restarts of both ends.

`SendStateTrue` is checked without restarts: `_pendingAcks` is memory, and
after a restart of the sender an acknowledged message keeps its old send state.

Deadlock is not checked: a conversation may simply be over, and so may the
mails, the requests, the pulls and the connections.

## 4. Proofs

Checked by TLAPS for any devices, messages, faults and bounds
(`OpSyncSafety.tla`).

| Theorem | Says |
|---|---|
| `TypeCorrect` | `Spec => []TypeOK` |
| `ReportsAreHonest` | `Spec => []CursorsHonest` |
| `CursorsGrow` | `Spec => CursorMonotone` |
| `DeletesArrive` | `Spec => []NoDeleteLost` |
| `DeletedStaysAway` | `Spec => []DeletedStaysDeleted` |
| `MessagesArrive` | `Spec => []NoMessageLost` when `"torn_send" \notin Faults` |
| `ConversationKept` | `Spec => ImplementsConversation` when `"torn_send" \notin Faults` |
| `EndsAgree` | `Spec => []Converged` when `"torn_send" \notin Faults` |
| `EndsEqual` | settled ends show the same messages, without any exception, when `"clear" \notin UserOps` and `Faults` has none of `"torn_send"`, `"torn_delete"`, `"expire"` |
| `WaitingShown` | `Spec => []WaitingTrue`, the first half of `SendStateTrue` |
| `MarksTrue` | `Spec => []SendStateTrue` when there are no restarts |

The hypotheses are the code's. A crash between `insertMessage` and `appendOp`
leaves a message without an op, which is lost, and whose send state may be "ok"
from the start. A crash inside `_doDelete` leaves a deletion that is not told.
Who clears the conversation does not take away what is still on its way, so the
ends may differ (section 5). Two days make delete ops expire and tombstones go.
`_pendingAcks` is memory: after a restart an acknowledged message keeps its old
mark. `EndsAgree` has these cases in its conclusion instead: it says which
messages may then differ, and that no other does.

None of these invariants is inductive. Compaction follows an acknowledgement
that was sent some time ago, so the invariant must speak of envelopes under
way. `IInv` has five parts beside `TypeOK`: every envelope in a link or mailbox
says only what is so at its sender (`FlightHonest`); compaction is behind the
peer's cursor (`CompactedBehind`); what is counted as applied, in the cursor or
above it, has had its effect or had expired (`TakenDone`); only delete ops
expire (`ExpiredDeletes`); every message sent has its op (`SentLogged`). It
holds because no step forgets anything but old tombstones, which `forgotten`
keeps: `Progress` says, of one step, that logs only grow, rows leave `messages`
only for `deleted_msgs`, what was ever deleted stays so, cursors do not move
back, new envelopes are honest, and an op counts as applied only after its
effect. Each action is shown to make `Progress`, and `ProgressKeeps` shows once
that `Progress` keeps `IInv`. That the cursor covers a contiguous prefix enters
through `PrefixEnd`, in `AdvanceKeeps`; it is what makes an acknowledgement
safe to compact.

The refinement and `DeletedStaysAway` need a second invariant beside it,
`Tidy`: what is stored about a conversation speaks of messages of that
conversation, a row and its tombstone never meet (a row and a purged tombstone
may), a delete op names only what its author has deleted, a mark in
`_pendingAcks` belongs to the op that carries the message, and a message shown
as delivered was sent. With both, each action is shown to be one step of
`Conversation` or a stutter (`Seen`): a report that reaches a sender ticks only
messages at or below the cursor, which the peer has had by `TakenDone`.

That the ends agree (`EndsAgree`) needs a third one, `OwnKept`: a row of one's
own messages goes only by a deletion. With both logs applied, a row at one end
only would be a message whose op had no effect, against `TakenDone`, or was
deleted at the other end (`MissingDeleted`); and what a delete op names is deleted
here too. `EndsEqual` adds `Agreeing`: every deletion is told to the peer by an op
or came from one (`DeletionsTold`), nothing was cleared, and nothing is old enough
to be purged or left out (`AllYoung`). `MarksTrue` needs `Shown`:
what waits is shown as the links stand (`WaitingTrue`), an op is logged once,
what waits is above the compacted part, and a message above no mark was ticked
(`TickedOrPending`). Each step on a row is matched with the row's own op, so one
message's mark is never another's.

The only assumption on the constants is `ConstantsAssumption`, which TLC
evaluates in every run.

For `Transfer`, for any devices, numbers of chunks, pulls, links and faults
(`TransferSafety.tla`, `TransferPairs.tla`, `TransferStream.tla`, from
`TransferAssumption`):

| Theorem | Says |
|---|---|
| `PartSafe` | `Spec => []PartIsBeginning` |
| `ReceivedIsAnnounced` | `Spec => []DoneIsAnnounced` |
| `ReceivedStays` | `Spec => DoneIsFinal` |
| `TypeCorrect` | `Spec => []TypeOK` |
| `OneStreamKept` | `Spec => []OneStream` |
| `NothingOutOfPlace` | `Spec => []NoGap`: after one fault at most, the next frame of what the only receiver asked for last continues its `.part` |
| `CourseKept` | `Spec => [](Ground /\ Course)`, the invariant of the last two |

The invariant of the first three has three parts: the types of what holds chunks (`Types`), a
device that has the file runs no pull (`DoneIsIdle`), and every frame under way
carries the chunks of the place it names while every loop that reads holds the
file and is not past its end (`Serves`). Attempt and generation numbers are not
part of it. What a receiver appends is right because it compares the place of a
frame with the length of its `.part`, and what it accepts in the end is right
because it compares the hash; the numbers matter for progress only. `TypeCorrect`
adds `Rest`: what is on the list of sources is a device other than the receiver
(`OtherSources`, by an induction over the members), generations and attempts are
numbers that were given, and a loop that is to be woken does wait.

`OneStream` is far from inductive: whether a second loop can go on depends on
requests and frames that were sent before the receiver began again. A stream
(`Flow`) is one request, or one loop and the frames it has sent, in their order
over all links, of one attempt and from the end of the `.part` file on. `Course`
lists what may be under way beside it. Nothing, before anything goes wrong
(`Fresh`). After a fault, or with a second link: nothing either, because the link,
a process or the file is gone (`Spared`); or the pull has ended or is cut off
(`Over`); or the receiver asks again while its last request, loop or frames are
still there (`Twice`). Of the last there is then one request or one loop at most,
in front of the new request on the same link, and `_serveGen` tells its loop from
the new one as long as that one runs (`Beside`). A second fault breaks exactly
this. `Ground` is what holds whatever happens: links have two ends and carry what
is under way (`Tied`), a source that is tried is known (`Known`), a `.part` is made
of pieces of the announced file until that changes (`Pristine`). A step is followed
for every pair of a receiver and a source, whoever moves (`PairKept`; `GuidedKept`
for the numbers of requests), and then for the receiver by what it does itself
(`StepMode`).

The window needs `Paced` as well: a source has heard of no place that the receiver
has not come to, and what it has sent since lies within one window from there. Frames
of the current attempt are at different places, so there are no more of them than
places. `NoGap` follows from `Course` alone and says what the numbers are for:
`_doReceiveViaEnvelope` fails a pull on a frame that is not at the end of the
`.part`, and with one fault it never meets one. A second link is enough to break
that, as `Delivered` has it. No run checks `NoGap`; the run `pull` checks `OneStream`
with its bounds, and `Course` and `Paced` were tried with TLC, with two and three
devices, one fault and one further link, before they were proved.

For `Mailbox`, for any recipients, mails, quotas, pages, buffers and faults
(`MailboxSafety.tla`):

| Theorem | Says |
|---|---|
| `NothingStoredIsLost` | `Spec => []KeptUntilHanded` |
| `TypeCorrect` | `Spec => []TypeOK` |
| `TotalIsRight` | `Spec => []TotalRight` |

An acknowledgement deletes by number only, so the invariant is about numbers
under way: numbers in use were given by the sequence (`Numbers`), an item on its
way to the client is the mail stored under its number, and a number that the
client acknowledges stands for a mail it has, unless the mail stored there now
was given a used number (`Honest`, `Safe`, `Flights`). A number never used before
is named by nothing under way; that is where `NextSequence` enters (`Deliver`,
`AcknowledgeInv`), and where the exception `reused` comes from. "Has" means handed
over or dropped for want of a key: the client acknowledges both.

`TotalIsRight` (`Account`) adds up over the mails that were ever deposited, a
finite set that grows with each (`Stock`): a mail is in at most one box and once in
it (`Placed`, `Once`), so a deposit adds its bytes and an acknowledgement takes
away those of the numbers it names and no more. The sums are equal to folds over
finite sets; their laws (a set with one more member, two sets apart) are proved by
taking a smallest set without the law, because the induction theorems of the
library take an operator as parameter. For the same reason `MailboxAssumption`
says that there are finitely many boxes.

For `Pairing`, for any devices, requests, ways of pairing and faults
(`PairingSafety.tla`, from `PairingAssumption`):

| Theorem | Says |
|---|---|
| `FirstIsFirst` | `Spec => []FirstEndFirst` |
| `RefusalIsFinal` | `Spec => RefusedIsFinal` |
| `TypeCorrect` | `Spec => []TypeOK` |
| `CancelHolds` | `Spec => []CancelledIsGone`, which excepts the pairing whose own process ended before it was taken back |
| `OnePairingAgrees` | `Spec => []BothOrNeither` |

A call or an answer under way tells how far the other end is: who answers
"confirmed" has stored, whose answer to an invitation travels has stored (`Net`,
`Held`). A code stands for its own request and only while that is shown (`Codes`),
so a code that is used late pairs nobody else. Unpairing takes rows away and says
nothing about a request (`UnpairingKeeps`).

For `CancelHolds` the invariant `Calls` counts: of each request at most one call or
answer is under way (`OneCall`), and the place of both ends follows from it
(`Tables`). A cancel that comes too late finds the pairing stored and the client
takes it back (`Late`, `Withdrawn`), unless its process ends first: then the request
is in `cutOff`. `OnePairingAgrees` adds, for a single request,
which of the two rows can be there at each place, and that whoever holds a row
the other has given up is owed a notice (`Pairs`).

For `Hub`, for any devices, connections, buffers, signals and faults
(`HubSafety.tla`):

| Theorem | Says |
|---|---|
| `ConnectedIsReached` | `Spec => []ServedIsRegistered` |
| `NobodyStaysOnline` | `Spec => []RegisteredIsServed` |
| `IndexAgrees` | `Spec => []IndexExact` |
| `TypeCorrect` | `Spec => []TypeOK` |
| `ViewsAreTrue` | `Spec => []ViewTrue` |

The first three together, with the types of the tables and "a device is
registered with a connection of its own", are inductive. Everything outside the
lock keeps them because it changes no table and takes back no kick (`Apart`,
`SendingKicks`); `Register`, `Read` and `End` have a lemma each.

`ViewsAreTrue` must find, for every device a subscriber is wrong about, the frame
that will tell it: in what a reader has still to send (`Jobs`, `Sends`), in the
buffer of the connection, in the inbox of the client, or in a snapshot that was not
taken yet (`UpToDate`). The newest of them is the true one, except where two
readers had news of the same device (`raced`).

For the desktop app, for any sizes, themes, tasks, lists, processes and bounds
(`RunnerSafety.tla`):

| Theorem | Says |
|---|---|
| `OrderlyEnd`, `EngineForMessages`, `LooksAlright` | `WindowSpec => []EndsInOrder`, `WindowSpec => []LoopHasEngine`, `WindowSpec => []LooksRight` |
| `ImplementsWindow`, `ImplementsClipboard` | `SafeSpec => WindowSpec`, `SafeSpec => ClipboardSpec` |
| `AppEndsInOrder`, `AppLoopHasEngine`, `AppLooksRight` | the first three of the composition |
| `TypeCorrect`, `Clean` | `SafeSpec => []TypeOK`, `SafeSpec => []CallsAreClean` |
| `NoSilentFailure`, `Shared` | `SafeSpec => []FailureTold`, `SafeSpec => []ShareTold` |
| `Faithful`, `FirstForm` | `SafeSpec => PasteFaithful`, `SafeSpec => PasteFirst` |

The invariant of the window says what exists at each place of `wWinMain` (`Inv`);
neither of the first two is inductive alone, because both ends of a failed start
look like places in the middle of a good one. `Looks` adds which size and colour
each place has. The composition implements its two parts, so what holds of a part
holds of the whole and its proof need not look at the other. `Clean` needs both: a
call is handled only where the window's invariant gives an engine (`Attended`).

`NoSilentFailure` follows one call of a share through queue, handler and answer
(`ShareInv`): it is in at most one of these, and `mine` is written in between.
`Shared` needs that `ClipboardFiles` reads what the two functions that write a
list have written: `ManyRead` and `OneRead`, for any paths. The loops that write,
count and read are recursive functions; that they have the values their equations
say (`Runs`), that the text grows by a path and its NUL (`TurnAdds`), that what is
written stays (`Stays`), that the count is its length and two (`CharsIs`) and that
after k turns the reader stands behind the k-th path (`NamesIs`) are inductions
over the turns. `CopyFileToClipboard` is called for one path only (`ChosenInv`). For the
pastes, `PasteInv` says that the clipboard's content is always legible, that every
call is the one its task waits for, and that each result and answer is of some
content since the key was pressed (`Sourced`), or of the only one there was if
nothing disturbed the paste (`Straight`).

Induction over numbers and finite sets is written out where it is needed
(`Counting` and the sums of `MailboxSafety`), from the least element that
`WellFoundedInduction` gives: the library's induction theorems take an operator as
parameter.

Every invariant and every action property of a passing run is a theorem, of the
whole model or under the hypotheses named above. Only model-checked is what is
said of liveness (`EventuallyDelivered`, `EventuallyHanded`, `ReceiveEnds`,
`Delivered`, `Settles`), since fairness and ENABLED are outside what TLAPS 1.4.5
proves.

## 5. Where the code and its documents differ

Each of these is a violation run; `PROJECT.json` quotes the lines.

- `reuse`: "sent again until it is acknowledged, so delivered at least once"
  (rendezvous.dart, at the poll timer) against `Ack` deleting an empty bucket
  together with its sequence.
- `crossing`: "the same as the value the responder stores" (pairing.dart, at
  the requester's `upsertPeer`) against `confirmPair` and `requestPairWith`
  each overwriting the other's token.
- `group`: "each member pulls the file from this device" (transfer.dart) against
  generation, acknowledgement and notifier kept per file, not per receiver.
- `notice`: "for the case that the peer was away" and "idempotent"
  (littlelaw_core.dart, pairing.dart) against an outbox that a new pairing does
  not clear.

Met while modelling, without a run of their own:

- README.md says that the data of both ends is identical; a user who clears the
  conversation while a message is under way ends with a conversation that
  differs from the peer's (`_doDelete`, `_applyDelete` with `clearAll`).
  `Converged` excepts what was cleared at one end, which no delete op names.
- "image first" (chat_page.dart, `_handlePasteKey`) is true only of a clipboard
  that nobody else has open: a call that cannot open it answers like one that
  finds no image, so a paste of an image may insert its text. `PasteFirst` has
  the condition.
- A comment in win32_window.cpp (lines 22 and 23) says that a missing
  `AppsUseLightTheme` means light; `UpdateTheme` leaves the frame as it was.
  `LooksRight` leaves that value out.
- `_shareSelection` (chat_page.dart:1187) says "copied" also after `shareFiles`
  said that it failed: the second toast in `AfterShare`. `FailureTold` says that the
  failure is told; that it is contradicted at once is what the code does.
- store.dart, lines 369 and 370, says that a late copy of a message no longer comes
  when its tombstone is purged. The mailbox keeps a copy without an age limit, and
  one that comes after the purge shows the message again: the exceptions in
  `DeletedStaysDeleted`, `Converged` and `Conversation`.
- `_doDelete` removes rows and appends the op in two transactions: a process that
  ends in between leaves the message at the other end for good (`TornDelete`, the
  second exception of `Converged`).
- rendezvous.dart, lines 424 to 426, speaks of a retry before a mail that cannot be
  decrypted is acknowledged; the code acknowledges it at once, and it is gone
  (`dropped`). So is a mail from a device that is not paired yet.
- The cancel of a pairing is remembered by the waiting dialog only (main.dart:425). A
  process that ends between storing the pairing and taking it back keeps it
  (`cutOff`).
- A start that fails returns without `CoUninitialize`; the process ends anyway.
- "A new request ends the old loop" (transfer.dart, lines 554 to 556) does not hold
  of a loop that was disturbed twice, and the window of lines 551 and 552 is one
  per file, not one per receiver: `OneStream` has the conditions. Both came out
  when its invariant was written down for a proof.

## 6. Plan

In this order, each with its runs before the next one is begun.

1. Repair: what a second pairing inherits in the tables of `OpSync`: cursors,
   op numbers and `_appliedOps` of the first one.
2. Session: `_OutgoingSession` with its timers, the revive timer, heartbeat and
   idle sweep; Discovery, which feeds it.
3. Mirror: groups, receipts, reactions and mirrors to own devices over the
   numbered logs.
4. RtcLink and Call: one link per peer from concurrent offers; teardown racing
   set-up.
5. Codec: QR chunks and base45 against their definitions.
6. Hub, further: that every lost connection ends and every subscriber hears of
   each device, under fairness of readers and writers; the rate windows.

Proofs still worth having: with each module of the plan its own; and of `Transfer`
with two further links, what is left of the window.

Not to be modelled: encryption, certificates, UPnP, generated code and pages,
which keep no protocol state of their own; the runner for Linux, where GTK owns
the life of the window, and `utils.cpp`, which converts arguments. Of the
Windows runner: the method `shareText`, which the Dart code calls on Android
only, malformed arguments, the bytes of an image and its temporary file (both
`WriteFile` calls are taken to write everything), and `exit(0)` after a restored
backup, which runs no destructor.
